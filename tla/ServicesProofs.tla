---------------------------- MODULE ServicesProofs ----------------------------
(***************************************************************************)
(* Machine-checked facts about the services: the webhook secret, retention,*)
(* the circuit breaker, the rate limiter, the browser pool, the requests   *)
(* billed per result and the mail passes, for every number of callers,     *)
(* objects, visitors, requests, pages, runs and faults.                    *)
(***************************************************************************)
EXTENDS Services, TLAPS, FiniteSetTheorems, SequenceTheorems

-----------------------------------------------------------------------------
(* One component at a time *)

\* A step of the services is one of each component, or leaves that component alone.
LEMMA ComponentSteps ==
    ASSUME [ServicesNext]_serviceVars
    PROVE  /\ [WebhookNext]_webhookVars /\ [StorageNext]_storageVars /\ [SearchNext]_searchVars
           /\ [LimiterNext]_limiterVars /\ [BrowserNext]_browserVars /\ [MailNext]_mailVars
BY DEF ServicesNext, serviceVars

-----------------------------------------------------------------------------
(* The webhook secret *)

Secrets == {NoSecret} \cup {<<"first", d>> : d \in Deliveries} \cup {<<"rotated", n>> : n \in Nat}

WebhookTyped ==
    /\ secret \in Secrets /\ rotations \in Nat
    /\ delivery \in [Deliveries -> [at : {"idle", "create", "reread", "post", "done"},
                                    uses : Secrets, tries : Nat]]
    /\ posted \subseteq Deliveries \X Secrets \X Secrets
    /\ valid \in [Deliveries -> SUBSET Secrets]

\* What a caller holds: the row's secret is one it saw, and so is the one it signs with;
\* before the first rotation there is one secret in all.
SecretStands ==
    /\ secret = NoSecret =>
          posted = {} /\ \A d \in Deliveries : delivery[d].at \in {"idle", "create"}
    /\ \A d \in Deliveries :
          /\ delivery[d].at # "idle" /\ secret # NoSecret => secret \in valid[d]
          /\ delivery[d].at = "post" =>
                /\ delivery[d].uses \in valid[d]
                /\ rotations = 0 => delivery[d].uses = secret
    /\ \A p \in posted :
          /\ delivery[p[1]].at # "idle" /\ p[2] \in valid[p[1]]
          /\ rotations = 0 => p[2] = secret /\ p[3] = secret

WebhookInv == WebhookTyped /\ SecretStands

\* A secret that was generated is not the missing one.
LEMMA SecretsNamed ==
    /\ NoSecret \in Secrets
    /\ \A d \in Deliveries : <<"first", d>> \in Secrets /\ <<"first", d>> # NoSecret
    /\ \A n \in Nat : <<"rotated", n>> \in Secrets /\ <<"rotated", n>> # NoSecret
BY DEF Secrets, NoSecret

\* WebhookInv holds at first.
LEMMA WebhookStarts ==
    ASSUME WebhookInit PROVE WebhookInv
BY SecretsNamed DEF WebhookInit, WebhookInv, WebhookTyped, SecretStands, Waits

\* WebhookInv is kept.
LEMMA WebhookStep ==
    ASSUME WebhookInv, [WebhookNext]_webhookVars PROVE WebhookInv'
<1>0. WebhookTyped /\ SecretStands
  BY DEF WebhookInv
<1>1. ASSUME NEW d \in Deliveries, ReadSecret(d) PROVE WebhookInv'
  <2>1. WebhookTyped'
    BY <1>0, <1>1 DEF ReadSecret, SecretKept, WebhookTyped
  <2>2. SecretStands'
    BY <1>0, <1>1 DEF ReadSecret, SecretKept, WebhookTyped, SecretStands
  <2> QED
    BY <2>1, <2>2 DEF WebhookInv
<1>2. ASSUME NEW d \in Deliveries, CreateSecret(d) PROVE WebhookInv'
  <2>1. /\ delivery[d].at = "create" /\ delivery' = [delivery EXCEPT ![d].at = "reread"]
        /\ UNCHANGED <<posted, rotations>>
    BY <1>2 DEF CreateSecret, Settles
  <2>2. CASE secret = NoSecret
    <3>1. /\ secret' = <<"first", d>> /\ secret' \in Secrets /\ secret' # NoSecret
          /\ valid' = [e \in Deliveries |-> IF delivery[e].at = "idle" THEN valid[e]
                                            ELSE valid[e] \cup {secret'}]
      BY <1>2, <2>2, SecretsNamed DEF CreateSecret, Becomes
    <3>2. WebhookTyped'
      BY <1>0, <2>1, <3>1 DEF WebhookTyped
    <3>3. SecretStands'
      BY <1>0, <2>1, <2>2, <3>1 DEF WebhookTyped, SecretStands
    <3> QED
      BY <3>2, <3>3 DEF WebhookInv
  <2>3. CASE secret # NoSecret
    <3>1. UNCHANGED <<secret, valid>>
      BY <1>2, <2>3 DEF CreateSecret
    <3>2. WebhookTyped'
      BY <1>0, <2>1, <3>1 DEF WebhookTyped
    <3>3. SecretStands'
      BY <1>0, <2>1, <2>3, <3>1 DEF WebhookTyped, SecretStands
    <3> QED
      BY <3>2, <3>3 DEF WebhookInv
  <2> QED
    BY <2>2, <2>3
<1>3. ASSUME NEW d \in Deliveries, Reread(d) PROVE WebhookInv'
  <2>1. WebhookTyped'
    BY <1>0, <1>3 DEF Reread, SecretKept, WebhookTyped
  <2>2. SecretStands'
    BY <1>0, <1>3 DEF Reread, SecretKept, WebhookTyped, SecretStands
  <2> QED
    BY <2>1, <2>2 DEF WebhookInv
<1>4. ASSUME NEW d \in Deliveries, NEW accepted \in BOOLEAN, Post(d, accepted) PROVE WebhookInv'
  <2>1. PICK at \in {"post", "done"} :
           delivery' = [delivery EXCEPT ![d].tries = @ + 1, ![d].at = at]
    BY <1>4 DEF Post
  <2>2. /\ delivery[d].at = "post" /\ UNCHANGED <<secret, rotations, valid>>
        /\ posted' = posted \cup {<<d, delivery[d].uses, secret>>}
    BY <1>4 DEF Post, SecretKept
  <2>3. WebhookTyped'
    <3>1. <<d, delivery[d].uses, secret>> \in Deliveries \X Secrets \X Secrets
      BY <1>0 DEF WebhookTyped
    <3>2. posted' \subseteq Deliveries \X Secrets \X Secrets
      BY <1>0, <2>2, <3>1 DEF WebhookTyped
    <3>3. delivery' \in [Deliveries -> [at : {"idle", "create", "reread", "post", "done"},
                                        uses : Secrets, tries : Nat]]
      <4> DEFINE next == [delivery[d] EXCEPT !.tries = @ + 1, !.at = at]
      <4>1. delivery' = [delivery EXCEPT ![d] = next]
        BY <2>1
      <4>2. next \in [at : {"idle", "create", "reread", "post", "done"}, uses : Secrets, tries : Nat]
        <5>1. /\ delivery[d] \in [at : {"idle", "create", "reread", "post", "done"},
                                 uses : Secrets, tries : Nat]
              /\ delivery[d].tries + 1 \in Nat
          BY <1>0 DEF WebhookTyped
        <5> QED
          BY <5>1
      <4> HIDE DEF next
      <4> QED
        BY <1>0, <4>1, <4>2 DEF WebhookTyped
    <3> QED
      BY <1>0, <2>2, <3>2, <3>3 DEF WebhookTyped
  <2>4. SecretStands'
    BY <1>0, <2>1, <2>2 DEF WebhookTyped, SecretStands
  <2> QED
    BY <2>3, <2>4 DEF WebhookInv
<1>5. CASE Rotate
  <2>1. /\ secret' = <<"rotated", rotations>> /\ secret' \in Secrets /\ secret' # NoSecret
        /\ valid' = [e \in Deliveries |-> IF delivery[e].at = "idle" THEN valid[e]
                                          ELSE valid[e] \cup {secret'}]
        /\ rotations' = rotations + 1 /\ UNCHANGED <<delivery, posted>>
    BY <1>0, <1>5, SecretsNamed DEF Rotate, Becomes, WebhookTyped
  <2>2. WebhookTyped' /\ rotations' # 0
    BY <1>0, <2>1 DEF WebhookTyped
  <2>3. SecretStands'
    BY <1>0, <2>1, <2>2 DEF WebhookTyped, SecretStands
  <2> QED
    BY <2>2, <2>3 DEF WebhookInv
<1>6. CASE UNCHANGED webhookVars
  BY <1>0, <1>6 DEF webhookVars, WebhookInv, WebhookTyped, SecretStands
<1> QED
  BY <1>1, <1>2, <1>3, <1>4, <1>5, <1>6 DEF WebhookNext

\* "concurrent first-deliveries converge" (webhook_secret): whatever deliveries, look-ups and
\* rotations race, each post is signed with a secret that was the project's own meanwhile, and
\* all with the same one until somebody rotates it.
THEOREM PostsSignedAlike == ServicesSpec => []SignedAlike
<1>1. ServicesInit => WebhookInv
  BY WebhookStarts DEF ServicesInit
<1>2. WebhookInv /\ [ServicesNext]_serviceVars => WebhookInv'
  BY WebhookStep, ComponentSteps
<1>3. WebhookInv => SignedAlike
  BY DEF WebhookInv, SecretStands, SignedAlike
<1> QED
  BY <1>1, <1>2, <1>3, PTL DEF ServicesSpec

-----------------------------------------------------------------------------
(* Retention *)

Outputs == [kind : {None, "v1", "v2", "html"}, stored : BOOLEAN, link : SUBSET Nat, hits : Nat,
            at : {"none", "uploaded", "lost", "unlinked", "put", "read", "counted", "done"}]

StorageTyped ==
    /\ object \in [Objects -> Outputs]
    /\ deletion \in [Objects -> {"none", "later", "due", "swept"}]
    /\ sweep.at \in {"idle", "open"}
    /\ sweep.todo \subseteq Objects /\ sweep.done \subseteq Objects
    /\ sweep = [at |-> sweep.at, todo |-> sweep.todo, done |-> sweep.done,
                cleared |-> sweep.cleared, used |-> sweep.used, sent |-> sweep.sent]

\* The upload of an object is over before its deletion is due, the open sweep holds due rows
\* only and clears the one row of a key that no cache hit bears, and what was deleted, by no
\* manual call, is due until the row that points at it is cleared.
SweepStands ==
    /\ \A o \in Objects :
          /\ deletion[o] \in {"due", "swept"} => object[o].at = "done"
          /\ object[o].hits = 0 => object[o].link \subseteq {0}
          /\ deletion[o] = "swept" /\ object[o].hits = 0 => object[o].link = {}
          /\ object[o].at = "none" => object[o].link = {}
          /\ object[o].at # "none" /\ ~object[o].stored /\ o \notin manual
             => deletion[o] \in {"due", "swept"}
    /\ \A o \in sweep.todo \cup sweep.done : deletion[o] = "due"
    /\ \A o \in sweep.done : object[o].hits = 0 =>
          \A row \in object[o].link : <<o, row>> \in sweep.cleared

StorageInv == StorageTyped /\ SweepStands

\* StorageInv holds at first.
LEMMA StorageStarts ==
    ASSUME StorageInit PROVE StorageInv
BY DEF StorageInit, StorageInv, StorageTyped, SweepStands, NoSweep, None, Outputs

\* Steps of an upload and of a cache hit: they leave the sweep, and what is due, alone.
LEMMA UploadSteps ==
    ASSUME StorageInv, NEW o \in Objects,
           \/ PutObject(o) \/ Link(o) \/ CompleteV2(o) \/ CacheHit(o) \/ CountV1(o)
           \/ ReadV2(o) \/ WriteV2(o) \/ ScheduleDeletion(o) \/ Expire(o)
    PROVE  StorageInv'
<1>0. StorageTyped /\ SweepStands
  BY DEF StorageInv
<1>1. CASE PutObject(o)
  <2>1. PICK kind \in {"v1", "v2", "html"}, at \in {"unlinked", "uploaded", "counted"} :
           object' = [object EXCEPT ![o] = [kind |-> kind, stored |-> TRUE, link |-> {},
                                            hits |-> 0, at |-> at]]
    BY <1>1 DEF PutObject
  <2>2. object[o].at = "none" /\ UNCHANGED <<deletion, sweep, manual>>
    BY <1>1 DEF PutObject, calls
  <2>3. StorageTyped'
    BY <1>0, <2>1, <2>2 DEF StorageTyped, Outputs
  <2>4. SweepStands'
    BY <1>0, <2>1, <2>2 DEF StorageTyped, SweepStands, Outputs
  <2> QED
    BY <2>3, <2>4 DEF StorageInv
<1>2. CASE Link(o)
  <2>1. PICK at \in {"put", "done"} :
           object' = [object EXCEPT ![o].link = @ \cup {0}, ![o].at = at]
    BY <1>2 DEF Link
  <2>2. object[o].at = "unlinked" /\ UNCHANGED <<deletion, sweep, manual>>
    BY <1>2 DEF Link, calls
  <2>3. StorageTyped'
    BY <1>0, <2>1, <2>2 DEF StorageTyped, Outputs
  <2>4. SweepStands'
    BY <1>0, <2>1, <2>2 DEF StorageTyped, SweepStands, Outputs
  <2> QED
    BY <2>3, <2>4 DEF StorageInv
<1>3. CASE CacheHit(o)
  <2>1. /\ object' = [object EXCEPT ![o].hits = @ + 1, ![o].link = @ \cup {object[o].hits + 1}]
        /\ object[o].at = "done" /\ deletion[o] \in {"none", "later"}
        /\ UNCHANGED <<deletion, sweep, manual>>
    BY <1>3 DEF CacheHit, calls
  <2>2. object'[o].hits = object[o].hits + 1 /\ object[o].hits \in Nat
    BY <1>0, <2>1 DEF StorageTyped, Outputs
  <2>3. StorageTyped'
    <3>1. [object[o] EXCEPT !.hits = @ + 1, !.link = @ \cup {object[o].hits + 1}] \in Outputs
      <4>1. object[o].link \cup {object[o].hits + 1} \in SUBSET Nat
        BY <1>0, <2>2 DEF StorageTyped, Outputs
      <4>2. object[o] \in Outputs /\ object[o].hits + 1 \in Nat
        BY <1>0, <2>2 DEF StorageTyped
      <4> QED
        BY <4>1, <4>2 DEF Outputs
    <3>2. object' = [object EXCEPT ![o] =
                        [object[o] EXCEPT !.hits = @ + 1, !.link = @ \cup {object[o].hits + 1}]]
      BY <1>0, <2>1 DEF StorageTyped
    <3>3. object' \in [Objects -> Outputs]
      BY <1>0, <3>1, <3>2 DEF StorageTyped
    <3> QED
      BY <1>0, <2>1, <3>3 DEF StorageTyped
  <2>4. SweepStands'
    BY <1>0, <2>1, <2>2 DEF StorageTyped, SweepStands, Outputs
  <2> QED
    BY <2>3, <2>4 DEF StorageInv
<1>4. ASSUME object[o].at \in {"uploaded", "put", "read"}, NEW at \in {"put", "read", "counted"},
             Reaches(o, at), UNCHANGED <<deletion, sweep, manual>>
      PROVE  StorageInv'
  <2>1. StorageTyped'
    BY <1>0, <1>4 DEF Reaches, StorageTyped, Outputs
  <2>2. SweepStands'
    BY <1>0, <1>4 DEF Reaches, StorageTyped, SweepStands, Outputs
  <2> QED
    BY <2>1, <2>2 DEF StorageInv
<1>5. CASE CompleteV2(o) \/ CountV1(o) \/ ReadV2(o) \/ WriteV2(o)
  BY <1>4, <1>5 DEF CompleteV2, CountV1, ReadV2, WriteV2, calls
<1>6. CASE ScheduleDeletion(o)
  <2>1. PICK at \in {"unlinked", "done"} : Reaches(o, at)
    BY <1>6 DEF ScheduleDeletion
  <2>2. /\ object[o].at = "counted" /\ UNCHANGED <<sweep, manual>>
        /\ \/ deletion' = deletion
           \/ deletion' = [deletion EXCEPT ![o] = "later"]
    BY <1>0, <1>6 DEF ScheduleDeletion, StorageTyped, calls
  <2>3. deletion[o] \in {"none", "later"} /\ deletion'[o] \in {"none", "later"}
    BY <1>0, <2>2 DEF StorageTyped, SweepStands, Outputs
  <2>4. StorageTyped'
    BY <1>0, <2>1, <2>2 DEF Reaches, StorageTyped, Outputs
  <2>5. SweepStands'
    BY <1>0, <2>1, <2>2, <2>3 DEF Reaches, StorageTyped, SweepStands, Outputs
  <2> QED
    BY <2>4, <2>5 DEF StorageInv
<1>7. CASE Expire(o)
  <2>1. StorageTyped'
    BY <1>0, <1>7 DEF Expire, StorageTyped
  <2>2. SweepStands'
    BY <1>0, <1>7 DEF Expire, StorageTyped, SweepStands, calls
  <2> QED
    BY <2>1, <2>2 DEF StorageInv
<1> QED
  BY <1>1, <1>2, <1>3, <1>5, <1>6, <1>7

\* Steps of /internal/cleanup-file: what they delete is named in manual, and they clear only.
LEMMA CleanupSteps ==
    ASSUME StorageInv,
           \/ \E o \in Objects : CleanupFile(o)
           \/ CommitCleanup \/ CleanupFails
    PROVE  StorageInv'
<1>0. StorageTyped /\ SweepStands
  BY DEF StorageInv
<1>1. ASSUME NEW o \in Objects, CleanupFile(o) PROVE StorageInv'
  <2>1. /\ object[o].at = "done" /\ manual' = manual \cup {o} /\ UNCHANGED <<deletion, sweep>>
        /\ \/ object' = object
           \/ object' = [object EXCEPT ![o].stored = FALSE]
    BY <1>1 DEF CleanupFile, DeleteObject
  <2>2. StorageTyped'
    <3>1. [object[o] EXCEPT !.stored = FALSE] \in Outputs
      BY <1>0 DEF StorageTyped, Outputs
    <3>2. object' \in [Objects -> Outputs]
      BY <1>0, <2>1, <3>1 DEF StorageTyped
    <3> QED
      BY <1>0, <2>1, <3>2 DEF StorageTyped
  <2>3. SweepStands'
    BY <1>0, <2>1 DEF StorageTyped, SweepStands, Outputs
  <2> QED
    BY <2>2, <2>3 DEF StorageInv
<1>2. CASE CommitCleanup
  <2>1. /\ object' = [object EXCEPT ![cleanup.key].link = @ \ cleanup.rows]
        /\ UNCHANGED <<deletion, sweep, manual>>
    BY <1>2 DEF CommitCleanup
  <2>2. object' = [o \in Objects |-> IF o = cleanup.key
                                     THEN [object[o] EXCEPT !.link = @ \ cleanup.rows]
                                     ELSE object[o]]
    BY <1>0, <2>1 DEF StorageTyped, Outputs
  <2>3. StorageTyped'
    <3>1. \A o \in Objects : [object[o] EXCEPT !.link = @ \ cleanup.rows] \in Outputs
      BY <1>0 DEF StorageTyped, Outputs
    <3>2. object' \in [Objects -> Outputs]
      BY <1>0, <2>2, <3>1 DEF StorageTyped
    <3> QED
      BY <1>0, <2>1, <3>2 DEF StorageTyped
  <2>4. SweepStands'
    BY <1>0, <2>1, <2>2 DEF StorageTyped, SweepStands, Outputs
  <2> QED
    BY <2>3, <2>4 DEF StorageInv
<1>3. CASE CleanupFails
  BY <1>0, <1>3 DEF CleanupFails, StorageInv, StorageTyped, SweepStands
<1> QED
  BY <1>1, <1>2, <1>3

\* StorageInv is kept.
LEMMA StorageStep ==
    ASSUME StorageInv, [StorageNext]_storageVars PROVE StorageInv'
<1>0. StorageTyped /\ SweepStands
  BY DEF StorageInv
<1>1. ASSUME NEW o \in Objects, SweepRow(o) PROVE StorageInv'
  <2>1. /\ sweep.at = "open" /\ o \in sweep.todo /\ deletion[o] = "due"
        /\ UNCHANGED <<deletion, manual>>
        /\ \/ object' = object
           \/ object' = [object EXCEPT ![o].stored = FALSE]
    BY <1>0, <1>1 DEF SweepRow, SweepStands, DeleteObject, calls
  <2>2. PICK rows \in FirstRow(o) :
           /\ sweep'.at = sweep.at /\ sweep'.todo = sweep.todo \ {o}
           /\ sweep'.done = sweep.done \cup {o}
           /\ sweep'.cleared = sweep.cleared \cup ({o} \X rows)
           /\ sweep' = [at |-> sweep'.at, todo |-> sweep'.todo, done |-> sweep'.done,
                        cleared |-> sweep'.cleared, used |-> sweep'.used, sent |-> sweep'.sent]
    BY <1>0, <1>1 DEF SweepRow, StorageTyped
  <2>3. StorageTyped'
    <3>1. object' \in [Objects -> Outputs]
      <4>1. [object[o] EXCEPT !.stored = FALSE] \in Outputs
        BY <1>0 DEF StorageTyped, Outputs
      <4> QED
        BY <1>0, <2>1, <4>1 DEF StorageTyped
    <3>2. /\ sweep'.at \in {"idle", "open"}
          /\ sweep'.todo \subseteq Objects /\ sweep'.done \subseteq Objects
      BY <1>0, <2>2 DEF StorageTyped, Outputs
    <3> QED
      BY <1>0, <2>1, <2>2, <3>1, <3>2 DEF StorageTyped
  <2>4. \A x \in Objects : /\ object'[x].link = object[x].link /\ object'[x].hits = object[x].hits
                           /\ object'[x].at = object[x].at
                           /\ x # o => object'[x].stored = object[x].stored
    BY <1>0, <2>1 DEF StorageTyped, Outputs
  <2>5. object[o].hits = 0 => \A row \in object[o].link : row \in rows
    BY <1>0, <2>2 DEF FirstRow, SweepStands, StorageTyped
  <2>6. \A x \in sweep'.done : object'[x].hits = 0 =>
           \A row \in object'[x].link : <<x, row>> \in sweep'.cleared
    BY <1>0, <2>2, <2>4, <2>5 DEF SweepStands, StorageTyped
  <2>7. SweepStands'
    BY <1>0, <2>1, <2>2, <2>4, <2>6 DEF StorageTyped, SweepStands, Outputs
  <2> QED
    BY <2>3, <2>7 DEF StorageInv
<1>2. CASE CommitSweep
  <2>1. /\ deletion' = [o \in Objects |-> IF o \in sweep.done THEN "swept" ELSE deletion[o]]
        /\ object' = [o \in Objects |->
              [object[o] EXCEPT !.link = {row \in @ : <<o, row>> \notin sweep.cleared}]]
        /\ sweep' = NoSweep /\ UNCHANGED manual
    BY <1>2 DEF CommitSweep, calls
  <2>2. StorageTyped'
    <3>1. ASSUME NEW o \in Objects
          PROVE  [object[o] EXCEPT !.link = {row \in @ : <<o, row>> \notin sweep.cleared}] \in Outputs
      <4>1. object[o] \in Outputs /\ object[o].link \in SUBSET Nat
        BY <1>0 DEF StorageTyped, Outputs
      <4>2. {row \in object[o].link : <<o, row>> \notin sweep.cleared} \in SUBSET Nat
        BY <4>1
      <4> QED
        BY <4>1, <4>2 DEF Outputs
    <3>2. object' \in [Objects -> Outputs]
      BY <2>1, <3>1
    <3> QED
      BY <1>0, <2>1, <3>2 DEF StorageTyped, NoSweep
  <2>3. \A o \in Objects :
           /\ object'[o].link = {row \in object[o].link : <<o, row>> \notin sweep.cleared}
           /\ object'[o].hits = object[o].hits /\ object'[o].at = object[o].at
           /\ object'[o].stored = object[o].stored
    BY <1>0, <2>1 DEF StorageTyped, Outputs
  <2>4. \A o \in sweep.done : object'[o].hits = 0 => object'[o].link = {}
    <3>1. TAKE o \in sweep.done
    <3>2. o \in Objects /\ (object[o].hits = 0 =>
              \A row \in object[o].link : <<o, row>> \in sweep.cleared)
      BY <1>0 DEF SweepStands, StorageTyped
    <3>3. /\ object'[o].link = {row \in object[o].link : <<o, row>> \notin sweep.cleared}
          /\ object'[o].hits = object[o].hits
      BY <2>3, <3>2
    <3> QED
      BY <3>2, <3>3
  <2>5. SweepStands'
    <3>1. /\ sweep'.todo = {} /\ sweep'.done = {}
          /\ \A o \in Objects : deletion'[o] = IF o \in sweep.done THEN "swept" ELSE deletion[o]
      BY <2>1 DEF NoSweep
    <3>2. \A o \in Objects : object'[o].link \subseteq object[o].link
      BY <2>3
    <3>3. ASSUME NEW o \in Objects
          PROVE  /\ deletion'[o] \in {"due", "swept"} => object'[o].at = "done"
                 /\ object'[o].hits = 0 => object'[o].link \subseteq {0}
                 /\ deletion'[o] = "swept" /\ object'[o].hits = 0 => object'[o].link = {}
                 /\ object'[o].at = "none" => object'[o].link = {}
                 /\ object'[o].at # "none" /\ ~object'[o].stored /\ o \notin manual'
                    => deletion'[o] \in {"due", "swept"}
      <4>1. CASE o \in sweep.done
        <5>1. deletion[o] = "due" /\ deletion'[o] = "swept"
          BY <1>0, <3>1, <4>1 DEF SweepStands
        <5>2. object'[o].at = "done"
          BY <1>0, <2>3, <5>1 DEF SweepStands
        <5>3. object'[o].hits = 0 => object'[o].link = {}
          BY <2>4, <4>1
        <5> QED
          BY <5>1, <5>2, <5>3
      <4>2. CASE o \notin sweep.done
        <5>1. deletion'[o] = deletion[o]
          BY <3>1, <4>2
        <5>2. object[o].link = {} => object'[o].link = {}
          BY <3>2
        <5>3. object[o].link \subseteq {0} => object'[o].link \subseteq {0}
          BY <3>2
        <5> QED
          BY <1>0, <2>1, <2>3, <5>1, <5>2, <5>3 DEF SweepStands
      <4> QED
        BY <4>1, <4>2
    <3> QED
      BY <3>1, <3>3 DEF SweepStands
  <2> QED
    BY <2>2, <2>5 DEF StorageInv
<1>3. CASE ClaimDue
  <2>1. PICK rows \in SUBSET {o \in Objects : deletion[o] = "due"} :
           sweep' = [NoSweep EXCEPT !.at = "open", !.todo = rows]
    BY <1>3 DEF ClaimDue
  <2>2. sweep' = [at |-> "open", todo |-> rows, done |-> {}, cleared |-> {}, used |-> Unread,
                  sent |-> FALSE]
    BY <2>1 DEF NoSweep
  <2>3. /\ UNCHANGED <<object, deletion, manual>> /\ sweep'.at = "open" /\ sweep'.todo = rows
        /\ sweep'.done = {} /\ sweep'.cleared = {} /\ sweep'.used = Unread /\ sweep'.sent = FALSE
    BY <1>3, <2>2 DEF ClaimDue, calls
  <2>4. StorageTyped'
    BY <1>0, <2>1, <2>2, <2>3 DEF StorageTyped, Outputs
  <2>5. SweepStands'
    BY <1>0, <2>1, <2>3 DEF SweepStands
  <2> QED
    BY <2>4, <2>5 DEF StorageInv
<1>4. CASE SweepFails
  BY <1>0, <1>4 DEF SweepFails, StorageInv, StorageTyped, SweepStands, NoSweep, calls
<1>5. CASE StorageCrash
  <2>1. /\ \A o \in Objects :
              /\ object'[o].at \in {"none", "lost", "done"}
              /\ object'[o].at = "none" <=> object[o].at = "none"
              /\ object[o].at = "done" => object'[o].at = "done"
              /\ object'[o] = [object[o] EXCEPT !.at = object'[o].at]
        /\ sweep' = NoSweep /\ UNCHANGED <<deletion, manual>>
        /\ object' = [o \in Objects |-> object'[o]]
    <3>1. /\ sweep' = NoSweep /\ UNCHANGED <<deletion, manual>>
          /\ object' = [o \in Objects |->
                [object[o] EXCEPT !.at = CASE @ = "none" -> "none"
                                           [] @ \in {"uploaded", "lost"} -> "lost"
                                           [] OTHER -> "done"]]
      BY <1>5 DEF StorageCrash
    <3>2. ASSUME NEW o \in Objects
          PROVE  \E at \in {"none", "lost", "done"} :
                    /\ object'[o] = [object[o] EXCEPT !.at = at]
                    /\ at = "none" <=> object[o].at = "none"
                    /\ object[o].at = "done" => at = "done"
      <4>1. CASE object[o].at = "none"
        BY <3>1, <4>1
      <4>2. CASE object[o].at \in {"uploaded", "lost"}
        BY <3>1, <4>2
      <4>3. CASE object[o].at \notin {"none", "uploaded", "lost"}
        BY <3>1, <4>3
      <4> QED
        BY <4>1, <4>2, <4>3
    <3>3. ASSUME NEW o \in Objects
          PROVE  /\ object'[o].at \in {"none", "lost", "done"}
                 /\ object'[o].at = "none" <=> object[o].at = "none"
                 /\ object[o].at = "done" => object'[o].at = "done"
                 /\ object'[o] = [object[o] EXCEPT !.at = object'[o].at]
      <4>1. PICK at \in {"none", "lost", "done"} :
                    /\ object'[o] = [object[o] EXCEPT !.at = at]
                    /\ at = "none" <=> object[o].at = "none"
                    /\ object[o].at = "done" => at = "done"
        BY <3>2
      <4>2. object'[o].at = at
        BY <1>0, <4>1 DEF StorageTyped, Outputs
      <4> QED
        BY <4>1, <4>2
    <3> QED
      BY <3>1, <3>3
  <2>2. StorageTyped'
    <3>1. \A o \in Objects : object'[o] \in Outputs
      BY <1>0, <2>1 DEF StorageTyped, Outputs
    <3>2. object' \in [Objects -> Outputs]
      BY <2>1, <3>1
    <3> QED
      BY <1>0, <2>1, <3>2 DEF StorageTyped, NoSweep
  <2>3. SweepStands'
    BY <1>0, <2>1 DEF StorageTyped, SweepStands, NoSweep, Outputs
  <2> QED
    BY <2>2, <2>3 DEF StorageInv
<1>6. CASE BuyStorage \/ UNCHANGED storageVars
  BY <1>0, <1>6 DEF BuyStorage, storageVars, StorageInv, StorageTyped, SweepStands, calls
<1> QED
  BY <1>1, <1>2, <1>3, <1>4, <1>5, <1>6, UploadSteps, CleanupSteps DEF StorageNext

\* Whatever statements of the sweep, of uploads, cache hits, manual clean-ups and of a crash
\* fall between the delete of an object and the commit that clears its row, the deletion stays
\* due and will clear it, when the key is borne by one row and no manual call named it
\* (retention._delete_and_reconcile).  With more rows it fails: see SweptIsCleared.
THEOREM NoLastingDangle == ServicesSpec => []DanglingIsPending
<1>1. ServicesInit => StorageInv
  BY StorageStarts DEF ServicesInit
<1>2. StorageInv /\ [ServicesNext]_serviceVars => StorageInv'
  BY StorageStep, ComponentSteps
<1>3. StorageInv => DanglingIsPending
  BY DEF StorageInv, StorageTyped, SweepStands, DanglingIsPending
<1> QED
  BY <1>1, <1>2, <1>3, PTL DEF ServicesSpec

-----------------------------------------------------------------------------
(* The circuit breaker *)

Breakers == [state : {"closed", "open", "half_open"}, failures : Nat, tests : Nat,
             known : BOOLEAN, aged : BOOLEAN]

\* Half open, the breaker counts tests that no failure has interrupted.
BreakerInv ==
    /\ breaker \in Breakers /\ proven \in Nat
    /\ breaker.state = "half_open" => breaker.tests < HalfOpenMax /\ breaker.tests <= proven

\* What a success and a failure leave of a breaker.
LEMMA Outcomes ==
    ASSUME NEW b \in Breakers
    PROVE  /\ AfterSuccess(b) \in Breakers
           /\ b.state # "half_open" => AfterSuccess(b).state = b.state
           /\ b.state = "half_open" =>
                 \/ /\ b.tests + 1 < HalfOpenMax
                    /\ AfterSuccess(b).state = "half_open" /\ AfterSuccess(b).tests = b.tests + 1
                 \/ ~(b.tests + 1 < HalfOpenMax) /\ AfterSuccess(b).state = "closed"
           /\ AfterFailure(b) \in Breakers
           /\ AfterFailure(b).state # "half_open"
           /\ AfterFailure(b).state = "closed" => b.state = "closed"
<1> DEFINE failed == [b EXCEPT !.failures = Least(@ + 1, Threshold), !.known = TRUE, !.aged = FALSE]
<1>1. /\ Forgotten(b) \in Breakers /\ Forgotten(b).state = b.state
      /\ [Forgotten(b) EXCEPT !.state = "closed", !.tests = 0] \in Breakers
      /\ [Forgotten(b) EXCEPT !.state = "closed", !.tests = 0].state = "closed"
  BY DEF Forgotten, Breakers
<1>2. /\ [b EXCEPT !.tests = @ + 1] \in Breakers /\ [b EXCEPT !.tests = @ + 1].state = b.state
      /\ [b EXCEPT !.tests = @ + 1].tests = b.tests + 1
  BY DEF Breakers
<1>3. failed \in Breakers /\ failed.state = b.state
  <2>1. Least(b.failures + 1, Threshold) \in Nat
    BY SearchAssumption DEF Least, Breakers
  <2> QED
    BY <2>1 DEF Breakers
<1>4. AfterFailure(b) = IF b.state = "half_open" THEN [failed EXCEPT !.state = "open", !.tests = 0]
                        ELSE IF failed.failures >= Threshold THEN [failed EXCEPT !.state = "open"]
                        ELSE failed
  BY DEF AfterFailure
<1> HIDE DEF failed
<1>5. /\ [failed EXCEPT !.state = "open", !.tests = 0] \in Breakers
      /\ [failed EXCEPT !.state = "open", !.tests = 0].state = "open"
      /\ [failed EXCEPT !.state = "open"] \in Breakers
      /\ [failed EXCEPT !.state = "open"].state = "open"
  BY <1>3 DEF Breakers
<1>6. b.state \in {"closed", "open", "half_open"}
  BY DEF Breakers
<1> QED
  BY <1>1, <1>2, <1>3, <1>4, <1>5, <1>6 DEF AfterSuccess

\* Asking the breaker, at the top of an attempt.
LEMMA Asking ==
    ASSUME NEW b \in Breakers
    PROVE  /\ Asked(b) \in Breakers /\ (Asked(b).state = "closed" => b.state = "closed")
           /\ Asked(b) = b \/ Asked(b).tests = 0
BY DEF Asked, Breakers

\* BreakerInv is kept, and a step that closes the breaker does so on the last proof.
LEMMA BreakerStep ==
    ASSUME BreakerInv, [SearchNext]_searchVars
    PROVE  /\ BreakerInv'
           /\ breaker.state # "closed" /\ breaker'.state = "closed" =>
                 breaker.state = "half_open" /\ proven >= HalfOpenMax - 1
<1> DEFINE Good == /\ BreakerInv'
                   /\ breaker.state # "closed" /\ breaker'.state = "closed" =>
                         breaker.state = "half_open" /\ proven >= HalfOpenMax - 1
<1>0. /\ breaker \in Breakers /\ proven \in Nat /\ HalfOpenMax \in Nat \ {0}
      /\ breaker.state = "half_open" => breaker.tests < HalfOpenMax /\ breaker.tests <= proven
      /\ breaker.tests \in Nat
  BY SearchAssumption DEF BreakerInv, Breakers
<1>1. ASSUME NEW s \in Searchers, Attempt(s) PROVE Good
  <2>1. breaker' = Asked(breaker) /\ proven' = proven
    BY <1>1 DEF Attempt
  <2> QED
    BY <1>0, <2>1, Asking DEF BreakerInv
<1>2. ASSUME NEW s \in Searchers, SearchFound(s) PROVE Good
  <2>1. breaker' = AfterSuccess(breaker) /\ proven' = Least(proven + 1, HalfOpenMax)
    BY <1>2 DEF SearchFound
  <2>2. /\ proven' \in Nat
        /\ breaker.state = "half_open" /\ breaker.tests + 1 < HalfOpenMax =>
              breaker.tests + 1 <= proven'
    BY <1>0, <2>1 DEF Least
  <2> QED
    BY <1>0, <2>1, <2>2, Outcomes DEF BreakerInv
<1>3. ASSUME NEW s \in Searchers, Garbled(s) PROVE Good
  <2> DEFINE b == AfterSuccess(breaker)
  <2>1. breaker' = AfterFailure(b) /\ proven' = 0
    BY <1>3 DEF Garbled
  <2>2. b \in Breakers /\ (b.state = "closed" /\ breaker.state # "closed" =>
                             breaker.state = "half_open" /\ proven >= HalfOpenMax - 1)
    BY <1>0, Outcomes
  <2>3. /\ AfterFailure(b) \in Breakers /\ AfterFailure(b).state # "half_open"
        /\ AfterFailure(b).state = "closed" => b.state = "closed"
    BY <2>2, Outcomes
  <2> HIDE DEF b
  <2> QED
    BY <1>0, <2>1, <2>2, <2>3 DEF BreakerInv
<1>4. ASSUME NEW s \in Searchers, GiveUp(s) PROVE Good
  <2>1. breaker' = AfterFailure(breaker) /\ proven' = 0
    BY <1>4 DEF GiveUp
  <2> QED
    BY <1>0, <2>1, Outcomes DEF BreakerInv
<1>5. CASE Elapse
  <2>1. breaker' = [breaker EXCEPT !.aged = TRUE] /\ proven' = proven
    BY <1>5 DEF Elapse
  <2>2. /\ breaker' \in Breakers /\ breaker'.state = breaker.state
        /\ breaker'.tests = breaker.tests
    BY <1>0, <2>1 DEF Breakers
  <2> QED
    BY <1>0, <2>1, <2>2 DEF BreakerInv
<1>6. ASSUME UNCHANGED <<breaker, proven>> PROVE Good
  BY <1>6 DEF BreakerInv
<1>7. ASSUME NEW s \in Searchers, Unauthorised(s) \/ Transient(s) \/ SearchCancelled(s) PROVE Good
  BY <1>6, <1>7 DEF Unauthorised, Transient, SearchCancelled
<1>8. CASE UNCHANGED searchVars
  BY <1>6, <1>8 DEF searchVars
<1> QED
  BY <1>1, <1>2, <1>3, <1>4, <1>5, <1>7, <1>8 DEF SearchNext, BeginSearch, RetrySearch

\* However answers of searches race the retries, the breaker closes only on the last of
\* HalfOpenMax successes recorded with no failure between, and never from the open state
\* (circuit_breaker.record_success).
THEOREM BreakerClosesOnProof == ServicesSpec => ClosesOnProof
<1>1. ServicesInit => BreakerInv
  BY DEF ServicesInit, SearchInit, BreakerInv, Breakers
<1>2. BreakerInv /\ [ServicesNext]_serviceVars => BreakerInv'
  BY BreakerStep, ComponentSteps
<1>3. BreakerInv /\ [ServicesNext]_serviceVars =>
         [breaker.state # "closed" /\ breaker'.state = "closed" =>
             breaker.state = "half_open" /\ proven >= HalfOpenMax - 1]_searchVars
  BY BreakerStep, ComponentSteps
<1> QED
  BY <1>1, <1>2, <1>3, PTL DEF ServicesSpec, ClosesOnProof

-----------------------------------------------------------------------------
(* The rate limiter *)

\* No window holds more hits than its cap, nor lets through more than it counts.
WindowsStand ==
    /\ hits \in [Buckets -> [Window -> Nat]] /\ served \in [Buckets -> [Window -> Nat]]
    /\ \A b \in Buckets, w \in Window :
          served[b][w] <= hits[b][w] /\ hits[b][w] <= WindowCap(b, w)

\* The caps are numbers, and an address has less than its project.
LEMMA Caps ==
    /\ \A b \in Buckets, w \in Window : WindowCap(b, w) \in Nat
    /\ \A v \in Visitors, w \in Window :
          WindowCap(<<"pubip", v>>, w) < WindowCap(<<"proj", "public">>, w)
<1>1. \A w \in Window : IpCap(w) \in Nat
  BY LimiterAssumption DEF IpCap, Most, Window
<1>2. \A w \in Window : IpCap(w) < IF w = "minute" THEN PerMinute ELSE PerHour
  BY LimiterAssumption DEF IpCap, Most, Window
<1>3. ASSUME NEW v \in Visitors, NEW w \in Window
      PROVE  /\ WindowCap(<<"mint", v>>, w) = IF w = "minute" THEN MintPerMinute ELSE MintPerHour
             /\ WindowCap(<<"pubip", v>>, w) = IpCap(w)
  BY DEF WindowCap
<1>4. ASSUME NEW w \in Window
      PROVE  WindowCap(<<"proj", "public">>, w) = IF w = "minute" THEN PerMinute ELSE PerHour
  BY DEF WindowCap
<1>5. ASSUME NEW b \in Buckets, NEW w \in Window PROVE WindowCap(b, w) \in Nat
  <2>1. CASE b = <<"proj", "public">>
    BY <1>4, <2>1, LimiterAssumption
  <2>2. ASSUME NEW v \in Visitors, b = <<"mint", v>> PROVE WindowCap(b, w) \in Nat
    BY <1>3, <2>2, LimiterAssumption
  <2>3. ASSUME NEW v \in Visitors, b = <<"pubip", v>> PROVE WindowCap(b, w) \in Nat
    BY <1>1, <1>3, <2>3
  <2> QED
    BY <2>1, <2>2, <2>3 DEF Buckets
<1> QED
  BY <1>2, <1>3, <1>4, <1>5

\* A hit where there is room stays within the caps, whoever is served with it.
LEMMA HitsWithinCaps ==
    ASSUME NEW b \in Buckets, NEW h \in [Buckets -> [Window -> Nat]],
           \A w \in Window : h[b][w] < WindowCap(b, w),
           \A c \in Buckets, w \in Window : h[c][w] <= WindowCap(c, w)
    PROVE  /\ Hit(h, b) \in [Buckets -> [Window -> Nat]]
           /\ \A c \in Buckets, w \in Window : Hit(h, b)[c][w] = IF c = b THEN h[c][w] + 1 ELSE h[c][w]
           /\ \A c \in Buckets, w \in Window : Hit(h, b)[c][w] <= WindowCap(c, w)
<1>1. Hit(h, b) = [h EXCEPT ![b] = [w \in Window |-> h[b][w] + 1]]
  BY DEF Hit
<1>2. [w \in Window |-> h[b][w] + 1] \in [Window -> Nat]
  OBVIOUS
<1>3. Hit(h, b) \in [Buckets -> [Window -> Nat]]
  BY <1>1, <1>2
<1>4. \A c \in Buckets, w \in Window : Hit(h, b)[c][w] = IF c = b THEN h[c][w] + 1 ELSE h[c][w]
  BY <1>1
<1>5. \A c \in Buckets, w \in Window : h[c][w] \in Nat /\ WindowCap(c, w) \in Nat
  BY Caps
<1> QED
  BY <1>3, <1>4, <1>5

\* Who is served is counted.
LEMMA ServedCounted ==
    ASSUME NEW b \in Buckets, NEW s \in [Buckets -> [Window -> Nat]]
    PROVE  /\ Hit(s, b) \in [Buckets -> [Window -> Nat]]
           /\ \A c \in Buckets, w \in Window : Hit(s, b)[c][w] = IF c = b THEN s[c][w] + 1 ELSE s[c][w]
<1>1. Hit(s, b) = [s EXCEPT ![b] = [w \in Window |-> s[b][w] + 1]]
  BY DEF Hit
<1>2. [w \in Window |-> s[b][w] + 1] \in [Window -> Nat]
  OBVIOUS
<1> QED
  BY <1>1, <1>2

\* WindowsStand is kept.
LEMMA LimiterStep ==
    ASSUME WindowsStand, [LimiterNext]_limiterVars PROVE WindowsStand'
<1>0. /\ hits \in [Buckets -> [Window -> Nat]] /\ served \in [Buckets -> [Window -> Nat]]
      /\ \A b \in Buckets, w \in Window : /\ hits[b][w] \in Nat /\ served[b][w] \in Nat
                                          /\ WindowCap(b, w) \in Nat
      /\ \A b \in Buckets, w \in Window : served[b][w] <= hits[b][w]
      /\ \A b \in Buckets, w \in Window : hits[b][w] <= WindowCap(b, w)
  BY Caps DEF WindowsStand
<1>1. ASSUME UNCHANGED <<hits, served>> PROVE WindowsStand'
  BY <1>1 DEF WindowsStand
<1>2. ASSUME NEW v \in Visitors, Mint(v) PROVE WindowsStand'
  <2> DEFINE b == <<"mint", v>>
  <2>1. b \in Buckets
    BY DEF Buckets
  <2> HIDE DEF b
  <2>2. CASE HasRoom(b)
    <3>1. hits' = Hit(hits, b) /\ served' = Hit(served, b)
      BY <1>2, <2>2 DEF Mint, b
    <3>2. \A w \in Window : hits[b][w] < WindowCap(b, w)
      BY <2>2 DEF HasRoom
    <3>3. /\ Hit(hits, b) \in [Buckets -> [Window -> Nat]]
          /\ \A c \in Buckets, w \in Window :
                /\ Hit(hits, b)[c][w] = IF c = b THEN hits[c][w] + 1 ELSE hits[c][w]
                /\ Hit(hits, b)[c][w] <= WindowCap(c, w)
      BY <1>0, <2>1, <3>2, HitsWithinCaps
    <3>4. /\ Hit(served, b) \in [Buckets -> [Window -> Nat]]
          /\ \A c \in Buckets, w \in Window :
                Hit(served, b)[c][w] = IF c = b THEN served[c][w] + 1 ELSE served[c][w]
      BY <1>0, <2>1, ServedCounted
    <3>5. \A c \in Buckets, w \in Window : Hit(served, b)[c][w] <= Hit(hits, b)[c][w]
      BY <1>0, <3>3, <3>4
    <3> QED
      BY <1>0, <3>1, <3>3, <3>4, <3>5 DEF WindowsStand
  <2>3. CASE ~HasRoom(b)
    BY <1>1, <1>2, <2>3 DEF Mint, b
  <2> QED
    BY <2>2, <2>3
<1>3. ASSUME NEW v \in Visitors, Convert(v) PROVE WindowsStand'
  <2> DEFINE ip == <<"pubip", v>>
             project == <<"proj", "public">>
  <2>1. ip \in Buckets /\ project \in Buckets /\ ip # project
    BY DEF Buckets
  <2>2. \/ UNCHANGED <<hits, served>>
        \/ HasRoom(ip) /\ hits' = Hit(hits, ip) /\ UNCHANGED served
        \/ /\ HasRoom(ip) /\ HasRoom(project)
           /\ hits' = Hit(Hit(hits, ip), project) /\ served' = Hit(Hit(served, ip), project)
    BY <1>3 DEF Convert
  <2> HIDE DEF ip, project
  <2>3. ASSUME HasRoom(ip)
        PROVE  /\ Hit(hits, ip) \in [Buckets -> [Window -> Nat]]
               /\ \A c \in Buckets, w \in Window :
                     /\ Hit(hits, ip)[c][w] = IF c = ip THEN hits[c][w] + 1 ELSE hits[c][w]
                     /\ Hit(hits, ip)[c][w] <= WindowCap(c, w)
    <3>1. \A w \in Window : hits[ip][w] < WindowCap(ip, w)
      BY <2>3 DEF HasRoom
    <3> QED
      BY <1>0, <2>1, <3>1, HitsWithinCaps
  <2>4. CASE HasRoom(ip) /\ hits' = Hit(hits, ip) /\ UNCHANGED served
    BY <1>0, <2>3, <2>4 DEF WindowsStand
  <2>5. CASE /\ HasRoom(ip) /\ HasRoom(project)
             /\ hits' = Hit(Hit(hits, ip), project) /\ served' = Hit(Hit(served, ip), project)
    <3> DEFINE h == Hit(hits, ip)
               s == Hit(served, ip)
    <3>1. /\ h \in [Buckets -> [Window -> Nat]]
          /\ \A c \in Buckets, w \in Window :
                h[c][w] = (IF c = ip THEN hits[c][w] + 1 ELSE hits[c][w]) /\ h[c][w] <= WindowCap(c, w)
          /\ \A w \in Window : h[project][w] < WindowCap(project, w)
      BY <2>1, <2>3, <2>5 DEF HasRoom
    <3>2. /\ s \in [Buckets -> [Window -> Nat]]
          /\ \A c \in Buckets, w \in Window :
                s[c][w] = IF c = ip THEN served[c][w] + 1 ELSE served[c][w]
      BY <1>0, <2>1, ServedCounted
    <3>3. hits' = Hit(h, project) /\ served' = Hit(s, project)
      BY <2>5
    <3> HIDE DEF h, s
    <3>4. /\ hits' \in [Buckets -> [Window -> Nat]]
          /\ \A c \in Buckets, w \in Window :
                /\ hits'[c][w] = IF c = project THEN h[c][w] + 1 ELSE h[c][w]
                /\ hits'[c][w] <= WindowCap(c, w)
      BY <2>1, <3>1, <3>3, HitsWithinCaps
    <3>5. /\ served' \in [Buckets -> [Window -> Nat]]
          /\ \A c \in Buckets, w \in Window :
                served'[c][w] = IF c = project THEN s[c][w] + 1 ELSE s[c][w]
      BY <2>1, <3>2, <3>3, ServedCounted
    <3>6. \A c \in Buckets, w \in Window : served'[c][w] <= hits'[c][w]
      BY <1>0, <3>1, <3>2, <3>4, <3>5
    <3> QED
      BY <3>4, <3>5, <3>6 DEF WindowsStand
  <2> QED
    BY <1>1, <2>2, <2>4, <2>5
<1>4. CASE NextMinute
  <2>1. PICK hour \in BOOLEAN : hits' = Turned(hits, hour) /\ served' = Turned(served, hour)
    BY <1>4 DEF NextMinute
  <2>2. \A b \in Buckets, w \in Window :
           /\ hits'[b][w] = IF w = "minute" \/ hour THEN 0 ELSE hits[b][w]
           /\ served'[b][w] = IF w = "minute" \/ hour THEN 0 ELSE served[b][w]
    BY <2>1 DEF Turned
  <2>3. hits' \in [Buckets -> [Window -> Nat]] /\ served' \in [Buckets -> [Window -> Nat]]
    BY <1>0, <2>1 DEF Turned
  <2> QED
    BY <1>0, <2>2, <2>3 DEF WindowsStand
<1> QED
  BY <1>1, <1>2, <1>3, <1>4 DEF LimiterNext, limiterVars

\* "the backstop always engages BELOW the shared project window" (limiter.py): for every tier
\* of RATE_LIMITS, no visitor of a shared key can use up the project's minute or hour.
THEOREM BackstopAlwaysEngages == ServicesSpec => []BackstopEngages
<1>1. ServicesInit => WindowsStand
  <2>1. ASSUME ServicesInit PROVE WindowsStand
    <3>1. hits = [b \in Buckets |-> [w \in Window |-> 0]] /\ served = [b \in Buckets |-> [w \in Window |-> 0]]
      BY <2>1 DEF ServicesInit, LimiterInit, Unhit
    <3> QED
      BY <3>1, Caps DEF WindowsStand
  <2> QED
    BY <2>1
<1>2. WindowsStand /\ [ServicesNext]_serviceVars => WindowsStand'
  BY LimiterStep, ComponentSteps
<1>3. ASSUME WindowsStand PROVE BackstopEngages
  <2>1. \A b \in Buckets, w \in Window :
           /\ served[b][w] \in Nat /\ hits[b][w] \in Nat /\ WindowCap(b, w) \in Nat
           /\ served[b][w] <= hits[b][w] /\ hits[b][w] <= WindowCap(b, w)
    BY <1>3, Caps DEF WindowsStand
  <2>2. <<"proj", "public">> \in Buckets /\ \A v \in Visitors : <<"pubip", v>> \in Buckets
    BY DEF Buckets
  <2>3. \A b \in Buckets, w \in Window : served[b][w] <= WindowCap(b, w)
    BY <2>1
  <2> QED
    BY <2>1, <2>2, <2>3, Caps DEF BackstopEngages
<1> QED
  BY <1>1, <1>2, <1>3, PTL DEF ServicesSpec

-----------------------------------------------------------------------------
(* The browser pool *)

Places == {"idle", "waiting", "check", "close", "start", "starting", "opening", "render",
           "recover", "restart", "restarting", "unwind"}
RenderTasks == [kind : {None, "crawler", "context"}, at : Places, with : Nat, again : BOOLEAN]
Processes == UNION {[1..n -> {"up", "wedged", "dead"}] : n \in Nat}

BrowserTyped ==
    /\ chromium \in Processes /\ manager \in [crawler : Nat, ready : BOOLEAN]
    /\ task \in [Renderers -> RenderTasks]

OneInSlot == \A t, u \in InSlot : t = u

\* Whose hooks and cookies the manager's crawler may hold: a crawl that has not undone them.
Holds(x) ==
    /\ x \in Renderers /\ task[x].kind = "crawler"
    /\ \/ task[x].at \in {"render", "recover", "restart"}
       \/ task[x].at = "unwind" /\ task[x].with = manager.crawler

\* A launch finds no crawler, whoever uses a browser uses the manager's, and what a crawl
\* left on it is that crawl's.
BrowserStands ==
    /\ Alive \subseteq {manager.crawler} \cup forsaken
    /\ manager.ready => manager.crawler # 0
    /\ \A t \in Renderers :
          /\ task[t].at \in {"idle", "waiting"} => task[t].with = 0
          /\ task[t].at # "idle" => task[t].kind \in {"crawler", "context"}
          /\ task[t].at = "opening" => task[t].kind = "context"
          /\ task[t].at \in {"start", "restart"} => manager.crawler = 0
          /\ task[t].at \in {"starting", "restarting", "opening", "render", "recover"} =>
                manager.crawler # 0
          /\ task[t].at \in {"opening", "render", "recover"} => task[t].with = manager.crawler
          /\ (task[t].at = "render" /\ task[t].kind = "crawler") => hooked = t
    /\ hooked # None => Holds(hooked)
    /\ \A x \in jar \ uncleaned : Holds(x)

BrowserInv == BrowserTyped /\ OneInSlot /\ BrowserStands

\* Whoever is in the one slot is there alone.
LEMMA InSlotAlone ==
    ASSUME OneInSlot, NEW t \in Renderers, task[t].at \notin {"idle", "waiting"}
    PROVE  \A u \in Renderers : u # t => task[u].at \in {"idle", "waiting"}
BY DEF OneInSlot, InSlot

\* A task that moves, leaves or begins keeps its type, and every other task stays as it is.
LEMMA TaskSteps ==
    ASSUME task \in [Renderers -> RenderTasks], NEW t \in Renderers
    PROVE  /\ \A at \in Places : Moves(t, at) =>
                 /\ task' \in [Renderers -> RenderTasks]
                 /\ \A u \in Renderers : u # t => task'[u] = task[u]
                 /\ task'[t].at = at /\ task'[t].kind = task[t].kind
                 /\ task'[t].with = task[t].with
           /\ Leaving(t) =>
                 /\ task' \in [Renderers -> RenderTasks]
                 /\ \A u \in Renderers : u # t => task'[u] = task[u]
                 /\ task'[t].at = "idle" /\ task'[t].with = 0
           /\ \A p \in Nat : Begins(t, p) =>
                 /\ task' \in [Renderers -> RenderTasks]
                 /\ \A u \in Renderers : u # t => task'[u] = task[u]
                 /\ task'[t].kind = task[t].kind /\ task'[t].with = p
                 /\ task'[t].at = IF task[t].kind = "context" THEN "opening" ELSE "render"
<1>1. ASSUME NEW at \in Places, Moves(t, at)
      PROVE  /\ task' \in [Renderers -> RenderTasks]
             /\ \A u \in Renderers : u # t => task'[u] = task[u]
             /\ task'[t].at = at /\ task'[t].kind = task[t].kind
             /\ task'[t].with = task[t].with
  BY <1>1 DEF Moves, RenderTasks
<1>2. ASSUME Leaving(t)
      PROVE  /\ task' \in [Renderers -> RenderTasks]
             /\ \A u \in Renderers : u # t => task'[u] = task[u]
             /\ task'[t].at = "idle" /\ task'[t].with = 0
  BY <1>2 DEF Leaving, Outside, RenderTasks, Places
<1>3. ASSUME NEW p \in Nat, Begins(t, p)
      PROVE  /\ task' \in [Renderers -> RenderTasks]
             /\ \A u \in Renderers : u # t => task'[u] = task[u]
             /\ task'[t].kind = task[t].kind /\ task'[t].with = p
             /\ task'[t].at = IF task[t].kind = "context" THEN "opening" ELSE "render"
  BY <1>3 DEF Begins, RenderTasks, Places
<1> QED
  BY <1>1, <1>2, <1>3

\* A process that is closed, fails or is launched leaves the others as they are.
LEMMA ProcessSteps ==
    ASSUME chromium \in Processes
    PROVE  /\ \A p : Killed(p) \in Processes /\ \A q \in Launched : q # p => Killed(p)[q] = chromium[q]
           /\ \A p : DOMAIN Killed(p) = Launched /\ (p \in Launched => Killed(p)[p] = "dead")
           /\ \A p \in Launched, how \in {"wedged", "dead"} :
                 [chromium EXCEPT ![p] = how] \in Processes
           /\ LET p == Cardinality(Launched) + 1
              IN  /\ p \in Nat /\ p \notin Launched
                  /\ [q \in Launched \cup {p} |-> IF q = p THEN "up" ELSE chromium[q]] \in Processes
<1>1. PICK n \in Nat : chromium \in [1..n -> {"up", "wedged", "dead"}]
  BY DEF Processes
<1>2. Launched = 1..n /\ Cardinality(Launched) = n
  BY <1>1, FS_Interval DEF Launched
<1>3. \A p : Killed(p) \in [1..n -> {"up", "wedged", "dead"}]
  BY <1>1, <1>2 DEF Killed
<1>4. \A p : /\ \A q \in Launched : q # p => Killed(p)[q] = chromium[q]
             /\ DOMAIN Killed(p) = Launched /\ (p \in Launched => Killed(p)[p] = "dead")
  BY DEF Killed
<1>5. \A p \in Launched, how \in {"wedged", "dead"} :
         [chromium EXCEPT ![p] = how] \in [1..n -> {"up", "wedged", "dead"}]
  BY <1>1, <1>2
<1>6. n + 1 \in Nat /\ n + 1 \notin Launched /\ Launched \cup {n + 1} = 1..(n + 1)
  BY <1>2
<1>7. [q \in Launched \cup {n + 1} |-> IF q = n + 1 THEN "up" ELSE chromium[q]]
         \in [1..(n + 1) -> {"up", "wedged", "dead"}]
  BY <1>1, <1>2, <1>6
<1>8. \A m \in Nat : [1..m -> {"up", "wedged", "dead"}] \subseteq Processes
  BY DEF Processes
<1>9. /\ \A p : Killed(p) \in Processes
      /\ \A p \in Launched, how \in {"wedged", "dead"} : [chromium EXCEPT ![p] = how] \in Processes
      /\ [q \in Launched \cup {n + 1} |-> IF q = n + 1 THEN "up" ELSE chromium[q]] \in Processes
  BY <1>3, <1>5, <1>6, <1>7, <1>8
<1> QED
  BY <1>2, <1>4, <1>6, <1>9

\* BrowserInv holds at first.
LEMMA BrowserStarts ==
    ASSUME BrowserInit PROVE BrowserInv
<1>1. chromium \in [1..1 -> {"up", "wedged", "dead"}]
  BY DEF BrowserInit
<1>2. BrowserTyped
  BY <1>1 DEF BrowserInit, BrowserTyped, Processes, Outside, RenderTasks, Places
<1>3. InSlot = {}
  BY DEF BrowserInit, InSlot, Outside
<1>4. BrowserStands
  BY DEF BrowserInit, BrowserStands, Alive, Launched, Outside
<1> QED
  BY <1>2, <1>3, <1>4 DEF BrowserInv, OneInSlot

\* A step of a task that is, and so stays, alone in the slot keeps it to itself.
LEMMA SlotKept ==
    ASSUME NEW t \in Renderers,
           \A u \in Renderers : u # t => task[u].at \in {"idle", "waiting"} /\ task'[u] = task[u]
    PROVE  OneInSlot'
BY DEF OneInSlot, InSlot

\* BrowserInv is kept.
LEMMA BrowserStep ==
    ASSUME Slots = 1, BrowserInv, [BrowserNext]_browserVars PROVE BrowserInv'
<1>0. BrowserTyped /\ OneInSlot /\ BrowserStands
  BY DEF BrowserInv
<1>1. CASE UNCHANGED browserVars
  BY <1>0, <1>1 DEF browserVars, BrowserInv, BrowserTyped, OneInSlot, InSlot, BrowserStands, Holds,
                    Alive, Launched
<1>2. ASSUME NEW t \in Renderers, NEW kind \in {"crawler", "context"}, Queue(t, kind) PROVE BrowserInv'
  <2>1. /\ task' \in [Renderers -> RenderTasks] /\ task[t].at = "idle"
        /\ task'[t].at = "waiting" /\ task'[t].kind = kind /\ task'[t].with = task[t].with
        /\ \A u \in Renderers : u # t => task'[u] = task[u]
    BY <1>0, <1>2 DEF Queue, BrowserTyped, RenderTasks, Places
  <2>2. OneInSlot'
    BY <1>0, <2>1 DEF OneInSlot, InSlot
  <2>3. UNCHANGED <<chromium, manager, launching, hooked, jar, uncleaned, forsaken>>
    BY <1>2 DEF Queue, sharedVars
  <2>4. BrowserStands'
    BY <1>0, <2>1, <2>3 DEF BrowserStands, Holds, Alive, Launched
  <2> QED
    BY <1>0, <2>1, <2>2, <2>3, <2>4 DEF BrowserInv, BrowserTyped
<1>3. ASSUME NEW t \in Renderers, AcquireSlot(t) PROVE BrowserInv'
  <2>1. /\ task' \in [Renderers -> RenderTasks] /\ task[t].at = "waiting"
        /\ task'[t].at = "check" /\ task'[t].kind = task[t].kind
        /\ \A u \in Renderers : u # t => task'[u] = task[u]
    BY <1>0, <1>3, TaskSteps DEF AcquireSlot, BrowserTyped, Places
  <2>2. UNCHANGED <<chromium, manager, launching, hooked, jar, uncleaned, forsaken>>
    BY <1>3 DEF AcquireSlot, sharedVars
  <2>3. InSlot = {}
    <3>1. IsFiniteSet(InSlot)
      BY BrowserAssumption, FS_Subset DEF InSlot
    <3>2. Cardinality(InSlot) \in Nat /\ Cardinality(InSlot) < 1
      BY <1>3, <3>1, FS_CardinalityType DEF AcquireSlot
    <3>3. Cardinality(InSlot) = 0
      BY <3>2
    <3> QED
      BY <3>1, <3>3, FS_EmptySet
  <2>4. OneInSlot'
    BY <2>1, <2>3 DEF OneInSlot, InSlot
  <2>5. BrowserStands'
    BY <1>0, <2>1, <2>2 DEF BrowserStands, Holds, Alive, Launched
  <2> QED
    BY <1>0, <2>1, <2>2, <2>4, <2>5 DEF BrowserInv, BrowserTyped
<1>4. ASSUME NEW t \in Renderers, SlotTimeout(t) PROVE BrowserInv'
  <2>1. /\ task' \in [Renderers -> RenderTasks] /\ task[t].at = "waiting"
        /\ task'[t].at = "idle" /\ task'[t].with = 0
        /\ \A u \in Renderers : u # t => task'[u] = task[u]
    BY <1>0, <1>4, TaskSteps DEF SlotTimeout, BrowserTyped
  <2>2. UNCHANGED <<chromium, manager, launching, hooked, jar, uncleaned, forsaken>>
    BY <1>4 DEF SlotTimeout, sharedVars
  <2>3. OneInSlot'
    BY <1>0, <2>1 DEF OneInSlot, InSlot
  <2>4. BrowserStands'
    BY <1>0, <2>1, <2>2 DEF BrowserStands, Holds, Alive, Launched
  <2> QED
    BY <1>0, <2>1, <2>2, <2>3, <2>4 DEF BrowserInv, BrowserTyped
<1>5. ASSUME NEW t \in Renderers, EnsureReady(t) PROVE BrowserInv'
  <2>1. task[t].at = "check" /\ UNCHANGED <<chromium, manager, launching, forsaken>>
    BY <1>5 DEF EnsureReady
  <2>2. \A u \in Renderers : u # t => task[u].at \in {"idle", "waiting"}
    BY <1>0, <2>1, InSlotAlone
  <2>3. hooked = None /\ jar \subseteq uncleaned
    BY <1>0, <2>1, <2>2 DEF BrowserStands, Holds
  <2>4. CASE manager.ready /\ Begins(t, manager.crawler)
    <3>1. manager.crawler \in Nat
      BY <1>0 DEF BrowserTyped
    <3>2. /\ task' \in [Renderers -> RenderTasks]
          /\ \A u \in Renderers : u # t => task'[u] = task[u]
          /\ task'[t].kind = task[t].kind /\ task'[t].with = manager.crawler
          /\ task'[t].at = IF task[t].kind = "context" THEN "opening" ELSE "render"
      BY <1>0, <2>4, <3>1, TaskSteps DEF BrowserTyped
    <3>3. IF task[t].kind = "context" THEN UNCHANGED <<hooked, jar, uncleaned>>
          ELSE hooked' = t /\ jar' = jar \cup {t} /\ UNCHANGED uncleaned
      BY <2>4 DEF Begins, sharedVars
    <3>4. OneInSlot'
      BY <2>2, <3>2, SlotKept
    <3>5. BrowserStands'
      BY <1>0, <2>1, <2>2, <2>3, <2>4, <3>2, <3>3 DEF BrowserStands, Holds, Alive, Launched
    <3> QED
      BY <1>0, <2>1, <3>2, <3>4, <3>5 DEF BrowserInv, BrowserTyped
  <2>5. CASE Moves(t, "close") /\ UNCHANGED sharedVars
    <3>1. /\ task' \in [Renderers -> RenderTasks] /\ task'[t].at = "close" /\ task'[t].kind = task[t].kind
          /\ \A u \in Renderers : u # t => task'[u] = task[u]
      BY <1>0, <2>5, TaskSteps DEF BrowserTyped, Places
    <3>2. OneInSlot'
      BY <2>2, <3>1, SlotKept
    <3>3. BrowserStands'
      BY <1>0, <2>1, <2>2, <2>3, <2>5, <3>1 DEF BrowserStands, Holds, Alive, Launched, sharedVars
    <3> QED
      BY <1>0, <2>1, <3>1, <3>2, <3>3 DEF BrowserInv, BrowserTyped
  <2> QED
    BY <1>5, <2>4, <2>5 DEF EnsureReady

<1>6. ASSUME NEW t \in Renderers, NEW closed \in BOOLEAN, Dispose(t, closed) PROVE BrowserInv'
  <2> DEFINE next == IF task[t].at = "close" THEN "start" ELSE "restart"
  <2>1. /\ task[t].at \in {"close", "recover"} /\ manager' = NoCrawler /\ Moves(t, next)
        /\ UNCHANGED <<launching, hooked, jar, uncleaned>>
    BY <1>6 DEF Dispose, sharedVars
  <2>2. \A u \in Renderers : u # t => task[u].at \in {"idle", "waiting"}
    BY <1>0, <2>1, InSlotAlone
  <2>3. /\ task' \in [Renderers -> RenderTasks] /\ task'[t].at = next /\ task'[t].kind = task[t].kind
        /\ \A u \in Renderers : u # t => task'[u] = task[u]
    BY <1>0, <2>1, TaskSteps DEF BrowserTyped, Places
  <2>4. OneInSlot'
    BY <2>2, <2>3, SlotKept
  <2>5. chromium' \in Processes /\ Alive' \subseteq forsaken'
    <3>1. CASE closed
      <4>1. chromium' = Killed(manager.crawler) /\ UNCHANGED forsaken
        BY <1>6, <3>1 DEF Dispose
      <4> QED
        BY <1>0, <4>1, ProcessSteps DEF BrowserTyped, BrowserStands, Alive, Launched
    <3>2. CASE ~closed
      BY <1>0, <1>6, <3>2 DEF Dispose, BrowserTyped, BrowserStands, Alive, Launched
    <3> QED
      BY <3>1, <3>2
  <2>6. manager' \in [crawler : Nat, ready : BOOLEAN] /\ manager'.crawler = 0 /\ ~manager'.ready
    BY <2>1 DEF NoCrawler
  <2>7. BrowserStands'
    BY <1>0, <2>1, <2>2, <2>3, <2>5, <2>6 DEF BrowserStands, Holds
  <2> QED
    BY <2>3, <2>4, <2>5, <2>6, <2>7 DEF BrowserInv, BrowserTyped
<1>7. ASSUME NEW t \in Renderers, Launch(t) PROVE BrowserInv'
  <2> DEFINE next == IF task[t].at = "start" THEN "starting" ELSE "restarting"
             p == Cardinality(Launched) + 1
  <2>1. /\ task[t].at \in {"start", "restart"} /\ Moves(t, next)
        /\ chromium' = [q \in Launched \cup {p} |-> IF q = p THEN "up" ELSE chromium[q]]
        /\ manager' = [crawler |-> p, ready |-> FALSE]
        /\ hooked' = None /\ jar' = {} /\ UNCHANGED <<forsaken, uncleaned>>
    BY <1>7 DEF Launch
  <2>2. \A u \in Renderers : u # t => task[u].at \in {"idle", "waiting"}
    BY <1>0, <2>1, InSlotAlone
  <2>3. /\ task' \in [Renderers -> RenderTasks] /\ task'[t].at = next /\ task'[t].kind = task[t].kind
        /\ \A u \in Renderers : u # t => task'[u] = task[u]
    BY <1>0, <2>1, TaskSteps DEF BrowserTyped, Places
  <2>4. OneInSlot'
    BY <2>2, <2>3, SlotKept
  <2>5. /\ p \in Nat /\ p # 0 /\ p \notin Launched
        /\ [q \in Launched \cup {p} |-> IF q = p THEN "up" ELSE chromium[q]] \in Processes
    <3>1. Cardinality(Launched) \in Nat
      BY <1>0, FS_Interval, FS_CardinalityType DEF BrowserTyped, Processes, Launched
    <3> QED
      BY <1>0, <3>1, ProcessSteps DEF BrowserTyped
  <2> HIDE DEF p
  <2>6. manager' \in [crawler : Nat, ready : BOOLEAN] /\ manager'.crawler = p /\ ~manager'.ready
    BY <2>1, <2>5
  <2>7. 0 \notin Launched
    BY <1>0, FS_Interval DEF BrowserTyped, Processes, Launched
  <2>8. Alive \subseteq forsaken
    BY <1>0, <2>1, <2>7 DEF BrowserStands, Alive
  <2>9. Alive' \subseteq {p} \cup forsaken'
    BY <2>1, <2>5, <2>8 DEF Alive, Launched
  <2>10. BrowserStands'
    BY <1>0, <2>1, <2>2, <2>3, <2>5, <2>6, <2>9 DEF BrowserStands, Holds
  <2> QED
    BY <2>1, <2>3, <2>4, <2>5, <2>6, <2>10 DEF BrowserInv, BrowserTyped
<1>8. ASSUME NEW t \in Renderers, Started(t) PROVE BrowserInv'
  <2>1. /\ task[t].at \in {"starting", "restarting"} /\ manager' = [manager EXCEPT !.ready = TRUE]
        /\ UNCHANGED <<chromium, forsaken>>
    BY <1>8 DEF Started
  <2>2. \A u \in Renderers : u # t => task[u].at \in {"idle", "waiting"}
    BY <1>0, <2>1, InSlotAlone
  <2>3. hooked = None /\ jar \subseteq uncleaned
    BY <1>0, <2>1, <2>2 DEF BrowserStands, Holds
  <2>4. /\ manager.crawler \in Nat /\ manager' \in [crawler : Nat, ready : BOOLEAN]
        /\ manager'.crawler = manager.crawler
    BY <1>0, <2>1 DEF BrowserTyped
  <2>5. CASE task[t].at = "restarting"
    <3>1. Moves(t, "unwind") /\ UNCHANGED <<hooked, jar, uncleaned>>
      BY <1>8, <2>5 DEF Started, sharedVars
    <3>2. /\ task' \in [Renderers -> RenderTasks] /\ task'[t].at = "unwind"
          /\ task'[t].kind = task[t].kind
          /\ \A u \in Renderers : u # t => task'[u] = task[u]
      BY <1>0, <3>1, TaskSteps DEF BrowserTyped, Places
    <3>3. OneInSlot'
      BY <2>2, <3>2, SlotKept
    <3>4. BrowserStands'
      BY <1>0, <2>1, <2>2, <2>3, <2>4, <2>5, <3>1, <3>2 DEF BrowserStands, Holds, Alive, Launched
    <3> QED
      BY <1>0, <2>1, <2>4, <3>2, <3>3, <3>4 DEF BrowserInv, BrowserTyped
  <2>6. CASE task[t].at = "starting"
    <3>1. Begins(t, manager.crawler)
      BY <1>8, <2>6 DEF Started
    <3>2. /\ task' \in [Renderers -> RenderTasks]
          /\ \A u \in Renderers : u # t => task'[u] = task[u]
          /\ task'[t].kind = task[t].kind /\ task'[t].with = manager.crawler
          /\ task'[t].at = IF task[t].kind = "context" THEN "opening" ELSE "render"
      BY <1>0, <2>4, <3>1, TaskSteps DEF BrowserTyped
    <3>3. IF task[t].kind = "context" THEN UNCHANGED <<hooked, jar, uncleaned>>
          ELSE hooked' = t /\ jar' = jar \cup {t} /\ UNCHANGED uncleaned
      BY <3>1 DEF Begins, sharedVars
    <3>4. OneInSlot'
      BY <2>2, <3>2, SlotKept
    <3>5. BrowserStands'
      BY <1>0, <2>1, <2>2, <2>3, <2>4, <2>6, <3>2, <3>3 DEF BrowserStands, Holds, Alive, Launched
    <3> QED
      BY <1>0, <2>1, <2>4, <3>2, <3>4, <3>5 DEF BrowserInv, BrowserTyped
  <2> QED
    BY <2>1, <2>5, <2>6
<1>9. ASSUME NEW t \in Renderers, StartFails(t) PROVE BrowserInv'
  <2>1. /\ task[t].at \in {"starting", "restarting"} /\ chromium' = Killed(manager.crawler)
        /\ manager' = NoCrawler /\ UNCHANGED <<hooked, jar, uncleaned, forsaken>>
        /\ Moves(t, "unwind") \/ Leaving(t)
    BY <1>9 DEF StartFails, sharedVars
  <2>2. \A u \in Renderers : u # t => task[u].at \in {"idle", "waiting"}
    BY <1>0, <2>1, InSlotAlone
  <2>3. hooked = None /\ jar \subseteq uncleaned
    BY <1>0, <2>1, <2>2 DEF BrowserStands, Holds
  <2>4. /\ task' \in [Renderers -> RenderTasks]
        /\ \/ task'[t].at = "idle" /\ task'[t].with = 0
           \/ (task'[t].at = "unwind" /\ task'[t].kind = task[t].kind)
        /\ \A u \in Renderers : u # t => task'[u] = task[u]
    BY <1>0, <2>1, TaskSteps DEF BrowserTyped, Places
  <2>5. OneInSlot'
    BY <2>2, <2>4, SlotKept
  <2>6. chromium' \in Processes /\ Alive' \subseteq forsaken'
    BY <1>0, <2>1, ProcessSteps DEF BrowserTyped, BrowserStands, Alive, Launched
  <2>7. manager' \in [crawler : Nat, ready : BOOLEAN] /\ manager'.crawler = 0 /\ ~manager'.ready
    BY <2>1 DEF NoCrawler
  <2>8. BrowserStands'
    BY <1>0, <2>1, <2>2, <2>3, <2>4, <2>6, <2>7 DEF BrowserStands, Holds
  <2> QED
    BY <2>4, <2>5, <2>6, <2>7, <2>8 DEF BrowserInv, BrowserTyped

<1>10. ASSUME NEW t \in Renderers, OpenContext(t) PROVE BrowserInv'
  <2>1. /\ task[t].at = "opening" /\ UNCHANGED <<chromium, manager, hooked, jar, uncleaned, forsaken>>
        /\ \/ Moves(t, "render") \/ Leaving(t)
           \/ task' = [task EXCEPT ![t].at = "close", ![t].again = TRUE]
    BY <1>10 DEF OpenContext, sharedVars
  <2>2. \A u \in Renderers : u # t => task[u].at \in {"idle", "waiting"}
    BY <1>0, <2>1, InSlotAlone
  <2>3. hooked = None /\ jar \subseteq uncleaned
    BY <1>0, <2>1, <2>2 DEF BrowserStands, Holds
  <2>4. /\ task' \in [Renderers -> RenderTasks]
        /\ \A u \in Renderers : u # t => task'[u] = task[u]
        /\ \/ task'[t].at = "idle" /\ task'[t].with = 0
           \/ /\ task'[t].at \in {"render", "close"} /\ task'[t].kind = task[t].kind
              /\ task'[t].with = task[t].with
    <3>1. CASE Moves(t, "render") \/ Leaving(t)
      BY <1>0, <3>1, TaskSteps DEF BrowserTyped, Places
    <3>2. CASE task' = [task EXCEPT ![t].at = "close", ![t].again = TRUE]
      BY <1>0, <3>2 DEF BrowserTyped, RenderTasks, Places
    <3> QED
      BY <2>1, <3>1, <3>2
  <2>5. OneInSlot'
    BY <2>2, <2>4, SlotKept
  <2>6. task'[t].at = "render" => task[t].kind = "context"
    BY <1>0, <2>1 DEF BrowserStands
  <2>7. BrowserStands'
    BY <1>0, <2>1, <2>2, <2>3, <2>4, <2>6 DEF BrowserStands, Holds, Alive, Launched
  <2> QED
    BY <1>0, <2>1, <2>4, <2>5, <2>7 DEF BrowserInv, BrowserTyped
<1>11. ASSUME NEW t \in Renderers, Rendered(t) \/ Watchdog(t) PROVE BrowserInv'
  <2>1. /\ task[t].at = "render" /\ UNCHANGED <<chromium, manager, hooked, jar, uncleaned, forsaken>>
        /\ Moves(t, "unwind") \/ (task[t].kind = "crawler" /\ Moves(t, "recover"))
    BY <1>11 DEF Rendered, Watchdog, sharedVars
  <2>2. \A u \in Renderers : u # t => task[u].at \in {"idle", "waiting"}
    BY <1>0, <2>1, InSlotAlone
  <2>3. /\ task' \in [Renderers -> RenderTasks] /\ task'[t].kind = task[t].kind
        /\ task'[t].with = task[t].with /\ task'[t].at \in {"unwind", "recover"}
        /\ \A u \in Renderers : u # t => task'[u] = task[u]
    BY <1>0, <2>1, TaskSteps DEF BrowserTyped, Places
  <2>4. OneInSlot'
    BY <2>2, <2>3, SlotKept
  <2>5. BrowserStands'
    BY <1>0, <2>1, <2>2, <2>3 DEF BrowserStands, Holds, Alive, Launched
  <2> QED
    BY <1>0, <2>1, <2>3, <2>4, <2>5 DEF BrowserInv, BrowserTyped
<1>12. ASSUME NEW t \in Renderers, NEW cleared \in BOOLEAN, Unwind(t, cleared) PROVE BrowserInv'
  <2>1. /\ task[t].at = "unwind" /\ Restored(t) /\ Leaving(t) /\ UNCHANGED <<chromium, manager, forsaken>>
        /\ \/ jar' = (IF Shares(t) THEN {} ELSE jar) /\ UNCHANGED uncleaned
           \/ uncleaned' = uncleaned \cup {t} /\ UNCHANGED jar
    BY <1>12 DEF Unwind
  <2>2. \A u \in Renderers : u # t => task[u].at \in {"idle", "waiting"}
    BY <1>0, <2>1, InSlotAlone
  <2>3. /\ task' \in [Renderers -> RenderTasks] /\ task'[t].at = "idle" /\ task'[t].with = 0
        /\ \A u \in Renderers : u # t => task'[u] = task[u]
    BY <1>0, <2>1, TaskSteps DEF BrowserTyped
  <2>4. OneInSlot'
    BY <2>2, <2>3, SlotKept
  <2>5. hooked' = None /\ jar' \subseteq uncleaned'
    BY <1>0, <2>1, <2>2 DEF BrowserStands, Holds, Restored, Shares
  <2>6. BrowserStands'
    BY <1>0, <2>1, <2>2, <2>3, <2>5 DEF BrowserStands, Holds, Alive, Launched
  <2> QED
    BY <1>0, <2>1, <2>3, <2>4, <2>6 DEF BrowserInv, BrowserTyped
<1>13. ASSUME NEW t \in Renderers, Abandon(t) PROVE BrowserInv'
  <2>1. UNCHANGED <<chromium, manager, forsaken>>
    BY <1>13 DEF Abandon
  <2>2. CASE task[t].at \in {"render", "recover", "restarting"}
    <3>1. Moves(t, "unwind") /\ UNCHANGED <<hooked, jar, uncleaned>>
      BY <1>13, <2>2 DEF Abandon, sharedVars
    <3>2. \A u \in Renderers : u # t => task[u].at \in {"idle", "waiting"}
      BY <1>0, <2>2, InSlotAlone
    <3>3. /\ task' \in [Renderers -> RenderTasks] /\ task'[t].kind = task[t].kind
          /\ task'[t].with = task[t].with /\ task'[t].at = "unwind"
          /\ \A u \in Renderers : u # t => task'[u] = task[u]
      BY <1>0, <3>1, TaskSteps DEF BrowserTyped, Places
    <3>4. OneInSlot'
      BY <3>2, <3>3, SlotKept
    <3>5. BrowserStands'
      BY <1>0, <2>1, <2>2, <3>1, <3>2, <3>3 DEF BrowserStands, Holds, Alive, Launched
    <3> QED
      BY <1>0, <2>1, <3>3, <3>4, <3>5 DEF BrowserInv, BrowserTyped
  <2>3. CASE task[t].at \notin {"render", "recover", "restarting"}
    <3>1. /\ Leaving(t) /\ Restored(t) /\ UNCHANGED jar
          /\ uncleaned' = IF t \in jar THEN uncleaned \cup {t} ELSE uncleaned
          /\ task[t].at \in {"waiting", "close", "starting", "opening", "unwind"}
      BY <1>13, <2>3 DEF Abandon
    <3>2. /\ task' \in [Renderers -> RenderTasks] /\ task'[t].at = "idle" /\ task'[t].with = 0
          /\ \A u \in Renderers : u # t => task'[u] = task[u]
      BY <1>0, <3>1, TaskSteps DEF BrowserTyped
    <3>3. OneInSlot'
      BY <1>0, <3>2 DEF OneInSlot, InSlot
    <3>4. /\ hooked' # None => hooked' = hooked /\ hooked # t
          /\ \A x \in jar' \ uncleaned' : x \in jar \ uncleaned /\ x # t
      BY <1>0, <3>1 DEF BrowserStands, Holds, Restored, Shares
    <3>5. \A u \in Renderers : task'[u].at # "idle" => u # t
      BY <3>2
    <3>6. hooked' # None => Holds(hooked)'
      BY <1>0, <2>1, <3>2, <3>4 DEF BrowserStands, Holds
    <3>7. \A x \in jar' \ uncleaned' : Holds(x)'
      BY <1>0, <2>1, <3>2, <3>4 DEF BrowserStands, Holds
    <3>8. \A u \in Renderers :
             (task'[u].at = "render" /\ task'[u].kind = "crawler") => hooked' = u
      BY <1>0, <3>1, <3>2, <3>5 DEF BrowserStands, Restored, Shares, OneInSlot, InSlot
    <3>9. BrowserStands'
      BY <1>0, <2>1, <3>2, <3>5, <3>6, <3>7, <3>8 DEF BrowserStands, Alive, Launched
    <3> QED
      BY <1>0, <2>1, <3>2, <3>3, <3>9 DEF BrowserInv, BrowserTyped
  <2> QED
    BY <2>2, <2>3
<1>14. ASSUME NEW p \in Launched, NEW how \in {"wedged", "dead"}, Fails(p, how) PROVE BrowserInv'
  <2>1. /\ chromium' = [chromium EXCEPT ![p] = how] /\ chromium[p] = "up"
        /\ UNCHANGED <<manager, launching, task, hooked, jar, uncleaned, forsaken>>
    BY <1>14 DEF Fails, sharedVars
  <2>2. chromium' \in Processes
    BY <1>0, <2>1, ProcessSteps DEF BrowserTyped
  <2>3. Alive' \subseteq Alive
    BY <2>1 DEF Alive, Launched
  <2>4. OneInSlot'
    BY <1>0, <2>1 DEF OneInSlot, InSlot
  <2>5. BrowserStands'
    BY <1>0, <2>1, <2>3 DEF BrowserStands, Holds
  <2> QED
    BY <1>0, <2>1, <2>2, <2>4, <2>5 DEF BrowserInv, BrowserTyped
<1> QED
  BY <1>1, <1>2, <1>3, <1>4, <1>5, <1>6, <1>7, <1>8, <1>9, <1>10, <1>11, <1>12, <1>13, <1>14
  DEF BrowserNext

\* With the one slot hook registration needs ("race-free at 1", browser_manager.py), however
\* many renders queue, die, hang and are cancelled: no Chromium is left behind, but one whose
\* own close failed, and no crawl runs under the hooks or cookies of another.
THEOREM RendersAccounted ==
    ASSUME Slots = 1 PROVE ServicesSpec => []BrowserAccounted
<1>1. ServicesInit => BrowserInv
  BY BrowserStarts DEF ServicesInit
<1>2. BrowserInv /\ [ServicesNext]_serviceVars => BrowserInv'
  BY BrowserStep, ComponentSteps
<1>3. ASSUME BrowserInv PROVE BrowserAccounted
  <2>1. BrowserTyped /\ OneInSlot /\ BrowserStands
    BY <1>3 DEF BrowserInv
  <2>2. Cardinality(InSlot) <= Slots
    <3>1. CASE InSlot = {}
      BY <3>1, FS_EmptySet
    <3>2. ASSUME NEW t \in InSlot PROVE Cardinality(InSlot) <= Slots
      <4>1. InSlot = {t}
        BY <2>1, <3>2 DEF OneInSlot
      <4> QED
        BY <4>1, FS_Singleton
    <3> QED
      BY <3>1, <3>2
  <2>3. \A t \in Renderers : task[t].at = "render" => jar \ {t} \subseteq uncleaned
    BY <2>1, InSlotAlone DEF BrowserStands, Holds
  <2>4. hooked # None => hooked \in InSlot
    BY <2>1 DEF BrowserStands, Holds, InSlot
  <2> QED
    BY <2>1, <2>2, <2>3, <2>4 DEF BrowserStands, BrowserAccounted
<1> QED
  BY <1>1, <1>2, <1>3, PTL DEF ServicesSpec

-----------------------------------------------------------------------------
(* The requests billed per result *)

AskPlaces == {"idle", "screen", "work", "bill", "loop", "render", "css", "row", "rowed", "replied"}
AskKinds == Kinds \cup {None}
ItemStates == {None, "failed", "completed"}
RowStates == {None, "In Progress", "Success", "Failed"}
Asks == [kind : AskKinds, at : AskPlaces, todo : Seq(Pages), item : ItemStates,
         llm : BOOLEAN, calls : Nat, done : SUBSET Pages, failed : SUBSET Pages,
         reply : Nat, row : RowStates]

PipeTyped ==
    /\ ask \in [Requests -> Asks] /\ opsUsed \in Nat
    /\ paid \in [Requests -> SUBSET (Pages \cup {"op"})]
    /\ onThread \subseteq Requests \X (Pages \cup {"op"})

\* Who passed the gate for a unit and has neither paid nor failed it.
HasInHand(r) ==
    \/ ask[r].at \in {"bill", "render", "css", "row", "rowed"}
    \/ ask[r].at = "work" /\ ask[r].kind # "crawl"
    \/ <<r, "op">> \in onThread
InHand == {r \in Requests : HasInHand(r)}

\* What is paid and what is in hand overrun the grant by the units of the other requests.
GrantKept == opsUsed + Cardinality(InHand) <= OpsCap + Cardinality(Requests) - 1

\* Where a request can be, and what it can have left on a thread.
PlaceStands(r) ==
    /\ ask[r].at = "idle" => ask[r].kind = None
    /\ ask[r].at = "work" => ask[r].kind \in {"lookup", "discover", "crawl"}
    /\ ask[r].at = "bill" => ask[r].kind = "discover"
    /\ ask[r].at \in {"screen", "loop", "render", "css", "row", "rowed"} => ask[r].kind \in Distill
    /\ ask[r].at \in {"render", "css", "row", "rowed"} => ask[r].todo # <<>>
    /\ ask[r].at # "replied" => ask[r].reply = 0
ThreadStands(r) ==
    \A key \in Pages \cup {"op"} : <<r, key>> \in onThread =>
        /\ ask[r].at = "replied" /\ ask[r].reply = 504
        /\ IF key = "op" THEN ask[r].kind = "discover"
           ELSE ask[r].kind \in Distill /\ key = Page(r)

\* The page whose row may say completed before it is billed.
Unbilled(r) ==
    IF \/ ask[r].at = "rowed" /\ ask[r].item = "completed"
       \/ ask[r].at = "replied" /\ ask[r].reply # 200
    THEN {Page(r)} ELSE {}

BillStands(r) ==
    /\ ask[r].kind = None => paid[r] = {} /\ ask[r].done = {} /\ CompletedRows(r) = {}
    /\ ask[r].kind \in {"lookup", "discover"} =>
          /\ ask[r].reply = 200 => paid[r] = {"op"}
          /\ ask[r].reply \notin {200, 504} => paid[r] = {}
    /\ ask[r].kind \in Distill =>
          /\ paid[r] = ask[r].done
          /\ CompletedRows(r) \ paid[r] \subseteq Unbilled(r)

RequestStands(r) == PlaceStands(r) /\ ThreadStands(r) /\ BillStands(r)

PipeInv == PipeTyped /\ GrantKept /\ \A r \in Requests : RequestStands(r)

-----------------------------------------------------------------------------
(* Lemmas about the pipelines *)

\* What a request's fields can say.
LEMMA FieldStates ==
    /\ "In Progress" \in RowStates /\ "Success" \in RowStates /\ "Failed" \in RowStates
    /\ None \in RowStates /\ None \in ItemStates /\ "failed" \in ItemStates
    /\ "completed" \in ItemStates /\ Kinds \subseteq AskKinds /\ None \in AskKinds
BY DEF RowStates, ItemStates, AskKinds

\* A list of pages is a sequence of them.
LEMMA OrdersAreLists == Orders \subseteq Seq(Pages)
<1>1. \A n \in 0..Cardinality(Pages) : n \in Nat
  BY FS_CardinalityType, PipeAssumption
<1> QED
  BY <1>1, SeqDef DEF Orders

\* The page in hand is one of the pages.
LEMMA HeadIsPage ==
    ASSUME NEW todo \in Seq(Pages), todo # <<>>
    PROVE  Head(todo) \in Pages /\ Tail(todo) \in Seq(Pages)
OBVIOUS

\* The requests in hand are finite in number, and the bound survives who gives its unit back,
\* who pays it, and who takes one that is left.
LEMMA GrantSteps ==
    ASSUME PipeTyped, GrantKept, NEW r \in Requests,
           \A q \in Requests : (q # r /\ HasInHand(q)') => HasInHand(q)
    PROVE  /\ ~HasInHand(r)' /\ opsUsed' = opsUsed => GrantKept'
           /\ (HasInHand(r)' => HasInHand(r)) /\ opsUsed' = opsUsed => GrantKept'
           /\ HasInHand(r) /\ ~HasInHand(r)' /\ opsUsed' \in {opsUsed, opsUsed + 1} => GrantKept'
           /\ Affords(1) /\ opsUsed' = opsUsed => GrantKept'
<1>1. IsFiniteSet(InHand) /\ IsFiniteSet(InHand')
  BY PipeAssumption, FS_Subset DEF InHand
<1>2. /\ Cardinality(InHand) \in Nat /\ Cardinality(InHand') \in Nat
      /\ Cardinality(Requests) \in Nat /\ OpsCap \in Nat /\ opsUsed \in Nat
  BY <1>1, FS_CardinalityType, PipeAssumption DEF PipeTyped
<1>3. InHand' \subseteq Requests
  BY DEF InHand
<1>4. Cardinality(InHand') <= Cardinality(Requests)
  BY <1>3, PipeAssumption, FS_Subset
<1>5. ASSUME HasInHand(r)' => HasInHand(r) PROVE Cardinality(InHand') <= Cardinality(InHand)
  <2>1. InHand' \subseteq InHand
    BY <1>5 DEF InHand
  <2> QED
    BY <1>1, <2>1, FS_Subset
<1>6. ASSUME HasInHand(r), ~HasInHand(r)' PROVE Cardinality(InHand') <= Cardinality(InHand) - 1
  <2>1. InHand' \subseteq InHand \ {r} /\ r \in InHand
    BY <1>6 DEF InHand
  <2>2. IsFiniteSet(InHand \ {r}) /\ Cardinality(InHand \ {r}) = Cardinality(InHand) - 1
    BY <1>1, <2>1, FS_RemoveElement
  <2>3. Cardinality(InHand') <= Cardinality(InHand \ {r})
    BY <2>1, <2>2, FS_Subset
  <2> QED
    BY <2>2, <2>3
<1> DEFINE a == Cardinality(InHand)
           b == Cardinality(InHand')
           n == Cardinality(Requests)
<1>7. ASSUME b <= a, opsUsed' = opsUsed PROVE opsUsed' + b <= OpsCap + n - 1
  BY <1>2, <1>7 DEF GrantKept
<1>8. ASSUME b <= a - 1, opsUsed' \in {opsUsed, opsUsed + 1} PROVE opsUsed' + b <= OpsCap + n - 1
  BY <1>2, <1>8 DEF GrantKept
<1>9. ASSUME b <= n, Affords(1), opsUsed' = opsUsed PROVE opsUsed' + b <= OpsCap + n - 1
  BY <1>2, <1>9 DEF Affords
<1>10. GrantKept' <=> opsUsed' + b <= OpsCap + n - 1
  BY DEF GrantKept
<1> HIDE DEF a, b, n
<1> QED
  BY <1>4, <1>5, <1>6, <1>7, <1>8, <1>9, <1>10 DEF a, b, n

\* A request nobody touched stands as it did.
LEMMA OthersStand ==
    ASSUME NEW r \in Requests, \A q \in Requests : RequestStands(q),
           \A q \in Requests : q # r =>
              /\ ask'[q] = ask[q] /\ paid'[q] = paid[q] /\ CompletedRows(q)' = CompletedRows(q)
              /\ \A key : <<q, key>> \in onThread' <=> <<q, key>> \in onThread
    PROVE  \A q \in Requests : q # r => RequestStands(q)' /\ (HasInHand(q)' => HasInHand(q))
<1>1. SUFFICES ASSUME NEW q \in Requests, q # r
               PROVE  RequestStands(q)' /\ (HasInHand(q)' => HasInHand(q))
  OBVIOUS
<1>2. /\ ask'[q] = ask[q] /\ paid'[q] = paid[q] /\ CompletedRows(q)' = CompletedRows(q)
      /\ \A key : <<q, key>> \in onThread' <=> <<q, key>> \in onThread
  BY <1>1
<1>3. PlaceStands(q)' /\ (HasInHand(q)' => HasInHand(q))
  BY <1>2 DEF RequestStands, PlaceStands, HasInHand
<1>4. ThreadStands(q)'
  BY <1>2 DEF RequestStands, ThreadStands, Page
<1>5. BillStands(q)'
  <2>1. Unbilled(q)' = Unbilled(q)
    BY <1>2 DEF Unbilled, Page
  <2> QED
    BY <1>2, <2>1 DEF RequestStands, BillStands
<1> QED
  BY <1>3, <1>4, <1>5 DEF RequestStands

\* A request that did not break off has left nothing on a thread.
LEMMA NothingOnThread ==
    ASSUME NEW r \in Requests, PipeTyped, ThreadStands(r), ask[r].at # "replied"
    PROVE  \A key : <<r, key>> \notin onThread
BY DEF PipeTyped, ThreadStands

\* What a step about one request has to show.
LEMMA Combine ==
    ASSUME NEW r \in Requests, PipeInv, PipeTyped', RequestStands(r)',
           \A q \in Requests : q # r =>
              /\ ask'[q] = ask[q] /\ paid'[q] = paid[q] /\ CompletedRows(q)' = CompletedRows(q)
              /\ \A key : <<q, key>> \in onThread' <=> <<q, key>> \in onThread
    PROVE  /\ ~HasInHand(r)' /\ opsUsed' = opsUsed => PipeInv'
           /\ (HasInHand(r)' => HasInHand(r)) /\ opsUsed' = opsUsed => PipeInv'
           /\ HasInHand(r) /\ ~HasInHand(r)' /\ opsUsed' \in {opsUsed, opsUsed + 1} => PipeInv'
           /\ Affords(1) /\ opsUsed' = opsUsed => PipeInv'
<1>1. \A q \in Requests : q # r => RequestStands(q)' /\ (HasInHand(q)' => HasInHand(q))
  BY OthersStand DEF PipeInv
<1>2. \A q \in Requests : RequestStands(q)'
  BY <1>1
<1>3. PipeTyped /\ GrantKept
  BY DEF PipeInv
<1>4. GrantKept' => PipeInv'
  BY <1>2 DEF PipeInv
<1> QED
  BY <1>1, <1>3, <1>4, GrantSteps

\* A request that moves or is answered keeps its type; the others stay as they are.
LEMMA AskSteps ==
    ASSUME PipeTyped, NEW r \in Requests
    PROVE  /\ \A at \in AskPlaces : GoTo(r, at) =>
                 /\ ask' \in [Requests -> Asks] /\ \A q \in Requests : q # r => ask'[q] = ask[q]
                 /\ ask'[r].at = at /\ ask'[r].kind = ask[r].kind /\ ask'[r].reply = ask[r].reply
                 /\ ask'[r].todo = ask[r].todo /\ ask'[r].item = ask[r].item
                 /\ ask'[r].done = ask[r].done
           /\ \A code \in Nat, row \in RowStates : Reply(r, code, row) =>
                 /\ ask' \in [Requests -> Asks] /\ \A q \in Requests : q # r => ask'[q] = ask[q]
                 /\ ask'[r].at = "replied" /\ ask'[r].kind = ask[r].kind /\ ask'[r].reply = code
                 /\ ask'[r].todo = ask[r].todo /\ ask'[r].done = ask[r].done
<1>1. ASSUME NEW at \in AskPlaces, GoTo(r, at)
      PROVE  /\ ask' \in [Requests -> Asks] /\ \A q \in Requests : q # r => ask'[q] = ask[q]
             /\ ask'[r].at = at /\ ask'[r].kind = ask[r].kind /\ ask'[r].reply = ask[r].reply
             /\ ask'[r].todo = ask[r].todo /\ ask'[r].item = ask[r].item
             /\ ask'[r].done = ask[r].done
  BY <1>1 DEF GoTo, PipeTyped, Asks
<1>2. ASSUME NEW code \in Nat, NEW row \in RowStates,
             Reply(r, code, row)
      PROVE  /\ ask' \in [Requests -> Asks] /\ \A q \in Requests : q # r => ask'[q] = ask[q]
             /\ ask'[r].at = "replied" /\ ask'[r].kind = ask[r].kind /\ ask'[r].reply = code
             /\ ask'[r].todo = ask[r].todo /\ ask'[r].done = ask[r].done
  <2> DEFINE a == [ask[r] EXCEPT !.at = "replied", !.reply = code, !.row = row]
  <2>1. ask[r] \in Asks
    BY DEF PipeTyped
  <2>2. /\ a \in Asks /\ a.at = "replied" /\ a.reply = code /\ a.kind = ask[r].kind
        /\ a.todo = ask[r].todo /\ a.done = ask[r].done
    BY <2>1 DEF Asks, AskPlaces
  <2>3. ask' = [ask EXCEPT ![r] = a]
    BY <1>2 DEF Reply
  <2> HIDE DEF a
  <2> QED
    BY <2>2, <2>3 DEF PipeTyped
<1> QED
  BY <1>1, <1>2

\* Rows and threads are untouched, and so is what they say of anybody.
LEMMA RowsUntouched ==
    ASSUME UNCHANGED auditRows PROVE \A q \in Requests : CompletedRows(q)' = CompletedRows(q)
BY DEF CompletedRows

\* Who has not been answered has not been answered well, or timed out.
LEMMA NoReply ==
    /\ 0 \notin {200, 504} /\ 402 \notin {200, 504} /\ 500 \notin {200, 504}
    /\ 0 # 200 /\ 402 # 200 /\ 504 # 200
OBVIOUS

\* A step in which r answers without paying, from a place where nothing is unbilled.
LEMMA AnswersUnpaid ==
    ASSUME PipeInv, NEW r \in Requests, ask[r].at \notin {"replied", "rowed", "idle"},
           NEW code \in Nat, NEW row \in RowStates,
           Reply(r, code, row), code # 200 \/ ask[r].kind \in Distill,
           UNCHANGED <<opsUsed, paid, auditRows, onThread>>
    PROVE  PipeInv'
<1>1. PipeTyped /\ RequestStands(r)
  BY DEF PipeInv
<1>2. PlaceStands(r) /\ ThreadStands(r) /\ BillStands(r) /\ \A key : <<r, key>> \notin onThread
  BY <1>1, NothingOnThread DEF RequestStands
<1>3. /\ ask' \in [Requests -> Asks] /\ \A q \in Requests : q # r => ask'[q] = ask[q]
      /\ ask'[r].at = "replied" /\ ask'[r].kind = ask[r].kind /\ ask'[r].reply = code
      /\ ask'[r].todo = ask[r].todo /\ ask'[r].done = ask[r].done
  BY <1>1, AskSteps
<1>4. \A q \in Requests : CompletedRows(q)' = CompletedRows(q)
  BY RowsUntouched
<1>5. PipeTyped'
  BY <1>1, <1>3 DEF PipeTyped
<1>6. PlaceStands(r)' /\ ThreadStands(r)'
  BY <1>2, <1>3 DEF PlaceStands, ThreadStands
<1>7. BillStands(r)'
  <2>1. ask[r].kind # None /\ ask[r].reply = 0
    BY <1>1, <1>2 DEF PlaceStands, PipeTyped, Asks, AskPlaces, Distill, None
  <2>2. Unbilled(r) = {}
    BY DEF Unbilled
  <2>3. /\ CompletedRows(r)' = CompletedRows(r) /\ paid'[r] = paid[r]
        /\ ask'[r].kind = ask[r].kind /\ ask'[r].done = ask[r].done /\ ask'[r].reply = code
    BY <1>3, <1>4
  <2>4. ASSUME ask[r].kind \in {"lookup", "discover"} PROVE paid[r] = {} /\ code # 200
    <3>1. paid[r] = {}
      BY <1>2, <2>1, <2>4, NoReply DEF BillStands
    <3>2. ask[r].kind \notin Distill
      BY <2>4 DEF Distill
    <3> QED
      BY <3>1, <3>2
  <2>5. ASSUME ask[r].kind \in Distill
        PROVE  paid[r] = ask[r].done /\ CompletedRows(r) \ paid[r] = {}
    BY <1>2, <2>2, <2>5 DEF BillStands
  <2> QED
    BY <2>1, <2>3, <2>4, <2>5 DEF BillStands
<1>8. ~HasInHand(r)'
  BY <1>2, <1>3 DEF HasInHand
<1> QED
  BY <1>3, <1>4, <1>5, <1>6, <1>7, <1>8, Combine DEF RequestStands

\* A key paid is the payer's, once.
LEMMA PaySteps ==
    ASSUME PipeTyped, NEW r \in Requests, NEW key \in Pages \cup {"op"}, Pay(r, key)
    PROVE  /\ paid' \in [Requests -> SUBSET (Pages \cup {"op"})]
           /\ \A q \in Requests : q # r => paid'[q] = paid[q]
           /\ paid'[r] = paid[r] \cup {key}
           /\ opsUsed' \in Nat /\ opsUsed' \in {opsUsed, opsUsed + 1}
BY DEF PipeTyped, Pay

\* A lookup or a discovery is answered and pays its op.
LEMMA AnswersPaid ==
    ASSUME PipeInv, NEW r \in Requests, ask[r].at \in {"work", "bill"},
           ask[r].kind \in {"lookup", "discover"},
           Pay(r, "op"), Reply(r, 200, "Success"), UNCHANGED <<auditRows, onThread>>
    PROVE  PipeInv'
<1>1. PipeTyped /\ RequestStands(r)
  BY DEF PipeInv
<1>2. PlaceStands(r) /\ ThreadStands(r) /\ BillStands(r) /\ \A key : <<r, key>> \notin onThread
  BY <1>1, NothingOnThread DEF RequestStands
<1>3. /\ ask' \in [Requests -> Asks] /\ \A q \in Requests : q # r => ask'[q] = ask[q]
      /\ ask'[r].at = "replied" /\ ask'[r].kind = ask[r].kind /\ ask'[r].reply = 200
  <2>1. 200 \in Nat /\ "Success" \in RowStates
    BY DEF RowStates
  <2> QED
    BY <1>1, <2>1, AskSteps
<1>4. \A q \in Requests : CompletedRows(q)' = CompletedRows(q)
  BY RowsUntouched
<1>5. /\ paid' \in [Requests -> SUBSET (Pages \cup {"op"})]
      /\ \A q \in Requests : q # r => paid'[q] = paid[q]
      /\ paid'[r] = paid[r] \cup {"op"}
      /\ opsUsed' \in Nat /\ opsUsed' \in {opsUsed, opsUsed + 1}
  BY <1>1, PaySteps
<1>6. PipeTyped'
  BY <1>1, <1>3, <1>5 DEF PipeTyped
<1>7. PlaceStands(r)' /\ ThreadStands(r)'
  BY <1>2, <1>3 DEF PlaceStands, ThreadStands
<1>8. ask[r].kind # None /\ ask[r].kind \notin Distill
  BY DEF Distill, None
<1>9. paid[r] = {}
  BY <1>2, NoReply DEF PlaceStands, BillStands
<1>10. paid'[r] = {"op"}
  BY <1>5, <1>9
<1>11. BillStands(r)'
  BY <1>3, <1>8, <1>10 DEF BillStands
<1>12. HasInHand(r) /\ ~HasInHand(r)'
  BY <1>2, <1>3 DEF HasInHand
<1> QED
  BY <1>3, <1>4, <1>5, <1>6, <1>7, <1>11, <1>12, Combine DEF RequestStands

\* A request goes on, with nothing paid and no row written.
LEMMA GoesOn ==
    ASSUME PipeInv, NEW r \in Requests, ask[r].at \notin {"idle", "replied", "rowed"},
           NEW a \in Asks, ask' = [ask EXCEPT ![r] = a],
           a.kind = ask[r].kind, a.reply = ask[r].reply, a.done = ask[r].done,
           a.at \in {"bill", "loop", "render", "css", "row"},
           UNCHANGED <<paid, auditRows, onThread, opsUsed>>
    PROVE  /\ PipeTyped' /\ ThreadStands(r)' /\ BillStands(r)'
           /\ \A q \in Requests : q # r =>
                 /\ ask'[q] = ask[q] /\ paid'[q] = paid[q] /\ CompletedRows(q)' = CompletedRows(q)
                 /\ \A key : <<q, key>> \in onThread' <=> <<q, key>> \in onThread
           /\ ask'[r] = a /\ \A key : <<r, key>> \notin onThread'
<1>1. PipeTyped /\ RequestStands(r)
  BY DEF PipeInv
<1>2. PlaceStands(r) /\ ThreadStands(r) /\ BillStands(r) /\ \A key : <<r, key>> \notin onThread
  BY <1>1, NothingOnThread DEF RequestStands
<1>3. /\ ask' \in [Requests -> Asks] /\ ask'[r] = a
      /\ \A q \in Requests : q # r => ask'[q] = ask[q]
  BY <1>1 DEF PipeTyped
<1>4. \A q \in Requests : CompletedRows(q)' = CompletedRows(q)
  BY RowsUntouched
<1>5. PipeTyped'
  BY <1>1, <1>3 DEF PipeTyped
<1>6. ThreadStands(r)'
  BY <1>2 DEF ThreadStands
<1>7. BillStands(r)'
  <2>1. Unbilled(r) = {} /\ CompletedRows(r)' = CompletedRows(r)
    BY <1>4 DEF Unbilled
  <2> QED
    BY <1>2, <1>3, <2>1 DEF BillStands
<1> QED
  BY <1>2, <1>3, <1>4, <1>5, <1>6, <1>7

\* A refusal is an answer.
LEMMA Refused ==
    ASSUME NEW a \in Asks, NEW code \in Nat
    PROVE  /\ [a EXCEPT !.at = "replied", !.reply = code] \in Asks
           /\ [a EXCEPT !.at = "replied", !.reply = code].at = "replied"
           /\ [a EXCEPT !.at = "replied", !.reply = code].reply = code
           /\ [a EXCEPT !.at = "replied", !.reply = code].kind = a.kind
           /\ [a EXCEPT !.at = "replied", !.reply = code].done = a.done
BY DEF Asks, AskPlaces

\* The gates let a request in, or refuse it.
LEMMA ArriveStep ==
    ASSUME PipeInv, NEW r \in Requests, ArrivePipe(r) PROVE PipeInv'
<1>1. PipeTyped /\ RequestStands(r)
  BY DEF PipeInv
<1>2. ask[r].at = "idle" /\ UNCHANGED <<opsUsed, paid, auditRows, onThread>>
  BY DEF ArrivePipe, Unpaid
<1>3. ThreadStands(r) /\ \A key : <<r, key>> \notin onThread
  BY <1>1, <1>2, NothingOnThread DEF RequestStands
<1>4. paid[r] = {} /\ CompletedRows(r) = {}
  BY <1>1, <1>2 DEF RequestStands, PlaceStands, BillStands
<1>5. PICK kind \in Kinds, llm \in BOOLEAN, urls \in Orders :
         /\ kind = "urls" <=> urls # <<>>
         /\ LET units == IF kind = "urls" THEN Len(urls) ELSE 1
                new == [NewAsk EXCEPT !.kind = kind, !.llm = llm, !.todo = urls]
            IN  ask' = [ask EXCEPT ![r] =
                   IF ~Affords(units) THEN [new EXCEPT !.at = "replied", !.reply = 402]
                   ELSE IF kind = "urls" THEN [new EXCEPT !.at = "screen"]
                   ELSE [new EXCEPT !.at = "work", !.row = "In Progress"]]
  BY ZenonT(30) DEF ArrivePipe
<1> DEFINE units == IF kind = "urls" THEN Len(urls) ELSE 1
           new == [NewAsk EXCEPT !.kind = kind, !.llm = llm, !.todo = urls]
           a == IF ~Affords(units) THEN [new EXCEPT !.at = "replied", !.reply = 402]
                ELSE IF kind = "urls" THEN [new EXCEPT !.at = "screen"]
                ELSE [new EXCEPT !.at = "work", !.row = "In Progress"]
<1>6. /\ a \in Asks /\ a.kind = kind /\ a.done = {}
      /\ \/ a.at = "replied" /\ a.reply = 402
         \/ a.at = "screen" /\ a.reply = 0 /\ kind = "urls"
         \/ a.at = "work" /\ a.reply = 0 /\ kind # "urls" /\ Affords(1)
  <2>1. new \in Asks /\ new.kind = kind /\ new.done = {} /\ new.reply = 0
    BY OrdersAreLists, FieldStates DEF NewAsk, Asks, AskPlaces
  <2> HIDE DEF new
  <2>2. CASE ~Affords(units)
    <3>1. a = [new EXCEPT !.at = "replied", !.reply = 402]
      BY <2>2
    <3>2. 402 \in Nat
      OBVIOUS
    <3> HIDE DEF a
    <3>3. a \in Asks /\ a.at = "replied" /\ a.reply = 402 /\ a.kind = new.kind /\ a.done = new.done
      <4> DEFINE code == 402
      <4>1. code \in Nat
        BY <3>2
      <4>2. a = [new EXCEPT !.at = "replied", !.reply = code]
        BY <3>1
      <4> HIDE DEF code
      <4>3. /\ a \in Asks /\ a.at = "replied" /\ a.reply = code
            /\ a.kind = new.kind /\ a.done = new.done
        BY <2>1, <4>1, <4>2, Refused
      <4> QED
        BY <4>3 DEF code
    <3> QED
      BY <2>1, <3>3
  <2>3. CASE Affords(units) /\ kind = "urls"
    <3>1. a = [new EXCEPT !.at = "screen"]
      BY <2>3
    <3> QED
      BY <2>1, <2>3, <3>1 DEF Asks, AskPlaces
  <2>4. CASE Affords(units) /\ kind # "urls"
    <3>1. a = [new EXCEPT !.at = "work", !.row = "In Progress"] /\ units = 1
      BY <2>4
    <3>2. Affords(1)
      BY <2>4, <3>1
    <3> QED
      BY <2>1, <2>4, <3>1, <3>2, FieldStates DEF Asks, AskPlaces
  <2> QED
    BY <2>2, <2>3, <2>4
<1>7. ask' = [ask EXCEPT ![r] = a]
  BY <1>5
<1> HIDE DEF a, new, units
<1>8. /\ ask' \in [Requests -> Asks] /\ ask'[r] = a
      /\ \A q \in Requests : q # r => ask'[q] = ask[q]
  BY <1>1, <1>6, <1>7 DEF PipeTyped
<1>9. \A q \in Requests : CompletedRows(q)' = CompletedRows(q)
  BY <1>2, RowsUntouched
<1>10. PipeTyped'
  BY <1>1, <1>2, <1>8 DEF PipeTyped
<1>11. PlaceStands(r)' /\ ThreadStands(r)'
  BY <1>2, <1>3, <1>6, <1>8 DEF PlaceStands, ThreadStands, Kinds, Distill
<1>12. BillStands(r)'
  <2>1. paid'[r] = {} /\ CompletedRows(r)' = {}
    BY <1>2, <1>4, <1>9
  <2>2. a.reply \notin {200, 504} /\ a.reply # 200
    BY <1>6, NoReply
  <2> QED
    BY <1>6, <1>8, <2>1, <2>2 DEF BillStands
<1>13. \A q \in Requests : q # r =>
          /\ ask'[q] = ask[q] /\ paid'[q] = paid[q] /\ CompletedRows(q)' = CompletedRows(q)
          /\ \A key : <<q, key>> \in onThread' <=> <<q, key>> \in onThread
  BY <1>2, <1>8, <1>9
<1>14. ~HasInHand(r)' \/ Affords(1)
  BY <1>2, <1>3, <1>6, <1>8 DEF HasInHand
<1> QED
  BY <1>2, <1>10, <1>11, <1>12, <1>13, <1>14, Combine DEF RequestStands

\* A request goes on to its next await with what it has in hand.
LEMMA MoveStep ==
    ASSUME PipeInv, NEW r \in Requests,
           \/ Screen(r, TRUE) \/ Discovered(r) \/ NextPage(r)
           \/ (\E ok \in BOOLEAN : Render(r, ok)) \/ CssPass(r)
    PROVE  PipeInv'
<1>1. PipeTyped /\ PlaceStands(r) /\ ask[r] \in Asks
  BY DEF PipeInv, RequestStands, PipeTyped
<1>2. UNCHANGED <<paid, auditRows, onThread, opsUsed>>
  BY DEF Screen, Discovered, NextPage, Render, CssPass, Unpaid
<1>3. ASSUME NEW a \in Asks, ask' = [ask EXCEPT ![r] = a],
             ask[r].at \notin {"idle", "replied", "rowed"},
             a.kind = ask[r].kind, a.reply = ask[r].reply, a.done = ask[r].done,
             \/ a.at = "bill" /\ a.kind = "discover" /\ ask[r].at = "work"
             \/ a.at = "loop" /\ a.kind \in Distill
             \/ /\ a.at = "render" /\ a.todo = ask[r].todo /\ a.todo # <<>>
                /\ ask[r].at = "loop" /\ Affords(1)
             \/ /\ a.at \in {"css", "row"} /\ a.todo = ask[r].todo
                /\ ask[r].at \in {"render", "css"}
      PROVE  PipeInv'
  <2>1. /\ PipeTyped' /\ ThreadStands(r)' /\ BillStands(r)'
        /\ \A q \in Requests : q # r =>
              /\ ask'[q] = ask[q] /\ paid'[q] = paid[q] /\ CompletedRows(q)' = CompletedRows(q)
              /\ \A key : <<q, key>> \in onThread' <=> <<q, key>> \in onThread
        /\ ask'[r] = a /\ \A key : <<r, key>> \notin onThread'
    BY <1>2, <1>3, GoesOn
  <2>2. PlaceStands(r)'
    BY <1>1, <1>3, <2>1 DEF PlaceStands, Distill
  <2>3. ~HasInHand(r)' \/ (HasInHand(r)' => HasInHand(r)) \/ Affords(1)
    BY <1>3, <2>1 DEF HasInHand
  <2> QED
    BY <1>2, <2>1, <2>2, <2>3, Combine DEF RequestStands
<1>4. CASE Screen(r, TRUE)
  <2> DEFINE a == [ask[r] EXCEPT !.at = "loop", !.row = "In Progress"]
  <2>1. a \in Asks /\ a.kind = ask[r].kind /\ a.reply = ask[r].reply /\ a.done = ask[r].done
    BY <1>1, FieldStates DEF Asks, AskPlaces
  <2>2. a.at = "loop" /\ ask' = [ask EXCEPT ![r] = a] /\ ask[r].at = "screen"
    BY <1>1, <1>4 DEF Screen, Asks
  <2>3. a.kind \in Distill
    BY <1>1, <2>1, <2>2 DEF PlaceStands
  <2> QED
    BY <1>3, <2>1, <2>2, <2>3
<1>5. CASE Discovered(r)
  <2>1. PICK urls \in Orders :
           IF ask[r].kind = "discover" THEN GoTo(r, "bill") /\ urls = <<>>
           ELSE ask' = [ask EXCEPT ![r].todo = urls, ![r].at = "loop"]
    BY <1>5 DEF Discovered
  <2>2. ask[r].at = "work" /\ ask[r].kind # "lookup"
    BY <1>5 DEF Discovered
  <2>3. CASE ask[r].kind = "discover"
    <3> DEFINE a == [ask[r] EXCEPT !.at = "bill"]
    <3>1. /\ a \in Asks /\ a.kind = ask[r].kind /\ a.reply = ask[r].reply /\ a.done = ask[r].done
          /\ a.at = "bill" /\ ask' = [ask EXCEPT ![r] = a]
      BY <1>1, <2>1, <2>3 DEF Asks, AskPlaces, GoTo
    <3> QED
      BY <1>3, <2>2, <2>3, <3>1
  <2>4. CASE ask[r].kind # "discover"
    <3> DEFINE a == [ask[r] EXCEPT !.todo = urls, !.at = "loop"]
    <3>1. /\ a \in Asks /\ a.kind = ask[r].kind /\ a.reply = ask[r].reply /\ a.done = ask[r].done
          /\ a.at = "loop" /\ ask' = [ask EXCEPT ![r] = a]
      BY <1>1, <2>1, <2>4, OrdersAreLists DEF Asks, AskPlaces
    <3>2. a.kind \in Distill
      BY <1>1, <2>2, <2>4, <3>1 DEF PlaceStands, Distill
    <3> QED
      BY <1>3, <2>2, <3>1, <3>2
  <2> QED
    BY <2>3, <2>4
<1>6. CASE NextPage(r)
  <2> DEFINE a == [ask[r] EXCEPT !.at = "render"]
  <2>1. /\ a \in Asks /\ a.kind = ask[r].kind /\ a.reply = ask[r].reply /\ a.done = ask[r].done
        /\ a.at = "render" /\ ask' = [ask EXCEPT ![r] = a] /\ a.todo = ask[r].todo
        /\ ask[r].at = "loop" /\ ask[r].todo # <<>> /\ Affords(1)
    BY <1>1, <1>6 DEF Asks, AskPlaces, GoTo, NextPage
  <2> QED
    BY <1>3, <2>1
<1>7. ASSUME NEW ok \in BOOLEAN, Render(r, ok) PROVE PipeInv'
  <2> DEFINE a == [ask[r] EXCEPT !.at = IF ok THEN "css" ELSE "row",
                                 !.item = IF ok THEN @ ELSE "failed"]
  <2>1. /\ a \in Asks /\ a.kind = ask[r].kind /\ a.reply = ask[r].reply /\ a.done = ask[r].done
        /\ a.at \in {"css", "row"} /\ a.todo = ask[r].todo
    BY <1>1, FieldStates DEF Asks, AskPlaces
  <2>2. ask' = [ask EXCEPT ![r] = a] /\ ask[r].at = "render"
    BY <1>1, <1>7 DEF Render, Asks
  <2> QED
    BY <1>3, <2>1, <2>2
<1>8. CASE CssPass(r)
  <2>1. PICK escalated \in BOOLEAN :
           ask' = [ask EXCEPT ![r].at = "row",
                              ![r].calls = IF escalated THEN @ + 1 ELSE @,
                              ![r].item = IF escalated THEN "failed" ELSE "completed"]
    BY <1>8 DEF CssPass, Escalates
  <2> DEFINE a == [ask[r] EXCEPT !.at = "row",
                                 !.calls = IF escalated THEN @ + 1 ELSE @,
                                 !.item = IF escalated THEN "failed" ELSE "completed"]
  <2>2. /\ a \in Asks /\ a.kind = ask[r].kind /\ a.reply = ask[r].reply /\ a.done = ask[r].done
        /\ a.at = "row" /\ a.todo = ask[r].todo
    <3>1. (IF escalated THEN ask[r].calls + 1 ELSE ask[r].calls) \in Nat
      BY <1>1 DEF Asks
    <3> QED
      BY <1>1, <3>1, FieldStates DEF Asks, AskPlaces
  <2>3. ask' = [ask EXCEPT ![r] = a]
    BY <2>1
  <2>4. ask[r].at = "css"
    BY <1>8 DEF CssPass
  <2> QED
    BY <1>3, <2>2, <2>3, <2>4
<1> QED
  BY <1>4, <1>5, <1>6, <1>7, <1>8

\* The item's row is written, or lost: only a completed page's row awaits its bill.
LEMMA PersistStep ==
    ASSUME PipeInv, NEW r \in Requests, PersistItem(r) PROVE PipeInv'
<1>1. PipeTyped /\ PlaceStands(r) /\ ThreadStands(r) /\ BillStands(r)
  BY DEF PipeInv, RequestStands
<1>2. ask[r].at = "row" /\ GoTo(r, "rowed") /\ UNCHANGED <<opsUsed, paid, onThread>>
  BY DEF PersistItem, Unpaid
<1>3. \A key : <<r, key>> \notin onThread
  BY <1>1, <1>2, NothingOnThread
<1>4. /\ ask' \in [Requests -> Asks] /\ \A q \in Requests : q # r => ask'[q] = ask[q]
      /\ ask'[r].at = "rowed" /\ ask'[r].kind = ask[r].kind /\ ask'[r].reply = ask[r].reply
      /\ ask'[r].todo = ask[r].todo /\ ask'[r].item = ask[r].item
      /\ ask'[r].done = ask[r].done
  BY <1>1, <1>2, AskSteps DEF AskPlaces
<1>5. auditRows' = auditRows \cup {<<r, Page(r), ask[r].item>>} \/ auditRows' = auditRows
  BY DEF PersistItem
<1>6. \A q \in Requests : q # r => CompletedRows(q)' = CompletedRows(q)
  BY <1>5 DEF CompletedRows
<1>7. /\ CompletedRows(r)' \subseteq CompletedRows(r) \cup {Page(r)}
      /\ ask[r].item # "completed" => CompletedRows(r)' \subseteq CompletedRows(r)
  BY <1>5 DEF CompletedRows
<1>8. PipeTyped'
  BY <1>1, <1>2, <1>4 DEF PipeTyped
<1>9. PlaceStands(r)' /\ ThreadStands(r)'
  BY <1>1, <1>2, <1>3, <1>4 DEF PlaceStands, ThreadStands
<1>10. BillStands(r)'
  <2>1. ask[r].kind \in Distill /\ ask[r].kind # None /\ ask[r].kind \notin {"lookup", "discover"}
    BY <1>1, <1>2 DEF PlaceStands, Distill, None
  <2>2. Unbilled(r) = {} /\ Unbilled(r)' = IF ask[r].item = "completed" THEN {Page(r)} ELSE {}
    BY <1>2, <1>4 DEF Unbilled, Page
  <2>3. CompletedRows(r) \ paid[r] = {} /\ paid[r] = ask[r].done
    BY <1>1, <2>1, <2>2 DEF BillStands
  <2>4. CompletedRows(r)' \ paid[r] \subseteq Unbilled(r)'
    BY <1>7, <2>2, <2>3
  <2> QED
    BY <1>2, <1>4, <2>1, <2>3, <2>4 DEF BillStands
<1>11. HasInHand(r)
  BY <1>2 DEF HasInHand
<1> QED
  BY <1>2, <1>4, <1>6, <1>8, <1>9, <1>10, <1>11, Combine DEF RequestStands

\* What a settled item leaves of its request.
LEMMA SettledSteps ==
    ASSUME PipeTyped, NEW r \in Requests, ask[r].todo # <<>>, ask' = Settled(r)
    PROVE  /\ ask' \in [Requests -> Asks] /\ \A q \in Requests : q # r => ask'[q] = ask[q]
           /\ ask'[r].at = "loop" /\ ask'[r].kind = ask[r].kind /\ ask'[r].reply = ask[r].reply
           /\ ask'[r].done = IF ask[r].item = "completed" THEN ask[r].done \cup {Page(r)}
                             ELSE ask[r].done
           /\ Page(r) \in Pages
<1> DEFINE done == IF ask[r].item = "completed" THEN ask[r].done \cup {Page(r)} ELSE ask[r].done
           failed == IF ask[r].item = "failed" THEN ask[r].failed \cup {Page(r)} ELSE ask[r].failed
           a == [ask[r] EXCEPT !.at = "loop", !.todo = Tail(@), !.item = None,
                               !.done = done, !.failed = failed]
<1>1. ask[r] \in Asks /\ ask[r].todo \in Seq(Pages)
  BY DEF PipeTyped, Asks
<1>2. Page(r) \in Pages /\ Tail(ask[r].todo) \in Seq(Pages)
  BY <1>1, HeadIsPage DEF Page
<1>3. done \in SUBSET Pages /\ failed \in SUBSET Pages
  BY <1>1, <1>2 DEF Asks
<1>4. ask' = [ask EXCEPT ![r] = a]
  BY <1>1 DEF Settled, Asks
<1> HIDE DEF done, failed
<1>5. a \in Asks /\ a.at = "loop" /\ a.kind = ask[r].kind /\ a.reply = ask[r].reply /\ a.done = done
  BY <1>1, <1>2, <1>3, FieldStates DEF Asks, AskPlaces
<1> HIDE DEF a
<1>6. /\ ask' \in [Requests -> Asks] /\ ask'[r] = a
      /\ \A q \in Requests : q # r => ask'[q] = ask[q]
  BY <1>4, <1>5 DEF PipeTyped
<1> QED
  BY <1>2, <1>5, <1>6 DEF done

\* A completed item is billed, a failed one is not, and where the bill fails the request does.
LEMMA BillItemStep ==
    ASSUME PipeInv, NEW r \in Requests, BillItem(r) PROVE PipeInv'
<1>1. PipeTyped /\ PlaceStands(r) /\ ThreadStands(r) /\ BillStands(r)
  BY DEF PipeInv, RequestStands
<1>2. ask[r].at = "rowed" /\ UNCHANGED <<auditRows, onThread>>
  BY DEF BillItem
<1>3. \A key : <<r, key>> \notin onThread
  BY <1>1, <1>2, NothingOnThread
<1>4. \A q \in Requests : CompletedRows(q)' = CompletedRows(q)
  BY <1>2, RowsUntouched
<1>5. /\ ask[r].kind \in Distill /\ ask[r].kind # None /\ ask[r].kind \notin {"lookup", "discover"}
      /\ ask[r].todo # <<>> /\ ask[r].reply = 0
  BY <1>1, <1>2 DEF PlaceStands, Distill, None
<1>6. paid[r] = ask[r].done /\ CompletedRows(r) \ paid[r] \subseteq Unbilled(r)
  BY <1>1, <1>5 DEF BillStands
<1>7. HasInHand(r)
  BY <1>2 DEF HasInHand
<1>8. ASSUME ask' = Settled(r), paid' \in [Requests -> SUBSET (Pages \cup {"op"})],
             \A q \in Requests : q # r => paid'[q] = paid[q],
             opsUsed' \in Nat, opsUsed' \in {opsUsed, opsUsed + 1},
             paid'[r] = ask'[r].done, CompletedRows(r) \subseteq paid'[r]
      PROVE  PipeInv'
  <2>1. /\ ask' \in [Requests -> Asks] /\ \A q \in Requests : q # r => ask'[q] = ask[q]
        /\ ask'[r].at = "loop" /\ ask'[r].kind = ask[r].kind /\ ask'[r].reply = ask[r].reply
    BY <1>1, <1>5, <1>8, SettledSteps
  <2>2. PipeTyped'
    BY <1>1, <1>2, <1>8, <2>1 DEF PipeTyped
  <2>3. PlaceStands(r)' /\ ThreadStands(r)'
    BY <1>2, <1>3, <1>5, <2>1 DEF PlaceStands, ThreadStands
  <2>4. BillStands(r)'
    BY <1>4, <1>5, <1>8, <2>1 DEF BillStands
  <2>5. ~HasInHand(r)'
    BY <1>2, <1>3, <2>1 DEF HasInHand
  <2> QED
    BY <1>2, <1>4, <1>7, <1>8, <2>1, <2>2, <2>3, <2>4, <2>5, Combine DEF RequestStands
<1>9. CASE ask[r].item = "failed" /\ ask' = Settled(r) /\ UNCHANGED <<opsUsed, paid>>
  <2>1. ask'[r].done = ask[r].done
    BY <1>1, <1>5, <1>9, SettledSteps
  <2>2. Unbilled(r) = {}
    BY <1>2, <1>9 DEF Unbilled
  <2>3. CompletedRows(r) \subseteq paid[r]
    BY <1>6, <2>2
  <2> QED
    BY <1>1, <1>6, <1>8, <1>9, <2>1, <2>3 DEF PipeTyped
<1>10. CASE ask[r].item = "completed" /\ Pay(r, Page(r)) /\ ask' = Settled(r)
  <2>1. ask'[r].done = ask[r].done \cup {Page(r)} /\ Page(r) \in Pages
    BY <1>1, <1>5, <1>10, SettledSteps
  <2>2. /\ paid' \in [Requests -> SUBSET (Pages \cup {"op"})]
        /\ \A q \in Requests : q # r => paid'[q] = paid[q]
        /\ paid'[r] = paid[r] \cup {Page(r)}
        /\ opsUsed' \in Nat /\ opsUsed' \in {opsUsed, opsUsed + 1}
    BY <1>1, <1>10, <2>1, PaySteps
  <2>3. CompletedRows(r) \subseteq paid[r] \cup {Page(r)}
    BY <1>6 DEF Unbilled
  <2> QED
    BY <1>6, <1>8, <1>10, <2>1, <2>2, <2>3
<1>11. CASE ask[r].item = "completed" /\ Reply(r, 500, "Failed") /\ UNCHANGED <<opsUsed, paid>>
  <2>1. /\ ask' \in [Requests -> Asks] /\ \A q \in Requests : q # r => ask'[q] = ask[q]
        /\ ask'[r].at = "replied" /\ ask'[r].kind = ask[r].kind /\ ask'[r].reply = 500
        /\ ask'[r].todo = ask[r].todo /\ ask'[r].done = ask[r].done
    <3>1. 500 \in Nat
      OBVIOUS
    <3> QED
      BY <1>1, <1>11, <3>1, FieldStates, AskSteps
  <2>2. PipeTyped'
    BY <1>1, <1>2, <1>11, <2>1 DEF PipeTyped
  <2>3. PlaceStands(r)' /\ ThreadStands(r)'
    BY <1>2, <1>3, <2>1 DEF PlaceStands, ThreadStands
  <2>4. Unbilled(r)' = {Page(r)}
    BY <2>1 DEF Unbilled, Page
  <2>5. CompletedRows(r) \ paid[r] \subseteq {Page(r)}
    BY <1>6 DEF Unbilled
  <2>6. BillStands(r)'
    BY <1>4, <1>5, <1>6, <1>11, <2>1, <2>4, <2>5 DEF BillStands
  <2>7. ~HasInHand(r)'
    BY <1>2, <1>3, <2>1 DEF HasInHand
  <2> QED
    BY <1>2, <1>4, <1>11, <2>1, <2>2, <2>3, <2>6, <2>7, Combine DEF RequestStands
<1> QED
  BY <1>9, <1>10, <1>11 DEF BillItem, Unpaid

\* A timeout answers for the request; a write it was waiting for stays on its thread.
LEMMA CancelStep ==
    ASSUME PipeInv, NEW r \in Requests, CancelPipe(r) PROVE PipeInv'
<1>1. PipeTyped /\ PlaceStands(r) /\ ThreadStands(r) /\ BillStands(r) /\ ask[r] \in Asks
  BY DEF PipeInv, RequestStands, PipeTyped
<1>2. /\ ask[r].at \in Awaiting /\ Reply(r, 504, ask[r].row)
      /\ UNCHANGED <<opsUsed, paid, auditRows>>
  BY DEF CancelPipe, Unpaid
<1>3. \A key : <<r, key>> \notin onThread
  BY <1>1, <1>2, NothingOnThread DEF Awaiting
<1>4. \A q \in Requests : CompletedRows(q)' = CompletedRows(q)
  BY <1>2, RowsUntouched
<1>5. /\ ask' \in [Requests -> Asks] /\ \A q \in Requests : q # r => ask'[q] = ask[q]
      /\ ask'[r].at = "replied" /\ ask'[r].kind = ask[r].kind /\ ask'[r].reply = 504
      /\ ask'[r].todo = ask[r].todo /\ ask'[r].done = ask[r].done
  <2>1. ask[r].row \in RowStates
    BY <1>1 DEF Asks
  <2>2. 504 \in Nat
    OBVIOUS
  <2> QED
    BY <1>1, <1>2, <2>1, <2>2, AskSteps
<1> DEFINE left == CASE ask[r].at = "bill" -> {<<r, "op">>}
                     [] ask[r].at = "row"  -> {<<r, Page(r)>>}
                     [] OTHER -> {}
<1>6. onThread' = onThread \cup left
  BY DEF CancelPipe
<1>7. /\ ask[r].at = "row" => ask[r].kind \in Distill /\ Page(r) \in Pages
      /\ ask[r].at = "bill" => ask[r].kind = "discover"
  BY <1>1, HeadIsPage DEF PlaceStands, Asks, Page
<1>8. /\ left \subseteq {r} \X (Pages \cup {"op"})
      /\ \A key : <<r, key>> \in left =>
            \/ key = "op" /\ ask[r].at = "bill"
            \/ key = Page(r) /\ ask[r].at = "row"
  BY <1>7
<1> HIDE DEF left
<1>9. PipeTyped'
  BY <1>1, <1>2, <1>5, <1>6, <1>8 DEF PipeTyped
<1>10. PlaceStands(r)'
  BY <1>5 DEF PlaceStands
<1>11. ThreadStands(r)'
  <2>1. SUFFICES ASSUME NEW key \in Pages \cup {"op"}, <<r, key>> \in left
                 PROVE  IF key = "op" THEN ask[r].kind = "discover"
                        ELSE ask[r].kind \in Distill /\ key = Page(r)
    BY <1>3, <1>5, <1>6 DEF ThreadStands, Page
  <2> QED
    BY <1>7, <1>8, <2>1, PipeAssumption
<1>12. BillStands(r)'
  <2>1. ask[r].kind # None
    BY <1>1, <1>2 DEF PlaceStands, Awaiting, Distill, None
  <2>2. Unbilled(r)' = {Page(r)} /\ Unbilled(r) \subseteq {Page(r)}
    BY <1>5, NoReply DEF Unbilled, Page
  <2>3. CompletedRows(r)' = CompletedRows(r) /\ paid'[r] = paid[r]
    BY <1>2, <1>4
  <2>4. 504 \in {200, 504} /\ 504 # 200
    BY NoReply
  <2>5. ask[r].kind \in Distill => paid[r] = ask[r].done /\ CompletedRows(r) \ paid[r] \subseteq {Page(r)}
    BY <1>1, <2>2 DEF BillStands
  <2> QED
    BY <1>5, <2>1, <2>2, <2>3, <2>4, <2>5 DEF BillStands
<1>13. HasInHand(r)' => HasInHand(r)
  <2>1. HasInHand(r)' => <<r, "op">> \in left
    BY <1>3, <1>5, <1>6 DEF HasInHand
  <2> QED
    BY <1>7, <1>8, <2>1, PipeAssumption DEF HasInHand
<1>14. \A q \in Requests : q # r =>
          /\ ask'[q] = ask[q] /\ paid'[q] = paid[q] /\ CompletedRows(q)' = CompletedRows(q)
          /\ \A key : <<q, key>> \in onThread' <=> <<q, key>> \in onThread
  BY <1>2, <1>4, <1>5, <1>6, <1>8
<1> QED
  BY <1>2, <1>9, <1>10, <1>11, <1>12, <1>13, <1>14, Combine DEF RequestStands

\* A thread left behind pays the op, or writes the row of the page that was in hand.
LEMMA ThreadStep ==
    ASSUME PipeInv, NEW r \in Requests, ThreadEnds(r) PROVE PipeInv'
<1>1. PipeTyped /\ PlaceStands(r) /\ ThreadStands(r) /\ BillStands(r)
  BY DEF PipeInv, RequestStands
<1>2. PICK write \in onThread :
         /\ write[1] = r /\ onThread' = onThread \ {write}
         /\ IF write[2] = "op" THEN Pay(r, "op") /\ UNCHANGED auditRows
            ELSE Unpaid /\ auditRows' = auditRows \cup {<<r, write[2], ask[r].item>>}
  BY DEF ThreadEnds
<1>3. ask' = ask
  BY DEF ThreadEnds
<1> DEFINE key == write[2]
<1>4. key \in Pages \cup {"op"} /\ write = <<r, key>> /\ <<r, key>> \in onThread
  BY <1>1, <1>2 DEF PipeTyped
<1> HIDE DEF key
<1>5. /\ ask[r].at = "replied" /\ ask[r].reply = 504
      /\ IF key = "op" THEN ask[r].kind = "discover" ELSE ask[r].kind \in Distill /\ key = Page(r)
  BY <1>1, <1>4 DEF ThreadStands
<1>6. PlaceStands(r)' /\ ThreadStands(r)'
  BY <1>1, <1>2, <1>3 DEF PlaceStands, ThreadStands, Page
<1>7. \A q \in Requests : q # r =>
         \A k : <<q, k>> \in onThread' <=> <<q, k>> \in onThread
  BY <1>2, <1>4
<1>8. Unbilled(r)' = {Page(r)} /\ Unbilled(r) = {Page(r)}
  BY <1>3, <1>5, NoReply DEF Unbilled, Page
<1>9. CASE key = "op"
  <2>1. Pay(r, "op") /\ UNCHANGED auditRows /\ ask[r].kind = "discover"
    BY <1>2, <1>5, <1>9 DEF key
  <2>2. /\ paid' \in [Requests -> SUBSET (Pages \cup {"op"})]
        /\ \A q \in Requests : q # r => paid'[q] = paid[q]
        /\ opsUsed' \in Nat /\ opsUsed' \in {opsUsed, opsUsed + 1}
    BY <1>1, <2>1, PaySteps
  <2>3. \A q \in Requests : CompletedRows(q)' = CompletedRows(q)
    BY <2>1, RowsUntouched
  <2>4. PipeTyped'
    BY <1>1, <1>2, <1>3, <2>2 DEF PipeTyped
  <2>5. BillStands(r)'
    <3>1. 504 \in {200, 504} /\ 504 # 200
      BY NoReply
    <3>2. ask[r].kind # None /\ ask[r].kind \notin Distill
      BY <2>1 DEF None, Distill
    <3> QED
      BY <1>3, <1>5, <3>1, <3>2 DEF BillStands
  <2>6. HasInHand(r) /\ ~HasInHand(r)'
    BY <1>2, <1>3, <1>4, <1>5, <1>9 DEF HasInHand
  <2> QED
    BY <1>3, <1>6, <1>7, <2>2, <2>3, <2>4, <2>5, <2>6, Combine DEF RequestStands
<1>10. CASE key # "op"
  <2>1. /\ UNCHANGED <<opsUsed, paid>> /\ auditRows' = auditRows \cup {<<r, key, ask[r].item>>}
        /\ ask[r].kind \in Distill /\ key = Page(r)
    BY <1>2, <1>5, <1>10 DEF key, Unpaid
  <2>2. \A q \in Requests : q # r => CompletedRows(q)' = CompletedRows(q)
    BY <2>1 DEF CompletedRows
  <2>3. CompletedRows(r)' \subseteq CompletedRows(r) \cup {Page(r)}
    BY <2>1 DEF CompletedRows
  <2>4. PipeTyped'
    BY <1>1, <1>2, <1>3, <2>1 DEF PipeTyped
  <2>5. BillStands(r)'
    <3>1. ask[r].kind # None /\ ask[r].kind \notin {"lookup", "discover"}
      BY <2>1 DEF None, Distill
    <3>2. paid[r] = ask[r].done /\ CompletedRows(r) \ paid[r] \subseteq {Page(r)}
      BY <1>1, <1>8, <2>1 DEF BillStands
    <3>3. CompletedRows(r)' \ paid[r] \subseteq Unbilled(r)'
      BY <1>8, <2>3, <3>2
    <3> QED
      BY <1>3, <2>1, <3>1, <3>2, <3>3 DEF BillStands
  <2>6. HasInHand(r)' => HasInHand(r)
    BY <1>2, <1>3 DEF HasInHand
  <2> QED
    BY <1>3, <1>6, <1>7, <2>1, <2>2, <2>4, <2>5, <2>6, Combine DEF RequestStands
<1> QED
  BY <1>9, <1>10

\* PipeInv holds at first.
LEMMA PipeStarts ==
    ASSUME PipeInit PROVE PipeInv
<1>1. PipeTyped
  <2>1. NewAsk \in Asks
    <3>1. <<>> \in Seq(Pages) /\ 0 \in Nat
      OBVIOUS
    <3> QED
      BY <3>1, FieldStates DEF NewAsk, Asks, AskPlaces
  <2> QED
    BY <2>1 DEF PipeInit, PipeTyped
<1>2. \A r \in Requests : ask[r] = NewAsk /\ paid[r] = {} /\ CompletedRows(r) = {}
  BY DEF PipeInit, CompletedRows
<1>3. NewAsk.at = "idle" /\ NewAsk.kind = None /\ NewAsk.reply = 0 /\ NewAsk.done = {}
  BY DEF NewAsk
<1>4. onThread = {} /\ opsUsed = 0
  BY DEF PipeInit
<1>5. \A r \in Requests : RequestStands(r)
  <2>1. \A r \in Requests : PlaceStands(r)
    BY <1>2, <1>3 DEF PlaceStands
  <2>2. \A r \in Requests : ThreadStands(r)
    BY <1>4 DEF ThreadStands
  <2>3. None \notin {"lookup", "discover"} /\ None \notin Distill
    BY DEF None, Distill
  <2>4. \A r \in Requests : BillStands(r)
    BY <1>2, <1>3, <2>3 DEF BillStands
  <2> QED
    BY <2>1, <2>2, <2>4 DEF RequestStands
<1>6. GrantKept
  <2>1. InHand = {}
    BY <1>2, <1>3, <1>4 DEF InHand, HasInHand
  <2>2. Cardinality(InHand) = 0
    BY <2>1, FS_EmptySet
  <2>3. Cardinality(Requests) \in Nat /\ Cardinality(Requests) # 0 /\ OpsCap \in Nat
    BY PipeAssumption, FS_CardinalityType, FS_EmptySet
  <2> QED
    BY <1>4, <2>2, <2>3 DEF GrantKept
<1> QED
  BY <1>1, <1>5, <1>6 DEF PipeInv

\* PipeInv is kept.
LEMMA PipeSteps ==
    ASSUME PipeInv, [PipeNext]_pipeVars PROVE PipeInv'
<1>1. CASE UNCHANGED pipeVars
  <2>1. \A r \in Requests : RequestStands(r)'
    BY <1>1 DEF PipeInv, RequestStands, PlaceStands, ThreadStands, BillStands, Unbilled,
                CompletedRows, Page, pipeVars
  <2>2. InHand' = InHand
    BY <1>1 DEF InHand, HasInHand, pipeVars
  <2> QED
    BY <1>1, <2>1, <2>2 DEF PipeInv, PipeTyped, GrantKept, pipeVars
<1>2. ASSUME NEW r \in Requests, PipeStep(r) PROVE PipeInv'
  <2>0. PipeTyped /\ PlaceStands(r) /\ ask[r] \in Asks
    BY DEF PipeInv, RequestStands, PipeTyped
  <2>1. CASE ArrivePipe(r)
    BY <2>1, ArriveStep
  <2>2. ASSUME NEW public \in BOOLEAN, Screen(r, public) PROVE PipeInv'
    <3>1. CASE public
      BY <2>2, <3>1, MoveStep
    <3>2. CASE ~public
      <4>1. /\ ask[r].at = "screen" /\ Reply(r, 400, None)
            /\ UNCHANGED <<opsUsed, paid, auditRows, onThread>>
        BY <2>2, <3>2 DEF Screen, Unpaid
      <4>2. ask[r].kind \in Distill
        BY <2>0, <4>1 DEF PlaceStands
      <4>3. 400 \in Nat
        OBVIOUS
      <4> QED
        BY <4>1, <4>2, <4>3, FieldStates, AnswersUnpaid
    <3> QED
      BY <3>1, <3>2
  <2>3. CASE WorkFails(r)
    <3>1. PICK code \in Nat : code # 200 /\ Reply(r, code, "Failed")
      BY <2>3 DEF WorkFails
    <3>3. ask[r].at = "work" /\ UNCHANGED <<opsUsed, paid, auditRows, onThread>>
      BY <2>3 DEF WorkFails, Unpaid
    <3>4. ask[r].at \notin {"replied", "rowed", "idle"}
      BY <3>3
    <3> QED
      BY <3>1, <3>3, <3>4, FieldStates, AnswersUnpaid
  <2>4. CASE LookupFound(r) \/ BillDiscover(r)
    <3>1. /\ ask[r].at \in {"work", "bill"} /\ ask[r].kind \in {"lookup", "discover"}
          /\ UNCHANGED <<auditRows, onThread>>
      BY <2>0, <2>4 DEF LookupFound, BillDiscover, PlaceStands
    <3>2. CASE Pay(r, "op") /\ Reply(r, 200, "Success")
      BY <3>1, <3>2, AnswersPaid
    <3>3. CASE Reply(r, 500, "Failed") /\ UNCHANGED <<opsUsed, paid>>
      <4> DEFINE code == 500
      <4>1. code \in Nat /\ code # 200 /\ Reply(r, code, "Failed")
        BY <3>3
      <4> HIDE DEF code
      <4>2. ask[r].at \notin {"replied", "rowed", "idle"}
        BY <3>1
      <4> QED
        BY <3>1, <3>3, <4>1, <4>2, FieldStates, AnswersUnpaid
    <3> QED
      BY <2>4, <3>2, <3>3 DEF LookupFound, BillDiscover, Unpaid
  <2>5. CASE EndDistill(r)
    <3>1. /\ ask[r].at = "loop" /\ Reply(r, 200, "Success")
          /\ UNCHANGED <<opsUsed, paid, auditRows, onThread>>
      BY <2>5 DEF EndDistill, Unpaid
    <3>2. ask[r].kind \in Distill
      BY <2>0, <3>1 DEF PlaceStands
    <3>3. 200 \in Nat
      OBVIOUS
    <3> QED
      BY <3>1, <3>2, <3>3, FieldStates, AnswersUnpaid
  <2>6. CASE Discovered(r) \/ NextPage(r) \/ (\E ok \in BOOLEAN : Render(r, ok)) \/ CssPass(r)
    BY <2>6, MoveStep
  <2> QED
    BY <1>2, <2>1, <2>2, <2>3, <2>4, <2>5, <2>6, PersistStep, BillItemStep, CancelStep, ThreadStep
    DEF PipeStep
<1> QED
  BY <1>1, <1>2 DEF PipeNext

\* What each answer was charged, and by how much requests can overrun the grant together.
LEMMA PipeInvCharges ==
    ASSUME PipeInv PROVE ChargedAsAnswered
<1>1. opsUsed <= OpsCap + Cardinality(Requests) - 1
  <2>1. IsFiniteSet(InHand)
    BY PipeAssumption, FS_Subset DEF InHand
  <2>2. Cardinality(InHand) \in Nat /\ Cardinality(Requests) \in Nat /\ opsUsed \in Nat /\ OpsCap \in Nat
    BY <2>1, PipeAssumption, FS_CardinalityType DEF PipeInv, PipeTyped
  <2>3. opsUsed + Cardinality(InHand) <= OpsCap + Cardinality(Requests) - 1
    BY DEF PipeInv, GrantKept
  <2> QED
    BY <2>2, <2>3
<1>2. SUFFICES ASSUME NEW r \in Requests
               PROVE  /\ ask[r].kind \in {"lookup", "discover"} =>
                            /\ ask[r].reply = 200 => paid[r] = {"op"}
                            /\ ask[r].reply \notin {200, 504} => paid[r] = {}
                      /\ ask[r].kind \in Distill =>
                            /\ paid[r] = ask[r].done
                            /\ Cardinality(CompletedRows(r) \ paid[r]) <= 1
                            /\ ask[r].reply = 200 => CompletedRows(r) \subseteq paid[r]
  BY <1>1 DEF ChargedAsAnswered
<1>3. BillStands(r) /\ PlaceStands(r)
  BY DEF PipeInv, RequestStands
<1>4. ASSUME ask[r].kind \in Distill
      PROVE  /\ paid[r] = ask[r].done /\ Cardinality(CompletedRows(r) \ paid[r]) <= 1
             /\ ask[r].reply = 200 => CompletedRows(r) \subseteq paid[r]
  <2>1. paid[r] = ask[r].done /\ CompletedRows(r) \ paid[r] \subseteq Unbilled(r)
    BY <1>3, <1>4 DEF BillStands
  <2>2. Unbilled(r) \subseteq {Page(r)}
    BY DEF Unbilled
  <2>3. IsFiniteSet({Page(r)}) /\ Cardinality({Page(r)}) = 1
    BY FS_Singleton
  <2>4. /\ Cardinality(CompletedRows(r) \ paid[r]) <= Cardinality({Page(r)})
    BY <2>1, <2>2, <2>3, FS_Subset
  <2>5. ask[r].reply = 200 => Unbilled(r) = {}
    BY <1>3, NoReply DEF Unbilled, PlaceStands
  <2> QED
    BY <2>1, <2>3, <2>4, <2>5
<1> QED
  BY <1>3, <1>4 DEF BillStands

\* Whatever faults, timeouts and interleavings: a lookup or a discovery pays its op when it
\* succeeds and nothing when it is refused or fails, a distill one op for each page it
\* completed, and requests together overrun the grant by one unit each, less one (lookup_flow,
\* discover_flow, distill_flow).
THEOREM AnswersAreCharged == ServicesSpec => []ChargedAsAnswered
<1>1. ServicesInit => PipeInv
  BY PipeStarts DEF ServicesInit
<1>2. PipeInv /\ [ServicesNext]_serviceVars => PipeInv'
  <2>1. [ServicesNext]_serviceVars => [PipeNext]_pipeVars
    BY DEF ServicesNext, serviceVars
  <2> QED
    BY <2>1, PipeSteps
<1>3. PipeInv => ChargedAsAnswered
  BY PipeInvCharges
<1> QED
  BY <1>1, <1>2, <1>3, PTL DEF ServicesSpec

-----------------------------------------------------------------------------
(* The mail passes *)

RunStates == {"idle", "scan", "claim", "check", "send", "record", "retry", "resend", "rerecord"}
MailRows == [made : Int, attempts : Int, ok : BOOLEAN, err : {None, "dry_run", "cleared", "expired"},
             event : Int]
RunRows == [at : RunStates, now : Int, dry : BOOLEAN, budget : Int, stage : 1..8,
            key : MailKeys \cup {<<None, 0>>}, ids : SUBSET MailKeys, ok : BOOLEAN,
            outBefore : BOOLEAN]
PersonRows == [age : Int, verified : {"no", "fresh", "ripe"}, key : {"no", "fresh", "ripe"},
               used : {"no", "fresh", "ripe"}, failed : Int, success : BOOLEAN,
               band : BOOLEAN, out : BOOLEAN]
PlanRows == [period : Int, ends : Nat, paying : BOOLEAN, linked : BOOLEAN, captured : SUBSET Int,
             storage : {"active", "cancelled"}, storageEnd : Nat]

MailTyped ==
    /\ family \in {"lifecycle", "billing"} /\ clock \in Nat
    /\ person \in PersonRows /\ plan \in PlanRows
    /\ mailLog \in [MailKeys -> MailRows] /\ pass \in [Passes -> RunRows]
    /\ delivered \in [MailKeys -> Nat] /\ lost \in [MailKeys -> Nat]

FirstSend(p) == pass[p].at \in {"check", "send", "record"}
Sends(p)     == FirstSend(p) \/ pass[p].at \in {"resend", "rerecord"}
\* the mail service answered that it delivered, the row does not say so yet
Tells(p) == pass[p].at \in {"record", "rerecord"} /\ pass[p].ok

\* One run at a time is at a mail: its row is claimed, now if this is the first send, and
\* not marked sent.
OneSender ==
    /\ \A p \in Passes : Sends(p) =>
          /\ pass[p].key \in Claimed /\ ~mailLog[pass[p].key].ok
          /\ FirstSend(p) => mailLog[pass[p].key].made = clock
    /\ \A p, q \in Passes : p # q /\ Sends(p) /\ Sends(q) => pass[p].key # pass[q].key

\* What a run retries was claimed before it began; the opt-out it saw stands; what it is
\* about to claim has not passed.
RunStands(p) ==
    /\ pass[p].at # "idle" => pass[p].key \in MailKeys \/ pass[p].at \in {"scan", "retry"}
    /\ pass[p].at # "idle" => pass[p].now <= clock
    /\ \A k \in pass[p].ids : k \in Claimed /\ mailLog[k].made < pass[p].now
    /\ pass[p].outBefore => person.out
    /\ pass[p].at = "claim" =>
          /\ EventOf(pass[p].key) # NoEvent => EventOf(pass[p].key) > pass[p].now
          /\ pass[p].key[1] = "verify_2" => delivered[<<"verify_1", 0>>] > 0
    /\ pass[p].at \in {"check", "send", "resend"} =>
          /\ mailLog[pass[p].key].attempts < CapOf(pass[p].key)
          /\ family = "lifecycle" => ~pass[p].outBefore
          /\ mailLog[pass[p].key].event # NoEvent => mailLog[pass[p].key].event > pass[p].now

\* A row is behind the mails that arrived by those it was not told of, and the one a run is
\* about to record.
RowStands(k) ==
    /\ mailLog[k].ok => k \in Claimed /\ delivered[k] > 0
    /\ ~mailLog[k].ok => \/ delivered[k] <= lost[k]
                         \/ \E p \in Passes : Tells(p) /\ pass[p].key = k
    /\ k \in Claimed /\ k[1] = "verify_2" => delivered[<<"verify_1", 0>>] > 0
TellStands(p) ==
    Tells(p) => delivered[pass[p].key] > 0 /\ delivered[pass[p].key] <= lost[pass[p].key] + 1

MailInv ==
    /\ MailTyped /\ OneSender
    /\ \A p \in Passes : RunStands(p) /\ TellStands(p)
    /\ \A k \in MailKeys : RowStands(k)

\* Which keys are whose: a nudge is a user's, a reminder a subscription's.
LEMMA KeyFamilies ==
    /\ <<"verify_1", 0>> \in MailKeys
    /\ \A k \in BillingKeys : k[1] # "verify_2"
    /\ \A k \in LifecycleKeys : k[1] \notin Reminders
    /\ \A k \in MailKeys : CapOf(k) \in Nat \ {0}
<1>1. /\ Stages[1] = "verify_1" /\ Stages[2] = "verify_2" /\ Stages[3] = "no_key"
      /\ Stages[4] = "no_call" /\ Stages[5] = "stuck" /\ Stages[6] = "activated"
  BY DEF Stages
<1>2. <<"verify_1", 0>> \in MailKeys
  BY <1>1 DEF MailKeys, LifecycleKeys
<1>3. \A k \in BillingKeys : k[1] # "verify_2"
  BY DEF BillingKeys
<1>4. \A k \in LifecycleKeys : k[1] \notin Reminders
  <2>1. \A i \in 1..6 : Stages[i] \notin Reminders
    BY <1>1 DEF Reminders
  <2> QED
    BY <2>1 DEF LifecycleKeys, Reminders
<1>5. \A k \in MailKeys : CapOf(k) \in Nat \ {0}
  BY MailAssumption DEF CapOf
<1> QED
  BY <1>2, <1>3, <1>4, <1>5

\* A person stays one when fields change.
LEMMA PersonFields ==
    ASSUME NEW r \in PersonRows, NEW n \in Int, NEW m \in Int, NEW b \in BOOLEAN
    PROVE  /\ [r EXCEPT !.age = n, !.verified = "ripe", !.key = "fresh"] \in PersonRows
           /\ [r EXCEPT !.age = n, !.verified = "ripe", !.key = "ripe", !.used = "ripe",
                        !.failed = m] \in PersonRows
           /\ [r EXCEPT !.age = n, !.verified = "ripe", !.key = "ripe", !.used = "ripe",
                        !.success = b, !.band = b] \in PersonRows
<1>1. /\ [r EXCEPT !.age = n, !.verified = "ripe", !.key = "fresh"] \in PersonRows
      /\ [r EXCEPT !.age = n, !.verified = "ripe", !.key = "ripe", !.used = "ripe",
                   !.failed = m] \in PersonRows
  BY DEF PersonRows
<1>2. [r EXCEPT !.age = n, !.verified = "ripe", !.key = "ripe", !.used = "ripe",
                !.success = b, !.band = b] \in PersonRows
  BY DEF PersonRows
<1> QED
  BY <1>1, <1>2

\* The users the timer may find are of their type.
LEMMA PeopleAreRows ==
    People \subseteq PersonRows /\ NewPerson \in PersonRows
<1>1. NewPerson \in PersonRows
  BY DEF NewPerson, PersonRows
<1>2. 2 \in Int /\ TRUE \in BOOLEAN
  OBVIOUS
<1>3. [NewPerson EXCEPT !.age = 2, !.verified = "ripe", !.key = "fresh"] \in PersonRows
  BY <1>1, <1>2, PersonFields, Zenon
<1>4. [NewPerson EXCEPT !.age = 2, !.verified = "ripe", !.key = "ripe", !.used = "ripe",
                        !.failed = 2] \in PersonRows
  BY <1>1, <1>2, PersonFields, Zenon
<1>5. [NewPerson EXCEPT !.age = 2, !.verified = "ripe", !.key = "ripe", !.used = "ripe",
                        !.success = TRUE, !.band = TRUE] \in PersonRows
  BY <1>1, <1>2, PersonFields, Zenon
<1> QED
  BY <1>1, <1>3, <1>4, <1>5 DEF People

\* MailInv holds at first.
LEMMA MailStarts ==
    ASSUME MailInit PROVE MailInv
<1>1. MailTyped
  <2>1. person \in PersonRows
    BY PeopleAreRows DEF MailInit
  <2>2. plan \in PlanRows
    BY MailAssumption DEF MailInit, PlanRows
  <2>3. mailLog \in [MailKeys -> MailRows]
    BY DEF MailInit, MailRows, NoRow, NoEvent, None
  <2>4. pass \in [Passes -> RunRows]
    BY DEF MailInit, RunRows, RunStates, NoRun
  <2> QED
    BY <2>1, <2>2, <2>3, <2>4 DEF MailInit, MailTyped
<1>2. /\ \A p \in Passes : pass[p] = NoRun
      /\ \A k \in MailKeys : mailLog[k] = NoRow /\ delivered[k] = 0 /\ lost[k] = 0
  BY DEF MailInit
<1>3. \A p \in Passes : pass[p].at = "idle" /\ pass[p].ids = {} /\ ~pass[p].outBefore /\ ~Sends(p)
  BY <1>2 DEF NoRun, Sends, FirstSend
<1>4. \A k \in MailKeys : ~mailLog[k].ok /\ k \notin Claimed
  BY <1>2 DEF NoRow, Claimed
<1> QED
  BY <1>1, <1>2, <1>3, <1>4 DEF MailInv, OneSender, RunStands, RowStands, TellStands, Tells

\* The world leaves rows and runs alone, keeps an opt-out, only puts off what a reminder is
\* about, and is not older while a mail is being sent.
LEMMA WorldKeeps ==
    ASSUME MailTyped, WorldStep
    PROVE  /\ UNCHANGED <<family, mailLog, pass, delivered, lost>>
           /\ clock' \in Nat /\ clock <= clock'
           /\ clock' # clock => \A p \in Passes : ~Sends(p)
           /\ person' \in PersonRows /\ (person.out => person'.out)
           /\ plan' \in PlanRows /\ plan.ends <= plan'.ends /\ plan'.storageEnd = plan.storageEnd
<1> USE DEF NoMail
<1>0. clock \in Nat /\ person \in PersonRows /\ plan \in PlanRows
  BY DEF MailTyped
<1>1. CASE Tick
  <2>1. person' \in PersonRows /\ person'.out = person.out
    <3>1. /\ Least(person.age + 1, 2) \in Int
          /\ Ripened(person.verified) \in {"no", "fresh", "ripe"}
          /\ Ripened(person.key) \in {"no", "fresh", "ripe"}
          /\ Ripened(person.used) \in {"no", "fresh", "ripe"}
      BY <1>0 DEF PersonRows, Least, Ripened
    <3>2. person' = [person EXCEPT !.age = Least(person.age + 1, 2),
                        !.verified = Ripened(person.verified), !.key = Ripened(person.key),
                        !.used = Ripened(person.used)]
      BY <1>1 DEF Tick
    <3> QED
      BY <1>0, <3>1, <3>2 DEF PersonRows
  <2>2. clock' = clock + 1 /\ UNCHANGED <<family, mailLog, pass, delivered, lost, plan>>
    BY <1>1 DEF Tick
  <2>3. \A p \in Passes : ~Sends(p)
    BY <1>1 DEF Tick, SendUnderWay, Sends, FirstSend
  <2>4. plan.ends <= plan.ends
    BY <1>0 DEF PlanRows
  <2> QED
    BY <1>0, <2>1, <2>2, <2>3, <2>4
<1>2. ASSUME NEW next \in PersonRows, Lives(next), person.out => next.out
      PROVE  /\ UNCHANGED <<family, clock, mailLog, pass, delivered, lost, plan>>
             /\ person' \in PersonRows /\ (person.out => person'.out)
  BY <1>2 DEF Lives, Happens
<1>3. ASSUME NEW next \in PlanRows, Bills(next), plan.ends <= next.ends,
             next.storageEnd = plan.storageEnd
      PROVE  /\ UNCHANGED <<family, clock, mailLog, pass, delivered, lost, person>>
             /\ plan' \in PlanRows /\ plan.ends <= plan'.ends /\ plan'.storageEnd = plan.storageEnd
  BY <1>3 DEF Bills, Happens
<1>4. CASE VerifyEmail
  BY <1>0, <1>2, <1>4 DEF VerifyEmail, PersonRows, PlanRows
<1>5. CASE CreateKey
  BY <1>0, <1>2, <1>5 DEF CreateKey, PersonRows, PlanRows
<1>6. ASSUME NEW good \in BOOLEAN, UseKey(good)
      PROVE  \E next \in PersonRows : Lives(next) /\ (person.out => next.out)
  <2> DEFINE next == [person EXCEPT !.used = IF @ = "no" THEN "fresh" ELSE @, !.success = good,
                                    !.failed = IF good THEN @ ELSE @ + 1, !.band = good]
  <2>1. next \in PersonRows /\ next.out = person.out
    <3>1. /\ (IF person.used = "no" THEN "fresh" ELSE person.used) \in {"no", "fresh", "ripe"}
          /\ (IF good THEN person.failed ELSE person.failed + 1) \in Int
      BY <1>0 DEF PersonRows
    <3> QED
      BY <1>0, <3>1 DEF PersonRows
  <2>2. Lives(next)
    BY <1>6 DEF UseKey
  <2> HIDE DEF next
  <2> QED
    BY <2>1, <2>2
<1>7. CASE OptOut
  <2>1. [person EXCEPT !.out = TRUE] \in PersonRows /\ [person EXCEPT !.out = TRUE].out
    BY <1>0 DEF PersonRows
  <2> QED
    BY <1>0, <1>2, <1>7, <2>1 DEF OptOut, PlanRows
<1>8. CASE RotatePlan
  <2>1. PICK took \in SUBSET {plan.period} :
           Bills([plan EXCEPT !.period = @ + 1, !.ends = @ + PeriodLength,
                              !.captured = @ \cup took])
    BY <1>8 DEF RotatePlan
  <2> DEFINE next == [plan EXCEPT !.period = @ + 1, !.ends = @ + PeriodLength,
                              !.captured = @ \cup took]
  <2>2. /\ next \in PlanRows /\ plan.ends <= next.ends /\ next.storageEnd = plan.storageEnd
    <3>1. /\ plan.period + 1 \in Int /\ plan.ends + PeriodLength \in Nat
          /\ plan.ends <= plan.ends + PeriodLength
      BY <1>0, MailAssumption DEF PlanRows
    <3>2. plan.captured \in SUBSET Int /\ took \in SUBSET Int
      BY <1>0 DEF PlanRows
    <3>3. (plan.captured \cup took) \in SUBSET Int
      BY <3>2
    <3> QED
      BY <1>0, <3>1 DEF PlanRows
  <2>3. Bills(next)
    BY <2>1
  <2> HIDE DEF next
  <2> QED
    BY <1>0, <1>3, <2>2, <2>3
<1>9. CASE CancelPlan
  <2>1. [plan EXCEPT !.paying = FALSE] \in PlanRows /\ plan.ends <= plan.ends
    <3>1. plan.ends <= plan.ends /\ FALSE \in BOOLEAN
      BY <1>0 DEF PlanRows
    <3>2. \A b \in BOOLEAN : [plan EXCEPT !.paying = b] \in PlanRows
      BY <1>0 DEF PlanRows
    <3> QED
      BY <3>1, <3>2
  <2> QED
    BY <1>0, <1>3, <1>9, <2>1 DEF CancelPlan, PlanRows
<1>10. CASE CancelStorage
  <2>1. [plan EXCEPT !.storage = "cancelled"] \in PlanRows /\ plan.ends <= plan.ends
    BY <1>0 DEF PlanRows
  <2> QED
    BY <1>0, <1>3, <1>10, <2>1 DEF CancelStorage, PlanRows
<1>11. plan.ends <= plan.ends /\ clock <= clock
  BY <1>0 DEF PlanRows
<1> QED
  BY <1>0, <1>1, <1>2, <1>4, <1>5, <1>6, <1>7, <1>8, <1>9, <1>10, <1>11 DEF WorldStep

\* MailInv is kept by the world.
LEMMA WorldLeavesMail ==
    ASSUME MailInv, WorldStep PROVE MailInv'
<1>1. MailTyped
  BY DEF MailInv
<1>2. /\ UNCHANGED <<family, mailLog, pass, delivered, lost>>
      /\ clock' \in Nat /\ clock <= clock'
      /\ clock' # clock => \A p \in Passes : ~Sends(p)
      /\ person' \in PersonRows /\ (person.out => person'.out)
      /\ plan' \in PlanRows /\ plan.ends <= plan'.ends /\ plan'.storageEnd = plan.storageEnd
  BY <1>1, WorldKeeps
<1>3. MailTyped'
  BY <1>1, <1>2 DEF MailTyped
<1>4. Claimed' = Claimed /\ \A p \in Passes : /\ (FirstSend(p)' <=> FirstSend(p))
                                              /\ (Sends(p)' <=> Sends(p)) /\ (Tells(p)' <=> Tells(p))
  BY <1>2 DEF Claimed, FirstSend, Sends, Tells
<1>5. OneSender'
  BY <1>2, <1>4 DEF MailInv, OneSender, FirstSend, Sends
<1>6. \A k \in MailKeys : RowStands(k)'
  <2> SUFFICES ASSUME NEW k \in MailKeys PROVE RowStands(k)'
    OBVIOUS
  <2>1. RowStands(k)
    BY DEF MailInv
  <2> QED
    BY <1>2, <1>4, <2>1 DEF RowStands, Claimed, Tells
<1>7. \A p \in Passes : RunStands(p)' /\ TellStands(p)'
  <2> SUFFICES ASSUME NEW p \in Passes PROVE RunStands(p)' /\ TellStands(p)'
    OBVIOUS
  <2>1. RunStands(p) /\ TellStands(p)
    BY DEF MailInv
  <2>2. TellStands(p)'
    BY <1>2, <1>4, <2>1 DEF TellStands, Tells
  <2>3. ASSUME NEW k, EventOf(k)' # NoEvent, NEW now \in Int, EventOf(k) # NoEvent => EventOf(k) > now,
               NEW ends \in Int, ends = plan'.ends
        PROVE  EventOf(k)' > now
    <3>1. plan.ends \in Nat /\ plan.ends <= ends /\ plan'.storageEnd = plan.storageEnd
          /\ plan.storageEnd \in Nat /\ ends = plan'.ends
      BY <1>1, <1>2, <2>3 DEF MailTyped, PlanRows
    <3> QED
      BY <2>3, <3>1 DEF EventOf, NoEvent, Reminders
  <2>4. pass[p].now \in Int /\ plan'.ends \in Int /\ clock \in Nat
    BY <1>1, <1>2 DEF MailTyped, RunRows, PlanRows
  <2> QED
    BY <1>2, <2>1, <2>2, <2>3, <2>4 DEF RunStands, Claimed, CapOf
<1> QED
  BY <1>3, <1>5, <1>6, <1>7 DEF MailInv

\* MailInv is kept by a step of one run that touches the rows in C only: what is left to show
\* is about that run and those rows.
LEMMA OneMoves ==
    ASSUME MailInv, NEW p \in Passes, NEW C \in SUBSET MailKeys, NEW row \in RunRows,
           UNCHANGED <<family, clock, person, plan>>, pass' = [pass EXCEPT ![p] = row],
           mailLog' \in [MailKeys -> MailRows],
           delivered' \in [MailKeys -> Nat], lost' \in [MailKeys -> Nat],
           \A j \in MailKeys \ C : /\ mailLog'[j] = mailLog[j] /\ delivered'[j] = delivered[j]
                                   /\ lost'[j] = lost[j],
           \A j \in MailKeys : delivered[j] <= delivered'[j],
           \A j \in Claimed : mailLog'[j].made = mailLog[j].made,
           \A q \in Passes \ {p} : Sends(q) => pass[q].key \notin C,
           Sends(p)' => /\ row.key \in Claimed' /\ ~mailLog'[row.key].ok
                        /\ FirstSend(p)' => mailLog'[row.key].made = clock
                        /\ \A q \in Passes \ {p} : Sends(q) => pass[q].key # row.key,
           Tells(p) => pass[p].key \in C \/ (Tells(p)' /\ row.key = pass[p].key),
           RunStands(p)', TellStands(p)', \A j \in C : RowStands(j)'
    PROVE  MailInv'
<1>1. MailTyped /\ OneSender
  BY DEF MailInv
<1>2. MailTyped'
  BY <1>1 DEF MailTyped
<1>3. /\ pass'[p] = row
      /\ \A q \in Passes \ {p} : /\ pass'[q] = pass[q] /\ (Sends(q)' <=> Sends(q))
                                 /\ (FirstSend(q)' <=> FirstSend(q)) /\ (Tells(q)' <=> Tells(q))
  BY <1>1 DEF MailTyped, Sends, FirstSend, Tells
<1>4. Claimed \subseteq Claimed'
  BY DEF Claimed
<1>5. \A q \in Passes \ {p} : Sends(q) => mailLog'[pass[q].key] = mailLog[pass[q].key]
  BY <1>1 DEF OneSender, Claimed
<1>6. OneSender'
  BY <1>1, <1>3, <1>4, <1>5 DEF OneSender
<1>7. \A k \in MailKeys : RowStands(k)'
  <2> SUFFICES ASSUME NEW k \in MailKeys \ C PROVE RowStands(k)'
    OBVIOUS
  <2>1. RowStands(k) /\ mailLog'[k] = mailLog[k] /\ delivered'[k] = delivered[k] /\ lost'[k] = lost[k]
    BY DEF MailInv
  <2>2. <<"verify_1", 0>> \in MailKeys /\ delivered \in [MailKeys -> Nat]
    BY <1>1, KeyFamilies DEF MailTyped
  <2>3. delivered[<<"verify_1", 0>>] \in Nat /\ delivered'[<<"verify_1", 0>>] \in Nat
        /\ delivered[<<"verify_1", 0>>] <= delivered'[<<"verify_1", 0>>]
    BY <2>2
  <2>4. (k \in Claimed)' <=> k \in Claimed
    BY <2>1 DEF Claimed
  <2>5. ASSUME NEW q \in Passes, Tells(q), pass[q].key = k
        PROVE  Tells(q)' /\ pass'[q].key = k
    BY <1>3, <2>5
  <2> QED
    BY <2>1, <2>3, <2>4, <2>5 DEF RowStands
<1>8. \A q \in Passes : RunStands(q)' /\ TellStands(q)'
  <2> SUFFICES ASSUME NEW q \in Passes \ {p} PROVE RunStands(q)' /\ TellStands(q)'
    OBVIOUS
  <2>1. RunStands(q) /\ TellStands(q) /\ pass'[q] = pass[q]
    BY <1>3 DEF MailInv
  <2>2. Tells(q) => Sends(q)
    BY DEF Tells, Sends, FirstSend
  <2>3. TellStands(q)'
    <3>1. Tells(q) => pass[q].key \in MailKeys \ C
      BY <1>1, <2>2 DEF OneSender, Claimed
    <3> QED
      BY <1>3, <2>1, <3>1 DEF TellStands
  <2>4. pass[q].at \in {"check", "send", "resend"} => mailLog'[pass[q].key] = mailLog[pass[q].key]
    BY <1>5 DEF Sends, FirstSend
  <2>5. <<"verify_1", 0>> \in MailKeys
    BY KeyFamilies
  <2>6. delivered[<<"verify_1", 0>>] > 0 => delivered'[<<"verify_1", 0>>] > 0
    BY <1>1, <2>5 DEF MailTyped
  <2>7. \A k \in pass[q].ids : k \in Claimed' /\ mailLog'[k].made < pass[q].now
    BY <1>4, <2>1 DEF RunStands
  <2>8. \A k : EventOf(k)' = EventOf(k) /\ CapOf(k)' = CapOf(k)
    BY DEF EventOf, CapOf
  <2> QED
    BY <2>1, <2>3, <2>4, <2>6, <2>7, <2>8 DEF RunStands
<1> QED
  BY <1>2, <1>6, <1>7, <1>8 DEF MailInv

\* MailInv is kept by a step of a run that touches no row and is not about to tell one.
LEMMA RunMoves ==
    ASSUME MailInv, NEW p \in Passes, NEW row \in RunRows,
           UNCHANGED <<family, clock, person, plan, mailLog, delivered, lost>>,
           pass' = [pass EXCEPT ![p] = row], ~Tells(p), row.at \notin {"record", "rerecord"},
           Sends(p)' => /\ row.key \in Claimed /\ ~mailLog[row.key].ok
                        /\ FirstSend(p)' => mailLog[row.key].made = clock
                        /\ \A q \in Passes \ {p} : Sends(q) => pass[q].key # row.key,
           RunStands(p)'
    PROVE  MailInv'
<1>1. MailTyped
  BY DEF MailInv
<1>2. pass'[p] = row /\ Claimed' = Claimed
  BY <1>1 DEF MailTyped, Claimed
<1>3. TellStands(p)'
  BY <1>2 DEF TellStands, Tells
<1>4. \A j \in MailKeys : delivered[j] <= delivered'[j]
  BY <1>1 DEF MailTyped
<1>5. /\ mailLog' \in [MailKeys -> MailRows]
      /\ delivered' \in [MailKeys -> Nat] /\ lost' \in [MailKeys -> Nat]
  BY <1>1 DEF MailTyped
<1> DEFINE C == {}
<1>6. /\ C \in SUBSET MailKeys
      /\ \A j \in MailKeys \ C : /\ mailLog'[j] = mailLog[j] /\ delivered'[j] = delivered[j]
                                 /\ lost'[j] = lost[j]
      /\ \A j \in Claimed : mailLog'[j].made = mailLog[j].made
      /\ \A q \in Passes \ {p} : Sends(q) => pass[q].key \notin C
      /\ Tells(p) => pass[p].key \in C \/ (Tells(p)' /\ row.key = pass[p].key)
      /\ \A j \in C : RowStands(j)'
  OBVIOUS
<1>7. Sends(p)' => /\ row.key \in Claimed' /\ ~mailLog'[row.key].ok
                   /\ FirstSend(p)' => mailLog'[row.key].made = clock
                   /\ \A q \in Passes \ {p} : Sends(q) => pass[q].key # row.key
  BY <1>2
<1> HIDE DEF C
<1> QED
  BY <1>3, <1>4, <1>5, <1>6, <1>7, OneMoves

\* A run whose step is changed is a run.
LEMMA RunFields ==
    ASSUME NEW r \in RunRows, NEW at \in RunStates
    PROVE  /\ [r EXCEPT !.at = at] \in RunRows
           /\ \A n \in Int, d, o \in BOOLEAN, m \in Int :
                 [r EXCEPT !.at = at, !.now = n, !.dry = d, !.budget = m, !.outBefore = o] \in RunRows
           /\ \A k \in MailKeys, s \in 1..8 :
                 [r EXCEPT !.at = at, !.key = k, !.stage = s] \in RunRows
           /\ \A m \in Int : [r EXCEPT !.at = at, !.budget = m] \in RunRows
           /\ \A I \in SUBSET MailKeys : [r EXCEPT !.at = at, !.ids = I] \in RunRows
           /\ \A I \in SUBSET MailKeys, k \in MailKeys :
                 [r EXCEPT !.ids = I, !.key = k, !.at = at] \in RunRows
           /\ \A b \in BOOLEAN : [r EXCEPT !.at = at, !.ok = b] \in RunRows
<1>1. [r EXCEPT !.at = at] \in RunRows
  BY DEF RunRows
<1>2. \A n \in Int, d, o \in BOOLEAN, m \in Int :
         [r EXCEPT !.at = at, !.now = n, !.dry = d, !.budget = m, !.outBefore = o] \in RunRows
  BY DEF RunRows
<1>3. \A k \in MailKeys, s \in 1..8 : [r EXCEPT !.at = at, !.key = k, !.stage = s] \in RunRows
  BY DEF RunRows
<1>4. \A m \in Int : [r EXCEPT !.at = at, !.budget = m] \in RunRows
  BY DEF RunRows
<1>5. \A I \in SUBSET MailKeys : [r EXCEPT !.at = at, !.ids = I] \in RunRows
  BY DEF RunRows
<1>6. \A I \in SUBSET MailKeys, k \in MailKeys : [r EXCEPT !.ids = I, !.key = k, !.at = at] \in RunRows
  BY DEF RunRows
<1>7. \A b \in BOOLEAN : [r EXCEPT !.at = at, !.ok = b] \in RunRows
  BY DEF RunRows
<1> QED
  BY <1>1, <1>2, <1>3, <1>4, <1>5, <1>6, <1>7

\* A run that is over keeps nothing.
LEMMA NoRunIsRow ==
    /\ NoRun \in RunRows /\ NoRun.at = "idle" /\ NoRun.ids = {} /\ ~NoRun.outBefore
BY DEF NoRun, RunRows, RunStates

\* MailInv is kept by the start and the end of a run.
LEMMA StartEndStep ==
    ASSUME MailInv, NEW p \in Passes, StartRun(p) \/ EndRun(p) PROVE MailInv'
<1>0. MailTyped /\ pass[p] \in RunRows /\ clock \in Nat /\ person.out \in BOOLEAN
  BY DEF MailInv, MailTyped, PersonRows
<1>1. CASE StartRun(p)
  <2>1. PICK dry \in BOOLEAN :
           pass' = [pass EXCEPT ![p] = [NoRun EXCEPT !.at = "scan", !.now = clock, !.dry = dry,
                                          !.budget = MaxSends, !.outBefore = person.out]]
    BY <1>1 DEF StartRun
  <2> DEFINE row == [NoRun EXCEPT !.at = "scan", !.now = clock, !.dry = dry,
                                  !.budget = MaxSends, !.outBefore = person.out]
  <2>2. row \in RunRows
    <3>1. "scan" \in RunStates /\ clock \in Int /\ MaxSends \in Int
      BY <1>0, MailAssumption DEF RunStates
    <3> QED
      BY <1>0, <3>1, NoRunIsRow, RunFields
  <2>3. row.at = "scan" /\ row.now = clock /\ row.ids = {} /\ row.outBefore = person.out
    BY DEF NoRun
  <2>4. /\ pass[p].at = "idle" /\ pass' = [pass EXCEPT ![p] = row]
        /\ UNCHANGED <<family, clock, person, plan, mailLog, delivered, lost>>
    BY <1>1, <2>1 DEF StartRun, Idle, worldVars
  <2> HIDE DEF row
  <2>5. pass'[p] = row /\ ~Tells(p) /\ ~Sends(p)'
    BY <1>0, <2>3, <2>4 DEF MailTyped, Tells, Sends, FirstSend
  <2>6. RunStands(p)'
    BY <1>0, <2>3, <2>4, <2>5 DEF RunStands
  <2> QED
    BY <2>2, <2>3, <2>4, <2>5, <2>6, RunMoves
<1>2. CASE EndRun(p)
  <2>1. /\ pass[p].at = "retry" /\ pass' = [pass EXCEPT ![p] = NoRun]
        /\ UNCHANGED <<family, clock, person, plan, mailLog, delivered, lost>>
    BY <1>2 DEF EndRun, worldVars
  <2>2. pass'[p] = NoRun /\ ~Tells(p) /\ ~Sends(p)'
    BY <1>0, <2>1, NoRunIsRow DEF MailTyped, Tells, Sends, FirstSend
  <2>3. RunStands(p)'
    BY <2>1, <2>2, NoRunIsRow DEF RunStands
  <2> QED
    BY <2>1, <2>2, <2>3, NoRunIsRow, RunMoves
<1> QED
  BY <1>1, <1>2

\* A mail that is due announces what is still to come, and a second nudge follows a first
\* that is marked sent.
LEMMA CandidateDue ==
    ASSUME MailTyped, NEW k \in MailKeys, NEW now \in Int, Candidate(k, now)
    PROVE  /\ EventOf(k) # NoEvent => EventOf(k) > now
           /\ k[1] = "verify_2" => mailLog[<<"verify_1", 0>>].ok
<1>1. CASE family = "lifecycle"
  <2>1. k \in LifecycleKeys /\ LifecycleCandidate(k, now)
    BY <1>1 DEF Candidate
  <2>2. EventOf(k) = NoEvent
    BY <2>1, KeyFamilies DEF EventOf, Reminders
  <2>3. k[1] = "verify_2" => mailLog[<<"verify_1", 0>>].ok
    BY <2>1 DEF LifecycleCandidate
  <2> QED
    BY <2>2, <2>3
<1>2. CASE family # "lifecycle"
  <2>1. k \in BillingKeys /\ BillingCandidate(k, now)
    BY <1>2 DEF Candidate
  <2>2. k[1] # "verify_2"
    BY <2>1, KeyFamilies
  <2>3. EventOf(k) # NoEvent => EventOf(k) > now
    BY <2>1 DEF BillingCandidate, EventOf, Reminders
  <2> QED
    BY <2>2, <2>3
<1> QED
  BY <1>1, <1>2

\* The first stage that finds somebody is one of the schedule.
LEMMA FirstFound ==
    ASSUME NEW p \in Passes, pass[p] \in RunRows, Found(p) # {}
    PROVE  Min(Found(p)) + 1 \in 1..8
<1>1. Len(Schedule) \in 1..7
  BY DEF Schedule, Stages, Types
<1>2. pass[p].stage \in 1..8
  BY DEF RunRows
<1>3. Found(p) \subseteq pass[p].stage..Len(Schedule)
  BY DEF Found
<1> DEFINE F == Found(p)
<1> HIDE DEF F
<1>4. F \subseteq 1..7 /\ F # {}
  <2>1. PICK n \in 1..7, s \in 1..8 : n = Len(Schedule) /\ s = pass[p].stage
    BY <1>1, <1>2
  <2>2. s..n \subseteq 1..7
    OBVIOUS
  <2> QED
    BY <1>3, <2>1, <2>2 DEF F
<1>5. \E x \in F : \A y \in F : x =< y
  <2>1. CASE 1 \in F
    BY <1>4, <2>1
  <2>2. CASE 1 \notin F /\ 2 \in F
    BY <1>4, <2>2
  <2>3. CASE 1 \notin F /\ 2 \notin F /\ 3 \in F
    BY <1>4, <2>3
  <2>4. CASE 1 \notin F /\ 2 \notin F /\ 3 \notin F /\ 4 \in F
    BY <1>4, <2>4
  <2>5. CASE 1 \notin F /\ 2 \notin F /\ 3 \notin F /\ 4 \notin F
    <3>1. F \subseteq {5, 6, 7}
      BY <1>4, <2>5
    <3>2. CASE 5 \in F
      BY <3>1, <3>2
    <3>3. CASE 5 \notin F /\ 6 \in F
      BY <3>1, <3>3
    <3>4. CASE 5 \notin F /\ 6 \notin F
      <4>1. F = {7}
        BY <1>4, <3>1, <3>4
      <4> QED
        BY <4>1
    <3> QED
      BY <3>2, <3>3, <3>4
  <2> QED
    BY <2>1, <2>2, <2>3, <2>4, <2>5
<1>6. Min(F) \in F
  BY <1>5 DEF Min
<1> QED
  BY <1>4, <1>6 DEF F

\* MailInv is kept while a run looks for candidates.
LEMMA ScanStep ==
    ASSUME MailInv, NEW p \in Passes, Scan(p) \/ ScanRetries(p) PROVE MailInv'
<1>0. /\ MailTyped /\ pass[p] \in RunRows /\ clock \in Nat /\ RunStands(p)
      /\ pass[p].now \in Int /\ pass[p].at = "scan" /\ ~Tells(p) /\ pass[p].now <= clock
  BY DEF MailInv, MailTyped, RunRows, RunStands, Scan, ScanRetries, Tells
<1>1. CASE Scan(p)
  <2>1. PICK k \in MailKeys :
           /\ Candidate(k, pass[p].now)
           /\ pass' = [pass EXCEPT ![p].at = "claim", ![p].key = k,
                                   ![p].stage = Min(Found(p)) + 1]
    BY <1>1 DEF Scan
  <2>2. PICK s \in 1..8 : s = Min(Found(p)) + 1
    BY <1>0, <1>1, FirstFound DEF Scan
  <2> DEFINE row == [pass[p] EXCEPT !.at = "claim", !.key = k, !.stage = s]
  <2>3. row \in RunRows
    <3>1. "claim" \in RunStates
      BY DEF RunStates
    <3> QED
      BY <1>0, <3>1, RunFields
  <2>4. /\ row.at = "claim" /\ row.key = k /\ row.now = pass[p].now /\ row.ids = pass[p].ids
        /\ row.outBefore = pass[p].outBefore
    BY <1>0 DEF RunRows
  <2>5. /\ pass' = [pass EXCEPT ![p] = row]
        /\ UNCHANGED <<family, clock, person, plan, mailLog, delivered, lost>>
    BY <1>1, <2>1, <2>2 DEF Scan, worldVars
  <2> HIDE DEF row
  <2>6. pass'[p] = row /\ ~Sends(p)' /\ Claimed' = Claimed
    BY <1>0, <2>4, <2>5 DEF MailTyped, Sends, FirstSend, Claimed
  <2>7. /\ EventOf(k) # NoEvent => EventOf(k) > pass[p].now
        /\ k[1] = "verify_2" => mailLog[<<"verify_1", 0>>].ok
    BY <1>0, <2>1, CandidateDue
  <2>8. mailLog[<<"verify_1", 0>>].ok => delivered[<<"verify_1", 0>>] > 0
    BY KeyFamilies DEF MailInv, RowStands
  <2>9. EventOf(k)' = EventOf(k)
    BY <2>5 DEF EventOf
  <2>10. RunStands(p)'
    BY <1>0, <2>4, <2>5, <2>6, <2>7, <2>8, <2>9 DEF RunStands
  <2> QED
    BY <1>0, <2>3, <2>4, <2>5, <2>6, <2>10, RunMoves
<1>2. CASE ScanRetries(p)
  <2>1. PICK at \in {"idle", "retry"} :
           pass' = [pass EXCEPT ![p].at = at, ![p].ids = Retryable(pass[p].now)]
    BY <1>2 DEF ScanRetries
  <2> DEFINE row == [pass[p] EXCEPT !.at = at, !.ids = Retryable(pass[p].now)]
  <2>2. Retryable(pass[p].now) \subseteq MailKeys
    BY DEF Retryable, Claimed
  <2>3. row \in RunRows
    <3>1. at \in RunStates
      BY DEF RunStates
    <3> QED
      BY <1>0, <2>2, <3>1, RunFields
  <2>4. /\ row.at = at /\ row.now = pass[p].now /\ row.ids = Retryable(pass[p].now)
        /\ row.outBefore = pass[p].outBefore
    BY <1>0 DEF RunRows
  <2>5. /\ pass' = [pass EXCEPT ![p] = row]
        /\ UNCHANGED <<family, clock, person, plan, mailLog, delivered, lost>>
    BY <1>2, <2>1 DEF ScanRetries, worldVars
  <2> HIDE DEF row
  <2>6. pass'[p] = row /\ ~Sends(p)' /\ Claimed' = Claimed
    BY <1>0, <2>4, <2>5 DEF MailTyped, Sends, FirstSend, Claimed
  <2>7. \A k \in row.ids : k \in Claimed /\ mailLog[k].made < pass[p].now
    BY <2>4 DEF Retryable
  <2>8. RunStands(p)'
    BY <1>0, <2>4, <2>5, <2>6, <2>7 DEF RunStands
  <2> QED
    BY <1>0, <2>3, <2>4, <2>5, <2>6, <2>8, RunMoves
<1> QED
  BY <1>1, <1>2

\* Only what a run sends is told; one run tells of a mail.
LEMMA OneTells ==
    ASSUME MailInv, NEW p \in Passes, NEW q \in Passes, Sends(p), Tells(q), pass[q].key = pass[p].key
    PROVE  q = p
BY DEF MailInv, OneSender, Tells, Sends, FirstSend

\* MailInv is kept by a claim.
LEMMA ClaimStep ==
    ASSUME MailInv, NEW p \in Passes, Claim(p) PROVE MailInv'
<1>a. pass[p].key \in MailKeys
  BY DEF MailInv, RunStands, Claim
<1>b. PICK k \in MailKeys : k = pass[p].key
  BY <1>a
<1>0. /\ MailTyped /\ OneSender /\ pass[p] \in RunRows /\ clock \in Nat /\ RunStands(p)
      /\ pass[p].now \in Int /\ pass[p].at = "claim" /\ ~Tells(p) /\ k \in MailKeys /\ RowStands(k)
      /\ pass[p].now <= clock /\ \A i \in pass[p].ids : i \in Claimed /\ mailLog[i].made < pass[p].now
      /\ pass[p].outBefore => person.out
      /\ EventOf(k) # NoEvent => EventOf(k) > pass[p].now
      /\ k[1] = "verify_2" => delivered[<<"verify_1", 0>>] > 0
  BY <1>b DEF MailInv, MailTyped, RunRows, RunStands, Claim, Tells
<1>1. UNCHANGED <<family, clock, person, plan, delivered, lost>>
  BY DEF Claim, worldVars
<1>2. CASE k \in Claimed \/ (family = "lifecycle" /\ ~Mailable)
  <2> DEFINE row == [pass[p] EXCEPT !.at = "scan"]
  <2>1. pass' = [pass EXCEPT ![p] = row] /\ UNCHANGED mailLog
    BY <1>b, <1>2 DEF Claim, Step
  <2>2. row \in RunRows
    <3>1. "scan" \in RunStates
      BY DEF RunStates
    <3> QED
      BY <1>0, <3>1, RunFields
  <2>3. /\ row.at = "scan" /\ row.now = pass[p].now /\ row.ids = pass[p].ids
        /\ row.outBefore = pass[p].outBefore
    BY <1>0 DEF RunRows
  <2> HIDE DEF row
  <2>4. pass'[p] = row /\ ~Sends(p)' /\ Claimed' = Claimed
    BY <1>0, <2>1, <2>3 DEF MailTyped, Sends, FirstSend, Claimed
  <2>5. RunStands(p)'
    BY <1>0, <1>1, <2>1, <2>3, <2>4 DEF RunStands
  <2> QED
    BY <1>0, <1>1, <2>1, <2>2, <2>3, <2>4, <2>5, RunMoves
<1>3. CASE ~(k \in Claimed \/ (family = "lifecycle" /\ ~Mailable))
  <2>1. PICK m \in Int : pass' = [pass EXCEPT ![p].at = "check", ![p].budget = m]
    <3>1. pass[p].budget \in Int /\ pass[p].budget - 1 \in Int
      BY <1>0 DEF RunRows
    <3> QED
      BY <1>b, <1>3, <3>1 DEF Claim
  <2> DEFINE row   == [pass[p] EXCEPT !.at = "check", !.budget = m]
             entry == [NoRow EXCEPT !.made = clock, !.event = EventOf(k)]
  <2>2. pass' = [pass EXCEPT ![p] = row] /\ mailLog' = [mailLog EXCEPT ![k] = entry]
    BY <1>b, <1>3, <2>1 DEF Claim
  <2>3. row \in RunRows
    <3>1. "check" \in RunStates
      BY DEF RunStates
    <3> QED
      BY <1>0, <3>1, RunFields
  <2>4. /\ row.at = "check" /\ row.now = pass[p].now /\ row.ids = pass[p].ids /\ row.key = k
        /\ row.outBefore = pass[p].outBefore
    BY <1>0, <1>b DEF RunRows
  <2>5. EventOf(k) \in Int
    BY <1>0 DEF MailTyped, PlanRows, EventOf, NoEvent
  <2>6. /\ entry.made = clock /\ ~entry.ok /\ entry.attempts = 0 /\ entry.event = EventOf(k)
        /\ entry \in MailRows
    <3>1. NoRow \in MailRows /\ ~NoRow.ok /\ NoRow.attempts = 0
      BY DEF NoRow, MailRows, None, NoEvent
    <3>2. PICK e \in Int, m0 \in Int : e = EventOf(k) /\ m0 = clock
      BY <1>0, <2>5
    <3> QED
      BY <3>1, <3>2 DEF MailRows
  <2> HIDE DEF row, entry
  <2>7. /\ pass'[p] = row /\ Sends(p)' /\ FirstSend(p)' /\ ~Tells(p)'
        /\ mailLog'[k] = entry /\ \A j \in MailKeys \ {k} : mailLog'[j] = mailLog[j]
    BY <1>0, <2>2, <2>4 DEF MailTyped, Sends, FirstSend, Tells
  <2>8. k \notin Claimed /\ (family = "lifecycle" => ~person.out)
    BY <1>3 DEF Mailable
  <2>9. Claimed' = Claimed \cup {k}
    BY <1>0, <2>6, <2>7 DEF Claimed
  <2>10. \A q \in Passes : /\ Sends(q) => pass[q].key # k
                           /\ Tells(q) => pass[q].key # k
    BY <1>0, <2>8 DEF OneSender, Tells, Sends, FirstSend
  <2>11. /\ \A i \in pass[p].ids : i \in Claimed' /\ mailLog'[i].made < pass[p].now
         /\ \A j \in Claimed : mailLog'[j].made = mailLog[j].made
    BY <1>0, <2>7, <2>8, <2>9 DEF Claimed
  <2>12. RunStands(p)'
    <3>1. CapOf(k)' = CapOf(k) /\ CapOf(k) > 0
      BY <1>0, KeyFamilies DEF CapOf
    <3> QED
      BY <1>0, <1>1, <2>4, <2>6, <2>7, <2>8, <2>11, <3>1 DEF RunStands
  <2>13. RowStands(k)'
    <3>1. delivered[k] <= lost[k]
      BY <1>0, <2>8, <2>10 DEF RowStands
    <3> QED
      BY <1>0, <1>1, <2>6, <2>7, <3>1 DEF RowStands
  <2>14. /\ mailLog' \in [MailKeys -> MailRows]
         /\ delivered' \in [MailKeys -> Nat] /\ lost' \in [MailKeys -> Nat]
         /\ \A j \in MailKeys : delivered[j] <= delivered'[j]
    BY <1>0, <1>1, <2>2, <2>6 DEF MailTyped
  <2> DEFINE C == {k}
  <2>15. /\ C \in SUBSET MailKeys
         /\ \A j \in MailKeys \ C : /\ mailLog'[j] = mailLog[j] /\ delivered'[j] = delivered[j]
                                    /\ lost'[j] = lost[j]
         /\ \A q \in Passes \ {p} : Sends(q) => pass[q].key \notin C
         /\ Tells(p) => pass[p].key \in C \/ (Tells(p)' /\ row.key = pass[p].key)
         /\ \A j \in C : RowStands(j)'
    BY <1>0, <1>b, <1>1, <2>7, <2>10, <2>13
  <2>16. TellStands(p)'
    BY <2>7 DEF TellStands
  <2>17. Sends(p)' => /\ row.key \in Claimed' /\ ~mailLog'[row.key].ok
                      /\ FirstSend(p)' => mailLog'[row.key].made = clock
                      /\ \A q \in Passes \ {p} : Sends(q) => pass[q].key # row.key
    BY <2>4, <2>6, <2>7, <2>9, <2>10
  <2> HIDE DEF C
  <2> QED
    BY <1>1, <2>2, <2>3, <2>11, <2>12, <2>14, <2>15, <2>16, <2>17, OneMoves
<1> QED
  BY <1>2, <1>3

\* MailInv is kept when a run leaves a row it was at, or finds it sent, over or locked: what
\* the row says of delivery stays, and the run retries or scans on.
LEMMA RowLeft ==
    ASSUME MailInv, NEW p \in Passes, NEW k \in Claimed, NEW row \in RunRows, NEW entry \in MailRows,
           UNCHANGED <<family, clock, person, plan, delivered, lost>>,
           pass' = [pass EXCEPT ![p] = row], mailLog' = [mailLog EXCEPT ![k] = entry],
           ~Tells(p), row.at \in {"scan", "retry"}, row.now = pass[p].now,
           row.ids \subseteq pass[p].ids, row.outBefore = pass[p].outBefore, pass[p].at # "idle",
           entry.made = mailLog[k].made, entry.ok = mailLog[k].ok,
           \A q \in Passes \ {p} : Sends(q) => pass[q].key # k
    PROVE  MailInv'
<1>0. /\ MailTyped /\ OneSender /\ k \in MailKeys /\ RowStands(k) /\ RunStands(p)
  BY DEF MailInv, Claimed
<1>1. /\ pass'[p] = row /\ ~Sends(p)' /\ ~Tells(p)'
      /\ mailLog'[k] = entry /\ \A j \in MailKeys \ {k} : mailLog'[j] = mailLog[j]
      /\ \A q \in Passes \ {p} : pass'[q] = pass[q]
  BY <1>0 DEF MailTyped, Sends, FirstSend, Tells
<1>2. Claimed' = Claimed /\ \A j \in Claimed : mailLog'[j].made = mailLog[j].made
  BY <1>0, <1>1 DEF Claimed
<1>3. RunStands(p)'
  BY <1>0, <1>1, <1>2 DEF RunStands, Claimed
<1>4. TellStands(p)'
  BY <1>1 DEF TellStands
<1>5. RowStands(k)'
  <2>1. \A q \in Passes : Tells(q) => Tells(q)' /\ pass'[q].key = pass[q].key
    BY <1>1 DEF Tells
  <2> QED
    BY <1>0, <1>1, <1>2, <2>1 DEF RowStands
<1>6. /\ mailLog' \in [MailKeys -> MailRows]
      /\ delivered' \in [MailKeys -> Nat] /\ lost' \in [MailKeys -> Nat]
      /\ \A j \in MailKeys : delivered[j] <= delivered'[j]
  BY <1>0 DEF MailTyped
<1> DEFINE C == {k}
<1>7. /\ C \in SUBSET MailKeys
      /\ \A j \in MailKeys \ C : /\ mailLog'[j] = mailLog[j] /\ delivered'[j] = delivered[j]
                                 /\ lost'[j] = lost[j]
      /\ \A q \in Passes \ {p} : Sends(q) => pass[q].key \notin C
      /\ Tells(p) => pass[p].key \in C \/ (Tells(p)' /\ row.key = pass[p].key)
      /\ \A j \in C : RowStands(j)'
  BY <1>0, <1>1, <1>5
<1>8. Sends(p)' => /\ row.key \in Claimed' /\ ~mailLog'[row.key].ok
                   /\ FirstSend(p)' => mailLog'[row.key].made = clock
                   /\ \A q \in Passes \ {p} : Sends(q) => pass[q].key # row.key
  BY <1>1
<1> HIDE DEF C
<1> QED
  BY <1>2, <1>3, <1>4, <1>6, <1>7, <1>8, OneMoves

\* A row that is given up, or counts an attempt, is a row.
LEMMA RowFields ==
    ASSUME NEW r \in MailRows
    PROVE  /\ \A e \in {None, "dry_run", "cleared", "expired"} :
                 /\ [r EXCEPT !.err = e] \in MailRows
                 /\ \A n \in Int : [r EXCEPT !.attempts = n, !.err = e] \in MailRows
           /\ \A b \in BOOLEAN, n \in Int : [r EXCEPT !.ok = b, !.attempts = n] \in MailRows
<1>1. \A e \in {None, "dry_run", "cleared", "expired"} :
         /\ [r EXCEPT !.err = e] \in MailRows
         /\ \A n \in Int : [r EXCEPT !.attempts = n, !.err = e] \in MailRows
  BY DEF MailRows
<1>2. \A b \in BOOLEAN, n \in Int : [r EXCEPT !.ok = b, !.attempts = n] \in MailRows
  BY DEF MailRows
<1> QED
  BY <1>1, <1>2

\* MailInv is kept between the claim and the send.
LEMMA RecheckStep ==
    ASSUME MailInv, NEW p \in Passes, Recheck(p) PROVE MailInv'
<1>0. /\ MailTyped /\ OneSender /\ pass[p] \in RunRows /\ RunStands(p) /\ pass[p].at = "check"
      /\ Sends(p) /\ FirstSend(p) /\ ~Tells(p) /\ pass[p].key \in Claimed
      /\ UNCHANGED <<family, clock, person, plan, delivered, lost>>
  BY DEF MailInv, MailTyped, OneSender, Recheck, worldVars, Sends, FirstSend, Tells
<1>1. PICK k \in Claimed : k = pass[p].key
  BY <1>0
<1>2. /\ k \in MailKeys /\ mailLog[k] \in MailRows /\ ~mailLog[k].ok /\ mailLog[k].made = clock
      /\ \A q \in Passes \ {p} : Sends(q) => pass[q].key # k
  BY <1>0, <1>1 DEF Claimed, MailTyped, OneSender
<1>3. CASE Step(p, "scan") /\ \E e \in {"dry_run", "cleared"} :
              \/ mailLog' = [mailLog EXCEPT ![k].err = e]
              \/ mailLog' = [mailLog EXCEPT ![k].attempts = RetryCap, ![k].err = e]
  <2> DEFINE row == [pass[p] EXCEPT !.at = "scan"]
  <2>1. row \in RunRows
    <3>1. "scan" \in RunStates
      BY DEF RunStates
    <3> QED
      BY <1>0, <3>1, RunFields
  <2>2. /\ row.at = "scan" /\ row.now = pass[p].now /\ row.ids = pass[p].ids
        /\ row.outBefore = pass[p].outBefore /\ pass' = [pass EXCEPT ![p] = row]
    BY <1>0, <1>3 DEF RunRows, Step
  <2> HIDE DEF row
  <2>3. PICK e \in {"dry_run", "cleared"} :
              \/ mailLog' = [mailLog EXCEPT ![k].err = e]
              \/ mailLog' = [mailLog EXCEPT ![k].attempts = RetryCap, ![k].err = e]
    BY <1>3
  <2>4. PICK entry \in MailRows :
              /\ mailLog' = [mailLog EXCEPT ![k] = entry]
              /\ entry.made = mailLog[k].made /\ entry.ok = mailLog[k].ok
    <3> DEFINE one == [mailLog[k] EXCEPT !.err = e]
               two == [mailLog[k] EXCEPT !.attempts = RetryCap, !.err = e]
    <3>1. one \in MailRows /\ two \in MailRows
      <4>1. e \in {None, "dry_run", "cleared", "expired"} /\ RetryCap \in Int
        BY MailAssumption
      <4> QED
        BY <1>2, <4>1, RowFields
    <3>2. /\ one.made = mailLog[k].made /\ one.ok = mailLog[k].ok
          /\ two.made = mailLog[k].made /\ two.ok = mailLog[k].ok
      BY <1>2 DEF MailRows
    <3>3. mailLog' = [mailLog EXCEPT ![k] = one] \/ mailLog' = [mailLog EXCEPT ![k] = two]
      BY <2>3
    <3> HIDE DEF one, two
    <3> QED
      BY <3>1, <3>2, <3>3
  <2>5. row.ids \subseteq pass[p].ids /\ row.at \in {"scan", "retry"} /\ pass[p].at # "idle"
    BY <1>0, <2>2
  <2> QED
    BY <1>0, <1>2, <2>1, <2>2, <2>4, <2>5, RowLeft
<1>4. CASE Step(p, "send") /\ UNCHANGED mailLog
  <2> DEFINE row == [pass[p] EXCEPT !.at = "send"]
  <2>1. row \in RunRows
    <3>1. "send" \in RunStates
      BY DEF RunStates
    <3> QED
      BY <1>0, <3>1, RunFields
  <2>2. /\ row.at = "send" /\ row.now = pass[p].now /\ row.ids = pass[p].ids /\ row.key = k
        /\ row.outBefore = pass[p].outBefore /\ pass' = [pass EXCEPT ![p] = row]
    BY <1>0, <1>1, <1>4 DEF RunRows, Step
  <2> HIDE DEF row
  <2>3. pass'[p] = row /\ Claimed' = Claimed /\ CapOf(k)' = CapOf(k)
    BY <1>0, <1>4, <2>2 DEF MailTyped, Claimed, CapOf
  <2>4. RunStands(p)'
    BY <1>0, <1>1, <1>2, <1>4, <2>2, <2>3 DEF RunStands
  <2>5. Sends(p)' => /\ row.key \in Claimed /\ ~mailLog[row.key].ok
                     /\ FirstSend(p)' => mailLog[row.key].made = clock
                     /\ \A q \in Passes \ {p} : Sends(q) => pass[q].key # row.key
    BY <1>2, <2>2
  <2>6. row.at \notin {"record", "rerecord"}
    BY <2>2
  <2> QED
    BY <1>0, <1>4, <2>1, <2>2, <2>4, <2>5, <2>6, RunMoves
<1> QED
  BY <1>1, <1>3, <1>4 DEF Recheck

\* MailInv is kept by a send, whether it arrives and whether the answer does.
LEMMA SendStep ==
    ASSUME MailInv, NEW p \in Passes, Send(p) \/ Resend(p) PROVE MailInv'
<1>0. /\ MailTyped /\ OneSender /\ pass[p] \in RunRows /\ RunStands(p)
      /\ pass[p].at \in {"send", "resend"} /\ Sends(p) /\ ~Tells(p) /\ pass[p].key \in Claimed
  BY DEF MailInv, MailTyped, OneSender, Send, Resend, Sends, FirstSend, Tells
<1>1. PICK k \in Claimed : k = pass[p].key
  BY <1>0
<1>2. /\ k \in MailKeys /\ ~mailLog[k].ok /\ RowStands(k)
      /\ \A q \in Passes \ {p} : Sends(q) => pass[q].key # k
      /\ FirstSend(p) => mailLog[k].made = clock
      /\ delivered[k] \in Nat /\ lost[k] \in Nat
  BY <1>0, <1>1 DEF Claimed, MailTyped, OneSender, MailInv
<1>3. delivered[k] <= lost[k]
  <2>1. \A q \in Passes : Tells(q) => pass[q].key # k
    BY <1>0, <1>1, OneTells
  <2> QED
    BY <1>2, <2>1 DEF RowStands
<1>4. PICK next \in {"record", "rerecord"} :
         SendTo(p, next) /\ (next = "record" => pass[p].at = "send")
  BY <1>0 DEF Send, Resend
<1>5. PICK n \in {0, 1}, m \in {0, 1}, ok \in BOOLEAN :
         /\ m <= n /\ (ok => n = 1 /\ m = 0) /\ (~ok => m = n)
         /\ delivered' = [delivered EXCEPT ![k] = @ + n] /\ lost' = [lost EXCEPT ![k] = @ + m]
         /\ pass' = [pass EXCEPT ![p].at = next, ![p].ok = ok]
         /\ UNCHANGED <<family, clock, person, plan, mailLog>>
  <2>1. PICK arrived \in BOOLEAN, ok \in BOOLEAN :
          /\ ok => arrived
          /\ delivered' = [delivered EXCEPT ![k] = @ + IF arrived THEN 1 ELSE 0]
          /\ lost' = [lost EXCEPT ![k] = @ + IF arrived /\ ~ok THEN 1 ELSE 0]
          /\ pass' = [pass EXCEPT ![p].at = next, ![p].ok = ok]
          /\ UNCHANGED <<family, clock, person, plan, mailLog>>
    BY <1>1, <1>4 DEF SendTo, worldVars
  <2>2. PICK n \in {0, 1}, m \in {0, 1} : /\ n = (IF arrived THEN 1 ELSE 0)
                                           /\ m = (IF arrived /\ ~ok THEN 1 ELSE 0)
    OBVIOUS
  <2>3. m <= n /\ (ok => n = 1 /\ m = 0) /\ (~ok => m = n)
    BY <2>1, <2>2
  <2> QED
    BY <2>1, <2>2, <2>3
<1> DEFINE row == [pass[p] EXCEPT !.at = next, !.ok = ok]
<1>6. row \in RunRows
  <2>1. next \in RunStates
    BY DEF RunStates
  <2> QED
    BY <1>0, <2>1, RunFields
<1>7. /\ row.at = next /\ row.now = pass[p].now /\ row.ids = pass[p].ids /\ row.key = k
      /\ row.outBefore = pass[p].outBefore /\ row.ok = ok /\ pass' = [pass EXCEPT ![p] = row]
  BY <1>0, <1>1, <1>5 DEF RunRows
<1> HIDE DEF row
<1>8. /\ pass'[p] = row /\ Claimed' = Claimed /\ (Tells(p)' <=> ok)
      /\ \A q \in Passes \ {p} : pass'[q] = pass[q]
      /\ FirstSend(p)' => FirstSend(p)
  BY <1>0, <1>4, <1>5, <1>7 DEF MailTyped, Claimed, Tells, FirstSend
<1>9. /\ delivered'[k] = delivered[k] + n /\ lost'[k] = lost[k] + m
      /\ delivered' \in [MailKeys -> Nat] /\ lost' \in [MailKeys -> Nat]
      /\ \A j \in MailKeys \ {k} : delivered'[j] = delivered[j] /\ lost'[j] = lost[j]
      /\ \A j \in MailKeys : delivered[j] <= delivered'[j]
  BY <1>0, <1>2, <1>5 DEF MailTyped
<1>10. TellStands(p)'
  <2>1. ok => delivered'[k] > 0 /\ delivered'[k] <= lost'[k] + 1
    BY <1>2, <1>3, <1>5, <1>9
  <2> QED
    BY <1>7, <1>8, <2>1 DEF TellStands
<1>11. RunStands(p)'
  BY <1>0, <1>1, <1>2, <1>5, <1>7, <1>8 DEF RunStands
<1>12. RowStands(k)'
  <2>1. k[1] = "verify_2" => delivered'[<<"verify_1", 0>>] > 0
    <3>1. <<"verify_1", 0>> \in MailKeys /\ (k[1] = "verify_2" => delivered[<<"verify_1", 0>>] > 0)
      BY <1>2, KeyFamilies DEF RowStands
    <3>2. delivered[<<"verify_1", 0>>] \in Nat /\ delivered'[<<"verify_1", 0>>] \in Nat
          /\ delivered[<<"verify_1", 0>>] <= delivered'[<<"verify_1", 0>>]
      BY <1>0, <1>9, <3>1 DEF MailTyped
    <3> QED
      BY <3>1, <3>2
  <2>2. ~ok => delivered'[k] <= lost'[k]
    BY <1>2, <1>3, <1>5, <1>9
  <2>3. ok => Tells(p)' /\ pass'[p].key = k
    BY <1>7, <1>8
  <2> QED
    BY <1>2, <1>5, <2>1, <2>2, <2>3 DEF RowStands
<1> DEFINE C == {k}
<1>13. /\ C \in SUBSET MailKeys /\ mailLog' \in [MailKeys -> MailRows]
       /\ \A j \in MailKeys \ C : /\ mailLog'[j] = mailLog[j] /\ delivered'[j] = delivered[j]
                                  /\ lost'[j] = lost[j]
       /\ \A j \in Claimed : mailLog'[j].made = mailLog[j].made
       /\ \A q \in Passes \ {p} : Sends(q) => pass[q].key \notin C
       /\ Tells(p) => pass[p].key \in C \/ (Tells(p)' /\ row.key = pass[p].key)
       /\ \A j \in C : RowStands(j)'
  BY <1>0, <1>2, <1>5, <1>9, <1>12 DEF MailTyped
<1>14. Sends(p)' => /\ row.key \in Claimed' /\ ~mailLog'[row.key].ok
                    /\ FirstSend(p)' => mailLog'[row.key].made = clock
                    /\ \A q \in Passes \ {p} : Sends(q) => pass[q].key # row.key
  BY <1>2, <1>5, <1>7, <1>8
<1> HIDE DEF C
<1> QED
  BY <1>5, <1>6, <1>7, <1>9, <1>10, <1>11, <1>13, <1>14, OneMoves

\* MailInv is kept when a run records what it was told.
LEMMA RecordStep ==
    ASSUME MailInv, NEW p \in Passes, Record(p) \/ Rerecord(p) PROVE MailInv'
<1>0. /\ MailTyped /\ OneSender /\ pass[p] \in RunRows /\ RunStands(p) /\ TellStands(p)
      /\ pass[p].at \in {"record", "rerecord"} /\ Sends(p) /\ (Tells(p) <=> pass[p].ok)
      /\ pass[p].key \in Claimed
  BY DEF MailInv, MailTyped, OneSender, Record, Rerecord, Sends, FirstSend, Tells
<1>1. PICK k \in Claimed : k = pass[p].key
  BY <1>0
<1>2. /\ k \in MailKeys /\ mailLog[k] \in MailRows /\ ~mailLog[k].ok /\ RowStands(k)
      /\ \A q \in Passes \ {p} : Sends(q) => pass[q].key # k
      /\ delivered[k] \in Nat /\ lost[k] \in Nat
  BY <1>0, <1>1 DEF Claimed, MailTyped, OneSender, MailInv
<1>3. \A q \in Passes \ {p} : Tells(q) => pass[q].key # k
  BY <1>0, <1>1, OneTells
<1>4. PICK next \in {"scan", "retry"} : Recorded(p, next)
  BY DEF Record, Rerecord
<1> DEFINE row   == [pass[p] EXCEPT !.at = next]
           entry == [mailLog[k] EXCEPT !.ok = pass[p].ok, !.attempts = @ + 1]
<1>5. row \in RunRows
  <2>1. next \in RunStates
    BY DEF RunStates
  <2> QED
    BY <1>0, <2>1, RunFields
<1>6. /\ row.at = next /\ row.now = pass[p].now /\ row.ids = pass[p].ids
      /\ row.outBefore = pass[p].outBefore /\ pass' = [pass EXCEPT ![p] = row]
  BY <1>0, <1>4 DEF RunRows, Recorded, Step
<1>7. entry \in MailRows
  <2>1. mailLog[k].attempts + 1 \in Int /\ pass[p].ok \in BOOLEAN
    BY <1>0, <1>2 DEF MailRows, RunRows
  <2> QED
    BY <1>2, <2>1, RowFields
<1>8. entry.made = mailLog[k].made /\ entry.ok = pass[p].ok
  BY <1>2 DEF MailRows
<1>9. /\ mailLog' = [mailLog EXCEPT ![k] = entry]
      /\ UNCHANGED <<family, clock, person, plan, delivered, lost>>
  BY <1>1, <1>4 DEF Recorded, worldVars
<1> HIDE DEF row, entry
<1>10. /\ pass'[p] = row /\ ~Sends(p)' /\ ~Tells(p)'
       /\ mailLog'[k] = entry /\ \A j \in MailKeys \ {k} : mailLog'[j] = mailLog[j]
       /\ mailLog' \in [MailKeys -> MailRows]
  BY <1>0, <1>2, <1>6, <1>7, <1>9 DEF MailTyped, Sends, FirstSend, Tells
<1>11. Claimed' = Claimed /\ \A j \in Claimed : mailLog'[j].made = mailLog[j].made
  BY <1>2, <1>8, <1>10 DEF Claimed
<1>12. RunStands(p)'
  BY <1>0, <1>6, <1>9, <1>10, <1>11 DEF RunStands, Claimed
<1>13. TellStands(p)'
  BY <1>10 DEF TellStands
<1>14. RowStands(k)'
  <2>1. pass[p].ok => delivered[k] > 0
    BY <1>0, <1>1 DEF TellStands
  <2>2. ~pass[p].ok => delivered[k] <= lost[k]
    BY <1>0, <1>2, <1>3 DEF RowStands
  <2> QED
    BY <1>1, <1>2, <1>8, <1>9, <1>10, <1>11, <2>1, <2>2 DEF RowStands
<1> DEFINE C == {k}
<1>15. /\ C \in SUBSET MailKeys
       /\ delivered' \in [MailKeys -> Nat] /\ lost' \in [MailKeys -> Nat]
       /\ \A j \in MailKeys : delivered[j] <= delivered'[j]
       /\ \A j \in MailKeys \ C : /\ mailLog'[j] = mailLog[j] /\ delivered'[j] = delivered[j]
                                  /\ lost'[j] = lost[j]
       /\ \A q \in Passes \ {p} : Sends(q) => pass[q].key \notin C
       /\ Tells(p) => pass[p].key \in C \/ (Tells(p)' /\ row.key = pass[p].key)
       /\ \A j \in C : RowStands(j)'
  BY <1>0, <1>1, <1>2, <1>9, <1>10, <1>14 DEF MailTyped
<1>16. Sends(p)' => /\ row.key \in Claimed' /\ ~mailLog'[row.key].ok
                    /\ FirstSend(p)' => mailLog'[row.key].made = clock
                    /\ \A q \in Passes \ {p} : Sends(q) => pass[q].key # row.key
  BY <1>10
<1> HIDE DEF C
<1> QED
  BY <1>5, <1>6, <1>9, <1>10, <1>11, <1>12, <1>13, <1>15, <1>16, OneMoves

\* MailInv is kept when a run takes up a row to send it again, or drops it.
LEMMA RetryStep ==
    ASSUME MailInv, NEW p \in Passes, Retry(p) PROVE MailInv'
<1>0. /\ MailTyped /\ OneSender /\ pass[p] \in RunRows /\ RunStands(p)
      /\ pass[p].at = "retry" /\ ~Sends(p) /\ ~Tells(p)
      /\ \A i \in pass[p].ids : i \in Claimed /\ mailLog[i].made < pass[p].now
      /\ pass[p].now <= clock /\ pass[p].now \in Int /\ clock \in Nat
      /\ pass[p].ids \in SUBSET MailKeys
      /\ UNCHANGED <<family, clock, person, plan, delivered, lost>>
  BY DEF MailInv, MailTyped, RunRows, RunStands, Retry, worldVars, Sends, FirstSend, Tells
<1>1. PICK k \in pass[p].ids :
        LET skip  == Locked(k) \/ mailLog[k].ok \/ mailLog[k].attempts >= CapOf(k)
            over  == ~RecheckHolds(k) \/ Expired(k, pass[p].now)
        IN  /\ mailLog' = IF skip \/ ~over THEN mailLog
                          ELSE [mailLog EXCEPT ![k].attempts = CapOf(k),
                                   ![k].err = IF RecheckHolds(k) THEN "expired" ELSE "cleared"]
            /\ pass' = [pass EXCEPT ![p].ids = @ \ {k}, ![p].key = k,
                           ![p].at = IF skip \/ over THEN "retry" ELSE "resend"]
  BY DEF Retry
<1> DEFINE skip == Locked(k) \/ mailLog[k].ok \/ mailLog[k].attempts >= CapOf(k)
           over == ~RecheckHolds(k) \/ Expired(k, pass[p].now)
           I    == pass[p].ids \ {k}
<1>2. /\ k \in Claimed /\ k \in MailKeys /\ mailLog[k] \in MailRows /\ mailLog[k].made < clock
      /\ mailLog[k].made \in Int /\ mailLog[k].attempts \in Int /\ I \in SUBSET MailKeys
  BY <1>0 DEF MailTyped, Claimed, MailRows
<1>3. \A q \in Passes \ {p} : Sends(q) /\ pass[q].key = k => Locked(k)
  <2> SUFFICES ASSUME NEW q \in Passes \ {p}, Sends(q), pass[q].key = k PROVE Locked(k)
    OBVIOUS
  <2>1. ~FirstSend(q)
    BY <1>0, <1>2 DEF OneSender
  <2> QED
    BY <2>1 DEF Locked, Sends
<1>4. \A at \in RunStates : [pass[p] EXCEPT !.ids = I, !.key = k, !.at = at] \in RunRows
  BY <1>0, <1>2, RunFields
<1>5. \A at \in RunStates :
         LET row == [pass[p] EXCEPT !.ids = I, !.key = k, !.at = at]
         IN  /\ row.at = at /\ row.now = pass[p].now /\ row.ids = I /\ row.key = k
             /\ row.outBefore = pass[p].outBefore
  BY <1>0 DEF RunRows
<1>6. CASE skip \/ over
  <2> DEFINE row == [pass[p] EXCEPT !.ids = I, !.key = k, !.at = "retry"]
  <2>1. "retry" \in RunStates
    BY DEF RunStates
  <2>2. /\ row \in RunRows /\ row.at = "retry" /\ row.now = pass[p].now /\ row.ids = I
        /\ row.outBefore = pass[p].outBefore /\ pass' = [pass EXCEPT ![p] = row]
    BY <1>1, <1>4, <1>5, <1>6, <2>1
  <2> HIDE DEF row
  <2>3. CASE skip
    <3>1. UNCHANGED mailLog
      BY <1>1, <2>3
    <3>2. pass'[p] = row /\ ~Sends(p)' /\ Claimed' = Claimed
      BY <1>0, <2>2, <3>1 DEF MailTyped, Sends, FirstSend, Claimed
    <3>3. RunStands(p)'
      BY <1>0, <2>2, <3>1, <3>2 DEF RunStands
    <3>4. row.at \notin {"record", "rerecord"}
      BY <2>2
    <3> QED
      BY <1>0, <2>2, <3>1, <3>2, <3>3, <3>4, RunMoves
  <2>4. CASE ~skip
    <3> DEFINE entry == [mailLog[k] EXCEPT !.attempts = CapOf(k),
                              !.err = IF RecheckHolds(k) THEN "expired" ELSE "cleared"]
    <3>1. mailLog' = [mailLog EXCEPT ![k] = entry]
      BY <1>1, <1>6, <2>4
    <3>2. entry \in MailRows
      <4>1. CapOf(k) \in Int
        BY <1>2, KeyFamilies
      <4>2. PICK e \in {None, "dry_run", "cleared", "expired"} :
               e = IF RecheckHolds(k) THEN "expired" ELSE "cleared"
        OBVIOUS
      <4> QED
        BY <1>2, <4>1, <4>2, RowFields
    <3>3. entry.made = mailLog[k].made /\ entry.ok = mailLog[k].ok
      BY <1>2 DEF MailRows
    <3> HIDE DEF entry
    <3>4. \A q \in Passes \ {p} : Sends(q) => pass[q].key # k
      BY <1>3, <2>4
    <3>5. row.at \in {"scan", "retry"} /\ row.ids \subseteq pass[p].ids /\ pass[p].at # "idle"
      BY <1>0, <2>2
    <3> QED
      BY <1>0, <1>2, <2>2, <3>1, <3>2, <3>3, <3>4, <3>5, RowLeft
  <2> QED
    BY <2>3, <2>4
<1>7. CASE ~(skip \/ over)
  <2> DEFINE row == [pass[p] EXCEPT !.ids = I, !.key = k, !.at = "resend"]
  <2>1. "resend" \in RunStates
    BY DEF RunStates
  <2>2. /\ row \in RunRows /\ row.at = "resend" /\ row.now = pass[p].now /\ row.ids = I
        /\ row.key = k /\ row.outBefore = pass[p].outBefore
        /\ pass' = [pass EXCEPT ![p] = row] /\ UNCHANGED mailLog
    BY <1>1, <1>4, <1>5, <1>7, <2>1
  <2>3. /\ \A i \in row.ids : i \in Claimed /\ mailLog[i].made < pass[p].now
        /\ \A q \in Passes \ {p} : Sends(q) => pass[q].key # k
    BY <1>0, <1>3, <1>7, <2>2
  <2>4. /\ ~mailLog[k].ok /\ mailLog[k].attempts < CapOf(k)
        /\ family = "lifecycle" => ~pass[p].outBefore
        /\ mailLog[k].event # NoEvent => mailLog[k].event > pass[p].now
    <3>1. CapOf(k) \in Int /\ mailLog[k].event \in Int
      BY <1>2, KeyFamilies DEF MailRows
    <3>2. family = "lifecycle" => ~pass[p].outBefore
      BY <1>0, <1>7 DEF RecheckHolds, Mailable, RunStands
    <3>3. mailLog[k].event # NoEvent => mailLog[k].event > pass[p].now
      BY <1>0, <1>7, <3>1 DEF Expired
    <3> QED
      BY <1>2, <1>7, <3>1, <3>2, <3>3
  <2> HIDE DEF row, skip, over, I
  <2>5. pass'[p] = row /\ ~FirstSend(p)' /\ Claimed' = Claimed /\ CapOf(k)' = CapOf(k)
    BY <1>0, <2>2 DEF MailTyped, FirstSend, Claimed, CapOf
  <2>6. RunStands(p)'
    BY <1>0, <1>2, <2>2, <2>3, <2>4, <2>5 DEF RunStands
  <2>7. Sends(p)' => /\ row.key \in Claimed /\ ~mailLog[row.key].ok
                     /\ FirstSend(p)' => mailLog[row.key].made = clock
                     /\ \A q \in Passes \ {p} : Sends(q) => pass[q].key # row.key
    BY <1>2, <2>2, <2>3, <2>4, <2>5
  <2>8. row.at \notin {"record", "rerecord"}
    BY <2>2
  <2> QED
    BY <1>0, <2>2, <2>6, <2>7, <2>8, RunMoves
<1> QED
  BY <1>6, <1>7

\* MailInv is kept when a run is killed: what it was told is lost with it.
LEMMA CrashStep ==
    ASSUME MailInv, NEW p \in Passes, CrashRun(p) PROVE MailInv'
<1>0. /\ MailTyped /\ OneSender /\ pass[p] \in RunRows /\ TellStands(p)
      /\ pass' = [pass EXCEPT ![p] = NoRun] /\ UNCHANGED <<family, clock, person, plan, mailLog, delivered>>
      /\ lost' = IF Tells(p) THEN [lost EXCEPT ![pass[p].key] = @ + 1] ELSE lost
  BY DEF MailInv, MailTyped, CrashRun, worldVars, Tells
<1>1. pass'[p] = NoRun /\ ~Sends(p)' /\ ~Tells(p)' /\ Claimed' = Claimed
  BY <1>0, NoRunIsRow DEF MailTyped, Sends, FirstSend, Tells, Claimed
<1>2. RunStands(p)'
  BY <1>1, NoRunIsRow DEF RunStands
<1>3. CASE ~Tells(p)
  <2>1. NoRun.at \notin {"record", "rerecord"}
    BY NoRunIsRow
  <2> QED
    BY <1>0, <1>1, <1>2, <1>3, <2>1, NoRunIsRow, RunMoves
<1>4. CASE Tells(p)
  <2>1. Sends(p) /\ pass[p].key \in Claimed
    BY <1>0, <1>4 DEF Tells, Sends, FirstSend, OneSender
  <2>2. PICK k \in Claimed : k = pass[p].key
    BY <2>1
  <2>3. /\ k \in MailKeys /\ RowStands(k) /\ delivered[k] \in Nat /\ lost[k] \in Nat
        /\ ~mailLog[k].ok /\ \A q \in Passes \ {p} : Sends(q) => pass[q].key # k
        /\ delivered[k] <= lost[k] + 1
    BY <1>0, <1>4, <2>1, <2>2 DEF MailInv, MailTyped, Claimed, OneSender, TellStands
  <2>4. /\ lost' = [lost EXCEPT ![k] = @ + 1] /\ lost'[k] = lost[k] + 1
        /\ \A j \in MailKeys \ {k} : lost'[j] = lost[j]
        /\ lost' \in [MailKeys -> Nat] /\ delivered' \in [MailKeys -> Nat]
        /\ mailLog' \in [MailKeys -> MailRows]
        /\ \A j \in MailKeys : delivered[j] <= delivered'[j]
    BY <1>0, <1>4, <2>2, <2>3 DEF MailTyped
  <2>5. TellStands(p)'
    BY <1>1 DEF TellStands
  <2>6. RowStands(k)'
    BY <1>0, <1>1, <2>3, <2>4 DEF RowStands
  <2> DEFINE C == {k}
  <2>7. /\ C \in SUBSET MailKeys
        /\ \A j \in MailKeys \ C : /\ mailLog'[j] = mailLog[j] /\ delivered'[j] = delivered[j]
                                   /\ lost'[j] = lost[j]
        /\ \A j \in Claimed : mailLog'[j].made = mailLog[j].made
        /\ \A q \in Passes \ {p} : Sends(q) => pass[q].key \notin C
        /\ Tells(p) => pass[p].key \in C \/ (Tells(p)' /\ NoRun.key = pass[p].key)
        /\ \A j \in C : RowStands(j)'
    BY <1>0, <2>2, <2>3, <2>4, <2>6
  <2>8. Sends(p)' => /\ NoRun.key \in Claimed' /\ ~mailLog'[NoRun.key].ok
                     /\ FirstSend(p)' => mailLog'[NoRun.key].made = clock
                     /\ \A q \in Passes \ {p} : Sends(q) => pass[q].key # NoRun.key
    BY <1>1
  <2> HIDE DEF C
  <2> QED
    BY <1>0, <1>2, <2>4, <2>5, <2>7, <2>8, NoRunIsRow, OneMoves
<1> QED
  BY <1>3, <1>4

\* MailInv is kept.
LEMMA MailSteps ==
    ASSUME MailInv, [MailNext]_mailVars PROVE MailInv'
<1>1. CASE WorldStep
  BY <1>1, WorldLeavesMail
<1>2. ASSUME NEW p \in Passes, PassStep(p) PROVE MailInv'
  BY <1>2, StartEndStep, ScanStep, ClaimStep, RecheckStep, SendStep, RecordStep, RetryStep, CrashStep
     DEF PassStep
<1>3. CASE UNCHANGED mailVars
  BY <1>3 DEF mailVars, MailInv, MailTyped, OneSender, RunStands, TellStands, RowStands, Claimed,
              Sends, FirstSend, Tells, EventOf, CapOf
<1> QED
  BY <1>1, <1>2, <1>3 DEF MailNext

\* What a run is about to send is due.
LEMMA DueNow ==
    ASSUME MailInv, NEW p \in Passes, pass[p].at \in {"send", "resend"}
    PROVE  /\ delivered[pass[p].key] <= lost[pass[p].key]
           /\ mailLog[pass[p].key].attempts < CapOf(pass[p].key)
           /\ pass[p].key[1] = "verify_2" => delivered[<<"verify_1", 0>>] > 0
           /\ family = "lifecycle" => ~pass[p].outBefore
           /\ mailLog[pass[p].key].event # NoEvent => mailLog[pass[p].key].event > pass[p].now
<1>1. Sends(p) /\ ~Tells(p) /\ RunStands(p)
  BY DEF MailInv, Sends, FirstSend, Tells
<1>2. pass[p].key \in Claimed /\ pass[p].key \in MailKeys /\ ~mailLog[pass[p].key].ok
  BY <1>1 DEF MailInv, OneSender, Claimed
<1>3. RowStands(pass[p].key)
  BY <1>2 DEF MailInv
<1>4. \A q \in Passes : Tells(q) => pass[q].key # pass[p].key
  BY <1>1, OneTells
<1> QED
  BY <1>1, <1>2, <1>3, <1>4 DEF RunStands, RowStands

\* Runs that overlap or crash anywhere and answers that are lost: a mail goes out again only
\* for a delivery its row was never told of, within the row's cap, the second nudge after a
\* first that arrived, nothing after an opt-out the run saw and no reminder of what is past
\* (lifecycle_emails, subscription_emails, ch_email_log).
THEOREM SendsAlwaysDue == ServicesSpec => SendsAreDue
<1>1. ServicesInit => MailInv
  BY MailStarts DEF ServicesInit
<1>2. MailInv /\ [ServicesNext]_serviceVars => MailInv'
  BY ComponentSteps, MailSteps
<1>3. MailInv /\ [ServicesNext]_serviceVars =>
         [\A p \in Passes : pass[p].at \in {"send", "resend"} =>
            LET k == pass[p].key
            IN  delivered'[k] > delivered[k] =>
                  /\ delivered[k] <= lost[k]
                  /\ mailLog[k].attempts < CapOf(k)
                  /\ k[1] = "verify_2" => delivered[<<"verify_1", 0>>] > 0
                  /\ family = "lifecycle" => ~pass[p].outBefore
                  /\ mailLog[k].event # NoEvent => mailLog[k].event > pass[p].now]_mailVars
  BY DueNow
<1> QED
  BY <1>1, <1>2, <1>3, PTL DEF ServicesSpec, SendsAreDue

=============================================================================
