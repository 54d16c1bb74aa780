---------------------------- MODULE BlobCatalog ----------------------------
(***************************************************************************)
(* The rows MeldStore keeps about blobs, and what each catalog operation   *)
(* does to them.  Nothing here is a state machine: a catalog is a value,   *)
(* an operation is a guard and an operator from catalogs to catalogs, and  *)
(* BlobLifecycle decides when transactions run and which of them commit.   *)
(*                                                                         *)
(* One storage root is modelled.  `_prepare_snapshot` draws the token and  *)
(* the object key of an upload together, so a Key stands for both.  One    *)
(* logical schema is modelled, with the versions migrations give it; what  *)
(* they do to the meaning of metadata is MetadataEvolution's subject.      *)
(***************************************************************************)
EXTENDS Integers

CONSTANTS Id,           \* caller-chosen blob ids
          Key,          \* object keys, each with the token journaled for it
          Content,      \* payload bytes, told apart by size and digest
          Meta,         \* normalized metadata values
          None,         \* SQL NULL, a missing row or a missing object
          MaxVersion,   \* the largest metadata version (2^63 - 1 in the code)
          MaxSchema     \* the last version of the schema

ASSUME NoneAssumption ==
  /\ None \notin Id
  /\ None \notin Key
  /\ None \notin Content
  /\ None \notin Meta

ASSUME VersionAssumption ==
  MaxVersion \in Nat \ {0} /\ MaxSchema \in Nat \ {0}

(***************************************************************************)
(* status[i] folds two tables: "publishing", "ready" and "pending_delete"  *)
(* are the states of a row of ms_blobs, "retired" is a row of ms_retired   *)
(* without one of ms_blobs.  token and version are those of ms_objects and *)
(* of the metadata row while the blob exists, and the ones ms_retired      *)
(* copied from there afterwards.  refs are the blob ids application tables *)
(* reference by foreign key.  A token and a metadata row each have their   *)
(* schema version; latest is the newest of ms_schemas, and migrating says  *)
(* that ms_migrations has a running job.                                   *)
(***************************************************************************)
Status == {"absent", "publishing", "ready", "pending_delete", "retired"}
GcState == {"none", "pending", "done"}
GcReason == {"none", "retired", "discarded", "orphan"}

Catalog ==
  [prepared    : [Key -> Content \cup {None}],
   tokenSchema : [Key -> 0 .. MaxSchema],
   status      : [Id -> Status],
   token       : [Id -> Key \cup {None}],
   meta        : [Id -> Meta \cup {None}],
   version     : [Id -> 0 .. MaxVersion],
   rowSchema   : [Id -> 0 .. MaxSchema],
   gc          : [Key -> GcState],
   reason      : [Key -> GcReason],
   refs        : SUBSET Id,
   latest      : 1 .. MaxSchema,
   migrating   : BOOLEAN]

EmptyCatalog ==
  [prepared    |-> [k \in Key |-> None],
   tokenSchema |-> [k \in Key |-> 0],
   status      |-> [i \in Id |-> "absent"],
   token       |-> [i \in Id |-> None],
   meta        |-> [i \in Id |-> None],
   version     |-> [i \in Id |-> 0],
   rowSchema   |-> [i \in Id |-> 0],
   gc          |-> [k \in Key |-> "none"],
   reason      |-> [k \in Key |-> "none"],
   refs        |-> {},
   latest      |-> 1,
   migrating   |-> FALSE]

Exists(d, i)  == d.status[i] \in {"publishing", "ready", "pending_delete"}
Bound(d, k)   == \E i \in Id : Exists(d, i) /\ d.token[i] = k
\* ms_gc rows carry a token unless they were queued as orphans.
Revoked(d, k) == d.reason[k] \in {"retired", "discarded"}
\* `_record` raises IntegrityError for a row without its object or metadata.
Complete(d, i) == Exists(d, i) /\ d.token[i] # None /\ d.meta[i] # None

----------------------------------------------------------------------------
(* Journal of completed uploads (ms_prepared).                             *)

\* The key is unique in ms_prepared; ms_fresh_object_key refuses a queued one.
Unclaimed(d, k) == d.prepared[k] = None /\ d.gc[k] = "none"

\* s is the version the call was given; `writable` refuses all but the latest.
CanJournal(d, k, s) == Unclaimed(d, k) /\ s = d.latest

Journal(d, k, c) == [d EXCEPT !.prepared[k] = c, !.tokenSchema[k] = d.latest]

----------------------------------------------------------------------------
(* Binding a journaled object to a blob id.                                *)

\* Variants: a revoked token is accepted; a retired id is; a superseded version.
CanFinalizeRevoked(d, i, k) ==
  /\ d.prepared[k] # None
  /\ d.tokenSchema[k] = d.latest
  /\ d.status[i] = "absent"
  /\ ~ Bound(d, k)
CanFinalizeRetired(d, i, k) ==
  /\ d.prepared[k] # None
  /\ d.tokenSchema[k] = d.latest
  /\ ~ Revoked(d, k)
  /\ d.status[i] \in {"absent", "retired"}
  /\ ~ Bound(d, k)
CanFinalizeSuperseded(d, i, k) ==
  /\ d.prepared[k] # None
  /\ ~ Revoked(d, k)
  /\ d.status[i] = "absent"
  /\ ~ Bound(d, k)
\* The declaration passed must be the latest, and the token's.
CanFinalize(d, i, k) ==
  /\ d.prepared[k] # None
  /\ d.tokenSchema[k] = d.latest
  /\ ~ Revoked(d, k)
  /\ d.status[i] = "absent"
  /\ ~ Bound(d, k)

Finalize(d, i, k, m) ==
  [d EXCEPT !.status[i] = "publishing", !.token[i] = k, !.meta[i] = m,
            !.version[i] = 1, !.rowSchema[i] = d.tokenSchema[k]]

\* The metadata INSERT breaks a UNIQUE index or CHECK: only the ms_blobs row
\* is left behind in the failed transaction.
FinalizeRefused(d, i) == [d EXCEPT !.status[i] = "publishing"]

CanPublish(d, i) == Complete(d, i) /\ d.status[i] \in {"publishing", "ready"}

\* Variant: the UPDATE of the state is forgotten.
PublishNothing(d, i) == d
Publish(d, i) == [d EXCEPT !.status[i] = "ready"]

(* What an import or put with this id, payload, metadata and version of    *)
(* the schema finds.                                                       *)
Retry(d, i, c, m, s) ==
  CASE d.status[i] = "absent" -> "none"
    [] /\ d.status[i] = "ready"
       /\ d.rowSchema[i] = s
       /\ d.meta[i] = m
       /\ d.token[i] # None
       /\ d.prepared[d.token[i]] = c -> "existing"
    [] OTHER -> "conflict"

----------------------------------------------------------------------------
(* Metadata updates under an expected version.                             *)

\* Rows of an older version are read-only until a migration reaches them.
CanUpdate(d, i, v) ==
  /\ d.status[i] = "ready"
  /\ Complete(d, i)
  /\ d.rowSchema[i] = d.latest
  /\ d.version[i] = v
  /\ v < MaxVersion

UpdateMetadata(d, i, m) ==
  [d EXCEPT !.meta[i] = m, !.version[i] = d.version[i] + 1]

----------------------------------------------------------------------------
(* Retirement and revocation queue the object for cleanup.                 *)

\* A running migration has to be finished first.
CanDelete(d, i, v) == Complete(d, i) /\ d.version[i] = v /\ ~ d.migrating

\* Everything `delete` does before the final DELETE of the ms_blobs row, which
\* is where an immediate foreign key of the application refuses.
DeleteRefused(d, i) ==
  [d EXCEPT !.status[i] = "pending_delete", !.meta[i] = None,
            !.gc[d.token[i]] = "pending", !.reason[d.token[i]] = "retired"]

Delete(d, i) == [DeleteRefused(d, i) EXCEPT !.status[i] = "retired"]

CanDiscard(d, k) ==
  /\ d.prepared[k] # None
  /\ ~ Bound(d, k)
  /\ ~ \E i \in Id : d.status[i] = "retired" /\ d.token[i] = k

(* INSERT OR IGNORE of a cleanup job.                                      *)
Queue(d, k, why) ==
  IF d.gc[k] = "none"
    THEN [d EXCEPT !.gc[k] = "pending", !.reason[k] = why]
    ELSE d

Discard(d, k) == Queue(d, k, "discarded")

----------------------------------------------------------------------------
(* Maintenance.                                                            *)

\* Variant: keys of journaled uploads are accepted as orphans.
CanQueueJournaled(d, ks) == ks # {}
CanQueueOrphans(d, ks) == ks # {} /\ \A k \in ks : d.prepared[k] = None

QueueOrphans(d, ks) ==
  [d EXCEPT
     !.gc = [k \in Key |-> IF k \in ks /\ d.gc[k] = "none"
                             THEN "pending" ELSE d.gc[k]],
     !.reason = [k \in Key |-> IF k \in ks /\ d.gc[k] = "none"
                                 THEN "orphan" ELSE d.reason[k]]]

Pending(d) == {k \in Key : d.gc[k] = "pending"}

(* The whole batch is validated before any bytes are deleted.              *)
BatchIsDead(d, ks) == \A k \in ks : ~ Bound(d, k)

\* Variant: the job is closed even though the store reported an error.
RecordAlwaysDone(d, k, swept) ==
  IF d.gc[k] = "pending" THEN [d EXCEPT !.gc[k] = "done"] ELSE d
\* Variant: a job whose deletion failed once is set aside.
RecordGivesUp(d, k, swept) ==
  IF d.gc[k] = "pending"
    THEN [d EXCEPT !.gc[k] = IF swept THEN "done" ELSE "failed"] ELSE d
RecordSweep(d, k, swept) ==
  IF swept /\ d.gc[k] = "pending" THEN [d EXCEPT !.gc[k] = "done"] ELSE d

----------------------------------------------------------------------------
(* Migrations of the schema: its next version with a job, then batches.    *)

Unfinished(d) == \E i \in Id : Exists(d, i) /\ d.status[i] # "ready"
Old(d) == {i \in Id : Exists(d, i) /\ d.rowSchema[i] # d.latest}

CanSupersede(d) ==
  /\ ~ d.migrating
  /\ ~ Unfinished(d)
  /\ d.latest < MaxSchema

Supersede(d) == [d EXCEPT !.latest = @ + 1, !.migrating = TRUE]

\* Some source rows, none only when there are none.
CanBatch(d, is) ==
  /\ d.migrating
  /\ ~ Unfinished(d)
  /\ is \subseteq Old(d)
  /\ is = {} => Old(d) = {}
  /\ \A i \in is : d.version[i] < MaxVersion

\* f is what the transformation makes of the rows.
Batch(d, is, f) ==
  [d EXCEPT
     !.meta = [i \in Id |-> IF i \in is THEN f[i] ELSE d.meta[i]],
     !.version = [i \in Id |-> IF i \in is THEN d.version[i] + 1 ELSE d.version[i]],
     !.rowSchema = [i \in Id |-> IF i \in is THEN d.latest ELSE d.rowSchema[i]],
     !.migrating = ~ (Old(d) \subseteq is)]

----------------------------------------------------------------------------
(* The answer `resolve` gives to a caller that lost the outcome of an      *)
(* operation on id i with the token of key k, its version of the schema    *)
(* and metadata m; what it says of the token where the id names nothing.   *)
ResolveToken(d, k) ==
  CASE Bound(d, k) -> "conflict"
    [] ~ Bound(d, k) /\ Revoked(d, k) -> "discarded"
    [] ~ Bound(d, k) /\ ~ Revoked(d, k) ->
         IF d.prepared[k] = None THEN "unknown" ELSE "prepared"

Resolve(d, i, k, m) ==
  CASE d.status[i] = "retired" ->
         IF d.token[i] = k THEN "retired" ELSE "conflict"
    [] Exists(d, i) ->
         IF d.token[i] = k /\ d.meta[i] = m /\ d.rowSchema[i] = d.tokenSchema[k]
           THEN d.status[i] ELSE "conflict"
    [] d.status[i] = "absent" -> ResolveToken(d, k)
----------------------------------------------------------------------------
(* What the catalog operations keep true of each other's catalogs.         *)

\* A catalog that no failed operation has left half changed.
Sound(d) ==
  /\ \A i \in Id : Exists(d, i) =>
       /\ d.status[i] # "pending_delete"
       /\ d.token[i] \in Key
       /\ d.meta[i] \in Meta
       /\ d.prepared[d.token[i]] # None
       /\ d.gc[d.token[i]] = "none"
  /\ \A i, j \in Id :
       Exists(d, i) /\ Exists(d, j) /\ d.token[i] = d.token[j] => i = j
  /\ \A k \in Key : d.gc[k] = "none" <=> d.reason[k] = "none"
  /\ \A k \in Key : d.reason[k] = "orphan" => d.prepared[k] = None

\* Journal rows and cleanup jobs are never taken back, nor jobs reopened.
Extends(d, e) ==
  \A k \in Key :
    /\ d.prepared[k] # None =>
         e.prepared[k] = d.prepared[k] /\ e.tokenSchema[k] = d.tokenSchema[k]
    /\ d.gc[k] # "none" => e.gc[k] # "none"
    /\ d.gc[k] = "done" => e.gc[k] = "done"

\* The store holds every journaled object that is not up for cleanup.
Kept(d, obj) ==
  \A k \in Key : d.prepared[k] # None /\ d.gc[k] = "none" => obj[k] = d.prepared[k]

\* The store holds nothing, and is not about to, under a key that is done.
Gone(d, obj, fly) ==
  \A k \in Key : d.gc[k] = "done" => obj[k] = None /\ fly[k] = None

\* e protects no object and closes no job that d did not.
Narrows(d, e) ==
  \A k \in Key :
    /\ e.prepared[k] # None /\ e.gc[k] = "none" =>
         d.prepared[k] = e.prepared[k] /\ d.gc[k] = "none"
    /\ e.gc[k] = "done" => d.gc[k] = "done"

\* A token belongs to one id, and a retired one is revoked with it.
TokensAreUsedOnce(d) ==
  /\ \A i \in Id : d.status[i] = "retired" =>
       d.token[i] \in Key /\ d.reason[d.token[i]] = "retired"
  /\ \A i, j \in Id :
       d.status[i] = "retired" /\ d.status[j] = "retired"
         /\ d.token[i] = d.token[j] => i = j

\* Rows of a superseded version are those a running migration has yet to reach.
RowsFollowSchema(d) ==
  \A i \in Id : Exists(d, i) =>
    \/ d.rowSchema[i] = d.latest
    \/ d.migrating /\ d.status[i] = "ready" /\ d.rowSchema[i] = d.latest - 1

\* What a row of ms_blobs or ms_retired says besides.
RowsAreOrderly(d) ==
  /\ \A i \in Id :
       /\ d.status[i] = "absent" => d.meta[i] = None /\ d.version[i] = 0
       /\ d.status[i] # "absent" => d.version[i] >= 1
       /\ d.status[i] = "retired" => d.meta[i] = None
  /\ TokensAreUsedOnce(d)
  /\ RowsFollowSchema(d)

\* A blob of d is in e, at the same version or a later one, or retired there for
\* good; and no token that d had revoked was used on the way.
Succeeds(d, e) ==
  /\ \A k \in Key : d.reason[k] # "none" => e.reason[k] = d.reason[k]
  /\ \A i \in Id :
       /\ d.status[i] = "retired" =>
            /\ e.status[i] = "retired"
            /\ e.token[i] = d.token[i]
            /\ e.version[i] = d.version[i]
       /\ Exists(d, i) =>
            /\ Exists(e, i) \/ e.status[i] = "retired"
            /\ e.token[i] = d.token[i]
            /\ e.version[i] >= d.version[i]
       /\ Exists(d, i) /\ Exists(e, i) =>
            /\ d.status[i] = "ready" => e.status[i] = "ready"
            /\ e.version[i] = d.version[i] => e.meta[i] = d.meta[i]
       /\ d.status[i] = "absent" /\ e.status[i] = "retired" =>
            d.reason[e.token[i]] = "none"
============================================================================
