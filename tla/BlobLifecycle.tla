--------------------------- MODULE BlobLifecycle ---------------------------
(***************************************************************************)
(* Processes that share one MeldStore catalog and one storage root: their  *)
(* leases, their catalog transactions, and the storage I/O they do outside *)
(* transactions.  A process is one Catalog with the Store that borrows it; *)
(* it is confined to one thread, so it does one thing at a time.           *)
(*                                                                         *)
(* db is what is committed, work what the one SQLite writer sees.  A call  *)
(* such as `import_file` is a sequence of steps, and task[p].pc says which *)
(* step p takes next; any step may instead raise, or the process may die.  *)
(***************************************************************************)
EXTENDS BlobCatalog

CONSTANTS Proc,
          LateLanding,  \* may the store finish an upload its caller gave up?
          DeferredRefs  \* are the application's foreign keys deferred?

ASSUME ProcAssumption == None \notin Proc
ASSUME ModeAssumption == LateLanding \in BOOLEAN /\ DeferredRefs \in BOOLEAN

VARIABLES db,       \* the committed catalog
          work,     \* the catalog as the writing transaction sees it
          writer,   \* the process whose connection holds the write lock
          failed,   \* Transaction._failed of the writing transaction
          mode,     \* the lease of each process
          broken,   \* Catalog._broken of each process
          task,     \* the call each process is in
          view,     \* the materialization each process has open
          objects,  \* the bytes under each key of the store
          flying    \* uploads the store was asked for and has not finished

vars == <<db, work, writer, failed, mode, broken, task, view, objects, flying>>

Idle == [pc |-> "idle", id |-> None, key |-> None, content |-> None,
         meta |-> None, schema |-> 0, jobs |-> {}]
NoView == [pc |-> "none", key |-> None, content |-> None]

Pc == {"idle", "tx", "upload", "journal", "journaling", "final", "finalizing",
       "queueing", "clean", "swept", "unswept", "recording", "evolving"}
InOwnTransaction ==
  {"tx", "journaling", "finalizing", "queueing", "recording", "evolving"}

Task == [pc : Pc, id : Id \cup {None}, key : Key \cup {None},
         content : Content \cup {None}, meta : Meta \cup {None},
         schema : 0 .. MaxSchema, jobs : SUBSET Key]
View == [pc : {"none", "reading", "open"}, key : Key \cup {None},
         content : Content \cup {None}]

TypeOK ==
  /\ db \in Catalog
  /\ work \in Catalog
  /\ writer \in Proc \cup {None}
  /\ failed \in BOOLEAN
  /\ mode \in [Proc -> {"closed", "shared", "exclusive"}]
  /\ broken \in [Proc -> BOOLEAN]
  /\ task \in [Proc -> Task]
  /\ view \in [Proc -> View]
  /\ objects \in [Key -> Content \cup {None}]
  /\ flying \in [Key -> Content \cup {None}]

Init ==
  /\ db = EmptyCatalog
  /\ work = EmptyCatalog
  /\ writer = None
  /\ failed = FALSE
  /\ mode = [p \in Proc |-> "closed"]
  /\ broken = [p \in Proc |-> FALSE]
  /\ task = [p \in Proc |-> Idle]
  /\ view = [p \in Proc |-> NoView]
  /\ objects = [k \in Key |-> None]
  /\ flying = [k \in Key |-> None]

store == <<objects, flying>>
session == <<mode, broken, view>>

\* p is between two calls: `require_idle` passes.
AtRest(p) ==
  /\ mode[p] # "closed"
  /\ ~ broken[p]
  /\ writer # p
  /\ task[p].pc = "idle"
  /\ view[p].pc # "reading"

\* Variant: maintenance does not insist on the exclusive lease.
MaintenanceShared(p) == AtRest(p) /\ view[p].pc = "none"
\* `require_maintenance`: idle, exclusive, and no materialization is open.
Maintenance(p) == AtRest(p) /\ mode[p] = "exclusive" /\ view[p].pc = "none"

Goto(p, pc) == task' = [task EXCEPT ![p].pc = pc]
Return(p)   == task' = [task EXCEPT ![p] = Idle]

\* BEGIN IMMEDIATE and the statements after it: the new writer's catalog is d.
Begin(p, d) ==
  /\ writer = None
  /\ writer' = p
  /\ work' = d
  /\ failed' = FALSE
  /\ UNCHANGED db

\* The write lock is released; there is no writing transaction any more.
Release ==
  /\ writer' = None
  /\ work' = EmptyCatalog
  /\ failed' = FALSE

\* The connection may or may not still hold its transaction.
PerhapsRelease == Release \/ UNCHANGED <<writer, work, failed>>

\* `_quarantine`, with the exception leaving the call p was in.
Quarantine(p) ==
  /\ broken' = [broken EXCEPT ![p] = TRUE]
  /\ Return(p)
  /\ UNCHANGED <<mode, view>>

\* An upload nobody waits for: only some stores still finish it.
Abandon(k) ==
  IF k = None
    THEN UNCHANGED flying
    ELSE \/ flying' = [flying EXCEPT ![k] = None]
         \/ LateLanding /\ UNCHANGED flying

----------------------------------------------------------------------------
(* Sessions.                                                               *)

\* Open and the first bind_storage of a catalog take the gates' leases.
OpenShared(p) ==
  /\ mode[p] = "closed"
  /\ \A q \in Proc : mode[q] # "exclusive"
  /\ mode' = [mode EXCEPT ![p] = "shared"]
  /\ UNCHANGED <<db, work, writer, failed, broken, task, view, store>>

\* Variant: maintenance does not wait for shared participants.
OpenExclusiveAnyway(p) ==
  /\ mode[p] = "closed"
  /\ \A q \in Proc : mode[q] # "exclusive"
  /\ mode' = [mode EXCEPT ![p] = "exclusive"]
  /\ UNCHANGED <<db, work, writer, failed, broken, task, view, store>>
OpenExclusive(p) ==
  /\ \A q \in Proc : mode[q] = "closed"
  /\ mode' = [mode EXCEPT ![p] = "exclusive"]
  /\ UNCHANGED <<db, work, writer, failed, broken, task, view, store>>

\* Leaving a session drops what its connection still holds open.
Leave(p) ==
  /\ mode' = [mode EXCEPT ![p] = "closed"]
  /\ broken' = [broken EXCEPT ![p] = FALSE]
  /\ task' = [task EXCEPT ![p] = Idle]
  /\ view' = [view EXCEPT ![p] = NoView]
  /\ IF writer = p THEN Release ELSE UNCHANGED <<writer, work, failed>>
  /\ UNCHANGED <<db, objects>>

\* `_close`: refused while a transaction or a materialization is active, but
\* allowed (and then rolling back) after a commit or rollback that failed.
Close(p) ==
  /\ mode[p] # "closed"
  /\ task[p].pc = "idle"
  /\ view[p].pc = "none"
  /\ writer = p => broken[p]
  /\ Leave(p)
  /\ UNCHANGED flying

Crash(p) ==
  /\ mode[p] # "closed"
  /\ Leave(p)
  /\ Abandon(task[p].key)

----------------------------------------------------------------------------
(* The end of a transaction.                                               *)

\* What the call goes on with once its transaction has committed.
Resume(t) ==
  CASE t.pc = "journaling" /\ t.id # None -> [t EXCEPT !.pc = "final"]
    [] t.pc = "recording" /\ t.jobs # {} ->
         [t EXCEPT !.pc = "clean", !.key = None]
    [] OTHER -> Idle

RefsHold(d) == \A i \in d.refs : Exists(d, i)

\* COMMIT looks at deferred foreign keys; SQLite checks others as statements run.
MayCommit(d) == DeferredRefs => RefsHold(d)

\* Variant: a transaction in which an operation failed may commit.
CommitPoisoned(p) ==
  /\ writer = p
  /\ ~ broken[p]
  /\ MayCommit(work)
  /\ db' = work
  /\ Release
  /\ task' = [task EXCEPT ![p] = Resume(task[p])]
  /\ UNCHANGED <<session, store>>
Commit(p) ==
  /\ writer = p
  /\ ~ broken[p]
  /\ ~ failed
  /\ MayCommit(work)
  /\ db' = work
  /\ Release
  /\ task' = [task EXCEPT ![p] = Resume(task[p])]
  /\ UNCHANGED <<session, store>>

\* COMMIT raised.  It may have taken effect, or been undone, or have left the
\* transaction open, as SQLite does when a deferred foreign key is violated.
CommitFails(p) ==
  /\ writer = p
  /\ ~ broken[p]
  /\ ~ failed
  /\ \/ MayCommit(work) /\ db' = work /\ Release
     \/ UNCHANGED db /\ PerhapsRelease
  /\ Quarantine(p)
  /\ UNCHANGED store

\* An exception, or the poisoned flag, rolls the transaction back.
Rollback(p) ==
  /\ writer = p
  /\ ~ broken[p]
  /\ Release
  /\ Return(p)
  /\ UNCHANGED <<db, session, store>>

RollbackFails(p) ==
  /\ writer = p
  /\ ~ broken[p]
  /\ PerhapsRelease
  /\ Quarantine(p)
  /\ UNCHANGED <<db, store>>

\* The start of a call's next transaction failed and so did its recovery.
BeginFails(p) ==
  /\ mode[p] # "closed"
  /\ ~ broken[p]
  /\ writer # p
  /\ task[p].pc \in {"idle", "journal", "final", "swept", "unswept"}
  /\ view[p].pc # "reading"
  /\ Begin(p, db) \/ UNCHANGED <<db, work, writer, failed>>
  /\ Quarantine(p)
  /\ UNCHANGED store

\* Variant: a call waits for the write lock without the busy timeout.
GiveUpNever(p) ==
  /\ task[p].pc = "clean"
  /\ Return(p)
  /\ UNCHANGED <<db, work, writer, failed, session, store>>
\* Any other exception between two transactions of a call, BusyError included.
GiveUp(p) ==
  /\ task[p].pc \in {"journal", "final", "clean", "swept", "unswept"}
  /\ Return(p)
  /\ UNCHANGED <<db, work, writer, failed, session, store>>

----------------------------------------------------------------------------
(* Transactions of the application, composing MeldStore's operations.      *)

BeginTx(p) ==
  /\ AtRest(p)
  /\ Begin(p, db)
  /\ Goto(p, "tx")
  /\ UNCHANGED <<session, store>>

Within(p) ==
  writer = p /\ ~ broken[p] /\ ~ failed /\ task[p].pc = "tx"

Apply(p, d) ==
  /\ Within(p)
  /\ work' = d
  /\ UNCHANGED <<db, writer, failed, task, session, store>>

\* An operation raised after the statements that made d of the catalog.  The
\* application may swallow the exception; the transaction stays poisoned.
Poison(p, d) ==
  /\ Within(p)
  /\ work' = d
  /\ failed' = TRUE
  /\ UNCHANGED <<db, writer, task, session, store>>

TxFinalize(p, i, k, m) ==
  /\ CanFinalize(work, i, k)
  /\ \/ Apply(p, Finalize(work, i, k, m))
     \/ Poison(p, FinalizeRefused(work, i))

TxPublish(p, i) ==
  CanPublish(work, i) /\ Apply(p, Publish(work, i))

TxUpdate(p, i, v, m) ==
  CanUpdate(work, i, v) /\ Apply(p, UpdateMetadata(work, i, m))

TxDelete(p, i, v) ==
  /\ CanDelete(work, i, v)
  /\ IF i \in work.refs /\ ~ DeferredRefs
       THEN Poison(p, DeleteRefused(work, i))
       ELSE Apply(p, Delete(work, i))

TxDiscard(p, k) ==
  CanDiscard(work, k) /\ Apply(p, Discard(work, k))

\* The application's own rows.
TxLink(p, i) ==
  /\ DeferredRefs \/ Exists(work, i)
  /\ Apply(p, [work EXCEPT !.refs = @ \cup {i}])
TxUnlink(p, i) == Apply(p, [work EXCEPT !.refs = @ \ {i}])

\* An operation refused by its checks, before any statement that writes.
TxRefused(p) == Poison(p, work)

TxStep(p) ==
  \/ \E i \in Id, k \in Key, m \in Meta : TxFinalize(p, i, k, m)
  \/ \E i \in Id : TxPublish(p, i) \/ TxLink(p, i) \/ TxUnlink(p, i)
  \/ \E i \in Id, v \in 1 .. MaxVersion :
       TxDelete(p, i, v) \/ \E m \in Meta : TxUpdate(p, i, v, m)
  \/ \E k \in Key : TxDiscard(p, k)
  \/ TxRefused(p)

----------------------------------------------------------------------------
(* prepare_file and prepare (i = None), import_file and put.               *)

\* A key no upload, row or object has ever had: uuid4 draws do not collide.
Fresh(k) ==
  /\ objects[k] = None
  /\ flying[k] = None
  /\ db.prepared[k] = None
  /\ db.gc[k] = "none"
  /\ \A q \in Proc : task[q].key # k

StartUpload(p, i, c, m) ==
  /\ AtRest(p)
  /\ writer = None
  /\ i # None => Retry(db, i, c, m, db.latest) = "none"
  /\ \E k \in Key :
       /\ Fresh(k)
       /\ flying' = [flying EXCEPT ![k] = c]
       /\ task' = [task EXCEPT ![p] =
            [pc |-> "upload", id |-> i, key |-> k, content |-> c,
             meta |-> m, schema |-> db.latest, jobs |-> {}]]
  /\ UNCHANGED <<db, work, writer, failed, session, objects>>

StartPrepare(p, c) == StartUpload(p, None, c, None)
StartImport(p, i, c, m) == StartUpload(p, i, c, m)

\* The store promotes the staged bytes, create-only.
Land(k) ==
  /\ flying[k] # None
  /\ objects' = [objects EXCEPT ![k] = IF @ = None THEN flying[k] ELSE @]
  /\ flying' = [flying EXCEPT ![k] = None]
  /\ UNCHANGED <<db, work, writer, failed, mode, broken, task, view>>

UploadReturns(p) ==
  /\ task[p].pc = "upload"
  /\ objects[task[p].key] = task[p].content
  /\ Goto(p, "journal")
  /\ UNCHANGED <<db, work, writer, failed, session, store>>

\* StorageError: the object may be there, or may still appear.
UploadFails(p) ==
  /\ task[p].pc = "upload"
  /\ Abandon(task[p].key)
  /\ Return(p)
  /\ UNCHANGED <<db, work, writer, failed, session, objects>>

JournalUpload(p) ==
  /\ task[p].pc = "journal"
  /\ CanJournal(db, task[p].key, task[p].schema)
  /\ Begin(p, Journal(db, task[p].key, task[p].content))
  /\ Goto(p, "journaling")
  /\ UNCHANGED <<session, store>>

\* The last transaction of import_file and put looks for the id again.
FinalizeImport(p) ==
  LET t == task[p] IN
  /\ t.pc = "final"
  /\ Retry(db, t.id, t.content, t.meta, t.schema) = "none"
  /\ CanFinalize(db, t.id, t.key)
  /\ Begin(p, Publish(Finalize(db, t.id, t.key, t.meta), t.id))
  /\ Goto(p, "finalizing")
  /\ UNCHANGED <<session, store>>

\* Somebody else was first: the existing record, or ConflictError; or a migration
\* was: SchemaConflictError.
FinalizeFindsOther(p) ==
  LET t == task[p] IN
  /\ t.pc = "final"
  /\ writer = None
  /\ ~ /\ Retry(db, t.id, t.content, t.meta, t.schema) = "none"
       /\ CanFinalize(db, t.id, t.key)
  /\ Return(p)
  /\ UNCHANGED <<db, work, writer, failed, session, store>>

UploadStep(p) ==
  \/ \E c \in Content :
       \/ StartPrepare(p, c)
       \/ \E i \in Id, m \in Meta : StartImport(p, i, c, m)
  \/ UploadReturns(p)
  \/ UploadFails(p)
  \/ JournalUpload(p)
  \/ FinalizeImport(p)
  \/ FinalizeFindsOther(p)

----------------------------------------------------------------------------
(* materialize: the record is read first, the bytes afterwards.            *)

Stat(p, i) ==
  /\ AtRest(p)
  /\ view[p].pc = "none"
  /\ db.status[i] = "ready"
  /\ Complete(db, i)
  /\ view' = [view EXCEPT ![p] =
       [pc |-> "reading", key |-> db.token[i], content |-> None]]
  /\ UNCHANGED <<db, work, writer, failed, mode, broken, task, store>>

\* Size and digest agree with the journal: a private copy is handed out.
Fetch(p) ==
  /\ view[p].pc = "reading"
  /\ objects[view[p].key] # None
  /\ objects[view[p].key] = db.prepared[view[p].key]
  /\ view' = [view EXCEPT ![p].pc = "open", ![p].content = objects[view[p].key]]
  /\ UNCHANGED <<db, work, writer, failed, mode, broken, task, store>>

\* IntegrityError or StorageError, or the end of the with block.
EndView(p) ==
  /\ \/ view[p].pc = "reading"
     \/ view[p].pc = "open" /\ task[p].pc \in {"idle", "tx"}
  /\ view' = [view EXCEPT ![p] = NoView]
  /\ UNCHANGED <<db, work, writer, failed, mode, broken, task, store>>

ReadStep(p) == (\E i \in Id : Stat(p, i)) \/ Fetch(p) \/ EndView(p)

----------------------------------------------------------------------------
(* queue_orphans and cleanup.                                              *)

QueueOrphanKeys(p, ks) ==
  /\ Maintenance(p)
  /\ CanQueueOrphans(db, ks)
  /\ Begin(p, QueueOrphans(db, ks))
  /\ Goto(p, "queueing")
  /\ UNCHANGED <<session, store>>

\* The first transaction of `cleanup` selects a batch and validates all of it.
SelectJobs(p, ks) ==
  /\ Maintenance(p)
  /\ writer = None
  /\ ks # {}
  /\ ks \subseteq Pending(db)
  /\ BatchIsDead(db, ks)
  /\ task' = [task EXCEPT ![p] = [Idle EXCEPT !.pc = "clean", !.jobs = ks]]
  /\ UNCHANGED <<db, work, writer, failed, session, store>>

\* Deleting a missing object succeeds as well.
SweepObject(p, k) ==
  /\ task[p].pc = "clean"
  /\ k \in task[p].jobs
  /\ objects' = [objects EXCEPT ![k] = None]
  /\ task' = [task EXCEPT ![p].pc = "swept", ![p].key = k, ![p].jobs = @ \ {k}]
  /\ UNCHANGED <<db, work, writer, failed, session, flying>>

\* StorageError: the object may be gone all the same.
SweepFails(p, k) ==
  /\ task[p].pc = "clean"
  /\ k \in task[p].jobs
  /\ objects' \in {objects, [objects EXCEPT ![k] = None]}
  /\ task' = [task EXCEPT ![p].pc = "unswept", ![p].key = k, ![p].jobs = @ \ {k}]
  /\ UNCHANGED <<db, work, writer, failed, session, flying>>

\* A crash before this commits leaves the job pending, to be retried.
RecordJob(p) ==
  /\ task[p].pc \in {"swept", "unswept"}
  /\ Begin(p, RecordSweep(db, task[p].key, task[p].pc = "swept"))
  /\ Goto(p, "recording")
  /\ UNCHANGED <<session, store>>

MaintenanceStep(p) ==
  \/ \E ks \in SUBSET Key : QueueOrphanKeys(p, ks) \/ SelectJobs(p, ks)
  \/ \E k \in Key : SweepObject(p, k) \/ SweepFails(p, k)
  \/ RecordJob(p)

----------------------------------------------------------------------------
(* migrate: each of its transactions; MetadataEvolution has the loop.      *)

StartMigration(p) ==
  /\ AtRest(p)
  /\ CanSupersede(db)
  /\ Begin(p, Supersede(db))
  /\ Goto(p, "evolving")
  /\ UNCHANGED <<session, store>>

MigrateBatch(p, is, f) ==
  /\ AtRest(p)
  /\ CanBatch(db, is)
  /\ Begin(p, Batch(db, is, f))
  /\ Goto(p, "evolving")
  /\ UNCHANGED <<session, store>>

EvolutionStep(p) ==
  \/ StartMigration(p)
  \/ \E is \in SUBSET Id : \E f \in [is -> Meta] : MigrateBatch(p, is, f)

----------------------------------------------------------------------------
SessionStep(p) == OpenShared(p) \/ OpenExclusive(p) \/ Close(p) \/ Crash(p)

TransactionEnds(p) ==
  \/ Commit(p) \/ CommitFails(p) \/ Rollback(p) \/ RollbackFails(p)
  \/ BeginFails(p) \/ GiveUp(p)

Next ==
  \/ \E p \in Proc :
       \/ SessionStep(p) \/ TransactionEnds(p) \/ BeginTx(p) \/ TxStep(p)
       \/ UploadStep(p) \/ ReadStep(p) \/ MaintenanceStep(p) \/ EvolutionStep(p)
  \/ \E k \in Key : Land(k)

Spec == Init /\ [][Next]_vars
----------------------------------------------------------------------------
(* Safety.                                                                 *)

\* Every row of ms_blobs any session can see has its metadata, its journal
\* entry and its bytes: whatever commits, crashes, unrecorded uploads, revoked
\* tokens and interrupted cleanups there were, cleanup never removes an object
\* (lifecycle.delete, lifecycle.discard, maintenance.queue_orphans,
\* maintenance.cleanup) that a blob still names (Store.finalize).
NoDangling ==
  \A i \in Id : Exists(db, i) =>
    /\ Complete(db, i)
    /\ db.prepared[db.token[i]] # None
    /\ db.gc[db.token[i]] = "none"
    /\ objects[db.token[i]] = db.prepared[db.token[i]]

\* Between reading a blob's record and reading its bytes, Store.materialize
\* holds no transaction; another process may retire the blob meanwhile, and
\* the bytes must still be there, because cleanup needs everyone's lease.
StableReads ==
  \A p \in Proc : view[p].pc = "reading" =>
    /\ objects[view[p].key] # None
    /\ objects[view[p].key] = db.prepared[view[p].key]

\* A job without a token (queue_orphans) is never about a journaled upload, so
\* the row lifecycle.discard reads back by token always exists, and a key once
\* queued as an orphan is never journaled afterwards (ms_fresh_object_key).
OrphansStayUnknown ==
  \A k \in Key : db.reason[k] = "orphan" => db.prepared[k] = None

\* No upload that succeeded is refused by the journal, unless a migration has
\* superseded its schema meanwhile: until its row is written its object looks
\* like an orphan, and neither another session nor maintenance may have taken
\* its key (ms_prepared, ms_fresh_object_key).
UploadsAreJournaled ==
  \A p \in Proc : task[p].pc = "journal" /\ task[p].schema = db.latest =>
    CanJournal(db, task[p].key, task[p].schema)

\* Each answer of `resolve` leads a caller on that lost the outcome of its call.
\* A prepared upload still has its bytes; it may be finalized until its schema is
\* superseded, and at any time discarded with an answer that says so
\* (lifecycle.discard reads its job back by token).  A blob may be published, and
\* unless a migration is running deleted or, ready and below the last version,
\* edited; a repeated import finds it, unless its schema is superseded and refused
\* outright.  What is retired, discarded or unknown no id will ever name.
AnswersLeadOn ==
  \A i \in Id, k \in Key, m \in Meta :
    LET answer == Resolve(db, i, k, m) IN
    /\ answer = "prepared" =>
         /\ objects[k] = db.prepared[k]
         /\ db.tokenSchema[k] = db.latest => CanFinalize(db, i, k)
         /\ CanDiscard(db, k)
         /\ Resolve(Discard(db, k), i, k, m) = "discarded"
    /\ answer \in {"publishing", "ready"} =>
         /\ objects[k] = db.prepared[k]
         /\ CanPublish(db, i)
         /\ db.migrating \/ CanDelete(db, i, db.version[i])
    /\ answer = "ready" =>
         /\ db.tokenSchema[k] = db.latest =>
              Retry(db, i, db.prepared[k], m, db.latest) = "existing"
         /\ \/ db.migrating
            \/ db.version[i] = MaxVersion
            \/ CanUpdate(db, i, db.version[i])
    /\ answer \in {"retired", "discarded", "unknown"} =>
         ~ Bound(db, k) /\ \A j \in Id : ~ CanFinalize(db, j, k)
    /\ answer # "pending_delete"

\* `done` means the bytes are gone, although the deletion and its record are
\* two steps with a crash, an error or an uncertain commit between them.
\* (With LateLanding a given-up upload can still appear afterwards.)
DoneMeansGone == \A k \in Key : db.gc[k] = "done" => objects[k] = None

----------------------------------------------------------------------------
(* Action properties.                                                      *)

\* Bytes disappear only under a maintenance lease that excludes every other
\* process, and only when a committed job asks for it (maintenance.cleanup).
SweptOnlyWhenQueued ==
  [][\A k \in Key : objects[k] # None /\ objects'[k] = None =>
       /\ db.gc[k] = "pending"
       /\ \A p, q \in Proc : mode[p] = "exclusive" /\ mode[q] # "closed" => p = q
       /\ \E p \in Proc : mode[p] = "exclusive"]_vars

\* What `resolve` once answered about a finished operation stays its answer:
\* a retired one remains retired and a discarded token never becomes usable
\* (at most the id turns out to be used by another operation).
ResolvedForGood ==
  [][\A i \in Id, k \in Key, m \in Meta :
       /\ Resolve(db, i, k, m) = "retired" => Resolve(db', i, k, m) = "retired"
       /\ Resolve(db, i, k, m) = "discarded" =>
            Resolve(db', i, k, m) \in {"discarded", "conflict"}]_vars

\* When the last transaction of an import or put takes effect, reported or not,
\* repeating the call, whose schema is still the latest, finds its own blob, and
\* `resolve` calls it ready.
LostImportIsRecognized ==
  [][\A p \in Proc :
       LET t == task[p] IN
       t.pc = "finalizing" /\ db' # db =>
         /\ t.schema = db'.latest
         /\ Retry(db', t.id, t.content, t.meta, t.schema) = "existing"
         /\ Resolve(db', t.id, t.key, t.meta) = "ready"]_vars

----------------------------------------------------------------------------
(* BlobLifecycle implements BlobStore: an id names the bytes actually in   *)
(* the store, and a reader is promised those bytes when it has read the    *)
(* record.                                                                 *)
NamedBy(i) ==
  [state   |-> db.status[i],
   bytes   |-> IF Complete(db, i) THEN objects[db.token[i]] ELSE None,
   meta    |-> db.meta[i],
   version |-> db.version[i]]

HeldBy(p) ==
  CASE view[p].pc = "none"    -> None
    [] view[p].pc = "reading" -> objects[view[p].key]
    [] view[p].pc = "open"    -> view[p].content

Named == [i \in Id |-> NamedBy(i)]
Held == [p \in Proc |-> HeldBy(p)]

Promise == INSTANCE BlobStore WITH blob <- Named, held <- Held

\* Every behaviour of the sessions, crashes and retries included, looks to the
\* applications like one of BlobStore.
KeepsItsPromise == Promise!Spec

----------------------------------------------------------------------------
(* Liveness.                                                               *)

\* The thread that entered a call keeps executing it.  Nothing is assumed of
\* the application: it may keep a transaction open for ever.
CallStep(p) ==
  \/ UploadReturns(p) \/ UploadFails(p) \/ JournalUpload(p)
  \/ FinalizeImport(p) \/ FinalizeFindsOther(p)
  \/ \E k \in Key : SweepObject(p, k) \/ SweepFails(p, k)
  \/ RecordJob(p) \/ GiveUp(p)
  \/ task[p].pc # "tx" /\ (Commit(p) \/ CommitFails(p) \/ Rollback(p) \/ RollbackFails(p))

FairSpec == Spec /\ \A p \in Proc : WF_vars(CallStep(p))

\* Every prepare, import, put, queue_orphans and cleanup returns or raises,
\* even while other sessions hold the write lock or a quarantined one does.
CallsReturn ==
  \A p \in Proc : task[p].pc \notin {"idle", "tx"} ~> task[p].pc = "idle"

\* What an operator's maintenance amounts to: there are moments without any
\* session, at some of which a maintenance session starts, calls `cleanup` with a
\* limit that covers what is pending, and now and then deletes and records a job.
RecurringCleanup ==
  /\ []<>(\A p \in Proc : mode[p] = "closed")
  /\ SF_vars(\E p \in Proc : OpenExclusive(p))
  /\ SF_vars(\E p \in Proc : SelectJobs(p, Pending(db)))
  /\ SF_vars(\E p \in Proc, k \in Key : SweepObject(p, k))
  /\ SF_vars(\E p \in Proc : RecordJob(p) /\ task[p].pc = "swept")
  /\ SF_vars(\E p \in Proc : Commit(p) /\ work.gc # db.gc /\ mode[p] = "exclusive")

\* No failure makes a job one that no cleanup ever takes up again: under recurring
\* maintenance every job of ms_gc gets done, although a deletion, its record or
\* the process may fail between any two steps, and although one live reference
\* in a batch would make maintenance.cleanup refuse all of it.
JobsGetDone ==
  RecurringCleanup => \A k \in Key : db.gc[k] = "pending" ~> db.gc[k] = "done"
============================================================================
