# MeldStore in TLA+

MeldStore keeps blobs for Python applications: the bytes are files in a local
directory or objects in an S3 prefix, and everything else (identity, metadata,
upload journal, cleanup jobs) is rows of one SQLite database, the *catalog*, which
the application shares for its own tables. There is no server. Several processes
open the same catalog and the same storage root; what keeps them consistent is
the order in which each of them does its SQL and its file operations, SQLite's
transactions, and a lock file that separates normal use from maintenance.

This directory models that, checks it with TLC on small instances, and proves
the core of it with TLAPS for all instances. Paths below are relative to
`src/src/meldstore/`.

## 1. Inventory

| part | state it keeps | operations | talks to |
|---|---|---|---|
| blob rows (`installation.py`, `payload_catalog.py`, `lifecycle.py` DDL) | `ms_prepared` (journal of completed uploads), `ms_blobs` + `ms_objects` + one metadata row per blob, `ms_retired`, `ms_gc`, their triggers | `finalize`, `publish`, `update_metadata`, `delete`, `discard_prepared`, `resolve`, `stat`, `find` | inside a `Transaction` of a catalog |
| calls of `Store` (`store.py`) | nothing but locals between several transactions; `_readers` | `prepare_file`, `prepare`, `import_file`, `put`, `materialize`, `get`, `export_file` | short transactions and storage I/O in turn |
| maintenance (`maintenance.py`) | `ms_gc` | `reconcile` (reports), `queue_orphans`, `cleanup` | exclusive lease, transactions, storage |
| `Catalog` and `Transaction` (`catalog.py`) | connection, active transaction and its `_failed` flag, `_broken`, leases | open, `transaction`, `sql`, `snapshot`, `close` | SQLite directly, or MeldDB's manager |
| access leases (`access.py`) | one small SQLite file per catalog and per root, with its owner | take shared or exclusive, release | file locks of SQLite |
| local and S3 storage (`storage.py`, `s3.py`) | objects, staging objects, identity markers | create-only `upload`, verified `materialize`, `delete_object`, `inventory`, initialization | file system, object store |
| metadata evolution (`migrations.py`) | `ms_migrations`, layouts, versions of rows | `migrate` in restartable batches | transactions |
| backup (`backup.py`), export (`exporting.py`) | directories they build | `backup`, `restore_backup`, `transfer`; `export_file` | exclusive lease, storage |
| queries (`query.py`) | cursors in the caller's hands | `find` with keyset pagination | one read transaction |
| schemas, handlers, encodings, errors | declarations | validation, codecs, DDL text | |

What is hard here:

* **No transaction spans SQL and storage.** An import uploads, then journals, then
  finalizes; a read looks at a row, then at a file; cleanup selects jobs, deletes a
  file, records it. Anything can happen in between: other processes, exceptions, death.
* **Outcomes get lost.** COMMIT may raise and have happened; an upload may be given
  up and still land; a deletion may report an error and have been carried out.
* **Operations are composed by the application**, in one transaction, together with
  its own SQL and its own foreign keys, and it may swallow their exceptions.
* **Leases are file locks** taken on two gates in several statements, without waiting.
* **Boundaries fail.** BEGIN, COMMIT, ROLLBACK and `PRAGMA query_only` can each raise.

`PROJECT.json` lists every hazard with the line where it bites and the
properties that cover it.

What makes each part correct:

* blob rows and calls: a blob always has its bytes, an id never changes what it
  names, a reader gets the bytes it was promised, uncertain outcomes can be
  recognized, references of the application hold, every call ends;
* maintenance: only dead objects are deleted, only under a lease that excludes
  everybody, and `done` means gone;
* catalog transactions: the report to the application is true, nothing leaks
  from one transaction into the next, failed transactions do not write;
* leases: exclusive means alone, a root has one catalog for good;
* evolution: metadata keeps its meaning, no row is forgotten in an old version, no
  stale update gets through a migration, a migration that is called again completes;
* backup and restore: a manifest describes the source as it is at that moment, a
  catalog that appears at a destination has everything it could need, nothing that
  is already there is replaced;
* identity: everybody who has a place open knows it by one id and, on S3, shares one
  coordinator; whoever claimed a prefix can open it again, nobody else can;
* export: only absence turns into a file, and only into a whole one;
* queries: a row that is left alone appears once in a scan, whatever else commits.

## 2. Modules

```
BlobCatalog            rows, operations on them           (no state machine)
  BlobLifecycle        processes, leases, transactions, storage I/O, crashes
    |  implements -->  BlobStore
    BlobLifecycleInv   the inductive invariant
      MCBlobLifecycle  TLC instances, symmetry
      BlobCatalogProofs, BlobLifecycleProofs
  BackupRestore        a source, an artifact, a destination   (uses BlobCatalog's rows)
    BackupRestoreProofs                     (uses BlobCatalogProofs; proves Export too)
    MCBackupRestore
CatalogTransaction     one connection, faults at every statement
    |  implements -->  AtomicTransaction
    CatalogTransactionProofs
AccessLease            gates, statement by statement
    |  implements -->  SharedLease
    AccessLeaseProofs
    MCAccessLease
MetadataEvolution      one schema, its rows, jobs and sessions
    |  implements -->  DocumentStore
    MetadataEvolutionProofs
    MCMetadataEvolution
StorageIdentity        markers of roots and S3 prefixes
    StorageIdentityProofs
    MCStorageIdentity
Pagination             scans by pages, the cursor's predicate
    PaginationProofs
    MCPagination
Export                 names in the file system
    MCExport
```

Definitions marked *Variant* are mistakes the code could have made. They are used
nowhere in the specifications; `PROJECT.json` ("mutants") pairs each with a property
that TLC finds violated when the variant takes the place of the definition below it.

### BlobCatalog, BlobLifecycle

A *catalog* is a record of functions: `prepared` (journal: key -> payload), `status`,
`token`, `meta`, `version` per id, `gc` and `reason` per key, and `refs`, the ids
that application rows reference. A token and a metadata row have a schema version
each (`tokenSchema`, `rowSchema`); `latest` is the newest one declared, and `migrating` says
that a job of `ms_migrations` is running. `status` folds two tables: `publishing`, `ready`
and `pending_delete` are states of a `ms_blobs` row, `retired` is a row of
`ms_retired`. Each operation is a guard (`CanFinalize`, from the early raises, the
constraints and the triggers) and an operator from catalogs to catalogs
(`Finalize`, from the statements). Repeating an operation that the code answers
idempotently (finalize of the same operation, publish of a ready blob, delete of a
retired one) changes nothing and is a stuttering step.

Migrations are here for what they refuse others and do to rows. `_schema(write=True)` refuses
uploads, tokens and edits of a superseded version (`CanJournal`, `CanFinalize`, `CanUpdate`),
`delete` refuses while a job is running (`CanDelete`), and `_initialize` and `_batch`
refuse while a blob is not ready (`Unfinished`). `Supersede` is the first transaction of `run`,
`Batch` one of the others. It may take any of the rows still to do and make any metadata of
them: pages, checkpoint, counts, resumption and what metadata means are
`MetadataEvolution`'s.

`BlobLifecycle` has the committed catalog `db`; the catalog `work` that the one
`writer` sees; and per process a `mode` (its lease), `broken` (quarantine), a `task`
(the call it is in) and a `view` (an open materialization); `objects` and `flying`
are the store and the uploads it has been asked for.

| code | actions |
|---|---|
| `Catalog(...)`, `bind_storage`, `close`, death | `OpenShared`, `OpenExclusive`, `Close`, `Crash` |
| `with catalog.transaction()` | `BeginTx`, `Commit`, `CommitFails`, `Rollback`, `RollbackFails`, `BeginFails`, `GiveUp` |
| operations inside it | `TxFinalize` ... `TxUnlink`; `TxRefused` and every `Poison` for the ones that raise |
| `prepare_file`, `prepare` | `StartPrepare`, `UploadReturns`/`UploadFails`, `JournalUpload`, `Commit` |
| `import_file`, `put` | `StartImport`, the same, then `FinalizeImport` or `FinalizeFindsOther`, `Commit` |
| `materialize`, `get` | `Stat`, `Fetch`, `EndView` |
| `queue_orphans` | `QueueOrphanKeys`, `Commit` |
| `cleanup` | `SelectJobs`, then per job `SweepObject`/`SweepFails`, `RecordJob`, `Commit` |
| `migrate`, each of its transactions | `StartMigration` or `MigrateBatch`, `Commit` |
| the store itself | `Land` |

A failed COMMIT may have committed, rolled back, or left the transaction (and the
write lock) open until the catalog is closed, as SQLite does when a deferred
foreign key is violated. After it the process is quarantined: only `EndView`,
`Close` and `Crash` are left to it.

Two switches stand for differences between deployments. `LateLanding` says that the
store may finish an upload whose caller gave it up or died, which an S3 request
in flight can do and a local rename cannot. `DeferredRefs` says whether the
application declared its foreign keys deferred: only then does COMMIT look at references
(`MayCommit`). Immediate ones are checked by the statement that would break them,
the final DELETE of `delete` or the application's INSERT, and COMMIT checks nothing.

`BlobStore` is what applications are promised, without leases, uploads or cleanup:
an id names nothing until a commit gives it bytes; from then on it names those
bytes, through metadata updates with growing versions, until a commit retires it
for good; a reader gets the bytes of a blob that was ready when it asked. The
refinement maps a blob to the bytes *actually in the store* under its key, so an
object that vanishes or changes under a live id breaks it.

### CatalogTransaction

One `Catalog` object; `adapter` says which of the two it was opened with. `conn` is what SQLite has (an open
transaction, its data, `query_only`), `pc`/`tx`/`saved` are the position and the
locals of `_sqlite_transaction`, `report` is what the application hears and `fate`
what became of the transaction in the file. Every statement of the boundary may
raise, and may have taken effect when it does. The MeldDB manager is external: the
model takes from `_melddb_transaction` what it relies on, namely that an outcome
error carries true evidence and that a bare control-flow exception is raised only
when everything is settled.

`AtomicTransaction` is the promise, on which the transactions of `BlobLifecycle` (`BeginTx` to
`RollbackFails`) rest: a transaction that writes starts with the file as it is, keeps everybody
else from changing it, and changes it once, to what its statements made of it, or not
at all; one in which an operation failed, or of a quarantined catalog, never does. The
refinement maps what would be committed (`staged`) to what SQLite's connection holds,
so a statement executed after SQLite has dropped the transaction, or a lock that
outlives it unnoticed, breaks it.

### AccessLease

One action per statement of `Lease.__init__`: probe for the owner table, BEGIN
EXCLUSIVE, create and insert, BEGIN or BEGIN EXCLUSIVE, read the owner (for a
shared lease this read is what takes the lock), with BUSY, a mismatch or death
possible at each; closing a lease may raise, and then its lock stays until the process
ends (`stuck`, pc `leaking`) while `_close` goes on with the next resource. `SharedLease` is the promise, a gate claimed for good and held
shared by many or exclusively by one, that lets `BlobLifecycle` take a lease in
one step: its `mode` is a participant's lease on the gates of the one catalog and
the one root it models.

### MetadataEvolution

The rows of one logical schema (`row`: state of the blob, schema version,
concurrency version, metadata), the newest declared version (`latest`), the jobs of
`ms_migrations` by target version (`job`), and per process the migration it is in the
loop of (`running`) and the record it read last (`seen`). Every action is one
committed transaction, because `migrations.run` and the methods of `Store` take one
each; a transaction that is rolled back, a dry run included, changes nothing here. The
storage side of an import is `BlobLifecycle`'s business, so an upload is just
finalized, in the version it was prepared for.

| code | actions |
|---|---|
| `Store.finalize`, `publish`, `delete` | `Finalize`, `Publish`, `Delete` |
| `Store.stat`, then `update_metadata` with the version seen | `Stat`, `Update` |
| `_initialize`, first time / job found under the plan's name | `Initialize` / `Resume` |
| `_batch` with rows / with none left | `Batch` / `LastBatch` |
| the loop of `run` left: done, `max_batches`, an exception, death | `Stop` |

A batch is the page of source rows after `last_id` up to some row: which one, the
batch size decides, and the model lets every row be it. There is one plan per target
version, as `UNIQUE(schema_name,target_version)` enforces; another plan for it is refused. The
constraints and triggers that `layout` generates are guards: only the latest
version is inserted, edited or deleted, and a version counts up by one.

`DocumentStore` is the promise. A document is what metadata *means*, in whichever version
of the schema it is written, so migrating it is a stuttering step; who has read one
may edit it while what was read is still true. That needs `TransformAssumption`: a
callback keeps the meaning. This is the caller's obligation (`docs/metadata.md` asks
for the same semantics on every resumption); with it `KeepsDocuments` says that the
machinery of batches adds nothing, loses nothing and transforms no row twice.

### BackupRestore

A source (a catalog and its objects, in use by other sessions until maintenance
excludes them), one artifact, and one destination that several calls of
`restore_backup` and other programs race for. What one transaction of a user may do to
the source is taken from `BlobCatalog` (`Committed`), so are `Sound` and `Kept`, which
say that rows are consistent and that every object they could need is there.

| code | actions |
|---|---|
| `backup`: `mkdir`, `catalog.snapshot`, `_entries`, `_replica`, `_copy_payloads`, `_write_json` | `StartBackup`, `Snapshot`, `CheckSnapshot`, `ReplicaOfArtifact`, `BackupObject`, `BeginManifest`, `EndManifest` |
| `_restore_backup` up to its checks; `mkdir`, leases, root, payloads, partial file, `os.link`, `unlink` | `Verify`; `MakeDestination`, `TakeGate`, `MakeRoot`, `MarkRoot`, `TakeRootGate`, `RestoreObject`, `WritePartial`, `LinkCatalog`, `Unlink` |
| an exception or death anywhere | `BackupFails`, `Maintenance`, `RestoreFails` |
| other users of the source; an upload given up that lands late | `Use`, `Maintain`, `Strand` |
| other programs at the destination: `Catalog(...)`, `LocalStorage(...)`, another catalog binding the root | `OpenCatalog`, `CloseCatalog`, `OpenRoot`, `MarkOpenedRoot`, `BindElsewhere` |
| files of the artifact damaged or lost after the backup | `Decay` |

Files are values or absent; only the manifest can be found half written (`Torn`),
because every other file is verified against it. A token is an object key here, as in
`BlobCatalog`.

### StorageIdentity

The markers that give a storage its id: one per local root, two per S3 location,
`local` in the coordination directory and `remote` at the prefix. `PutLocal` and
`ReadLocal` are `LocalStorage.__init__`; `Start`, `TakeGate`, then `FindMarker` and
`CheckRemote`, or `ListEmpty`, `WriteLocal`, `SendRemote` and `PutReturns` are
`S3Storage.__init__`. A put is in `flying` from when S3 was asked until it takes
effect, and `Leave` may come at any time in between: death, an error, or a timeout
whose request lands later (`Land`). `Torn` is a marker whose writer died between
`open("xb")` and the end of the write; `CopyMarker` is the user the comment in the code warns of.
`Replica` is the id a restore brings; `uuid4` never makes it again.

### Pagination

One scan by an application, page after page, and other sessions' commits between
them. `Later` and `After` are the branches of the `WHERE` clause that `compile_query`
builds from a cursor; `Less` and `Before` are `ORDER BY` as SQLite executes it, with NULL
first. `touched` are the rows that changed since the scan began, which the property
exempts. A cursor is the values of its row when the page was read.

### Export

`export_file` step by step against other exporters and another program that creates,
replaces and removes files. Managed names (catalog, gate, their sidecars, everything below the
storage root) are refused; a staged copy may come out wrong and is then not linked.

## 3. Runs

| run | instance | shows |
|---|---|---|
| `sharing` | 2 processes, 2 ids, 2 keys, 1 payload, 1 metadata value, versions to 2, 2 schema versions, immediate foreign keys, no late landing | `HInv` (the invariant that is proved inductive, with the history of ids), `NoDangling`, `StableReads`, `AnswersLeadOn`, `DoneMeansGone`, `SweptOnlyWhenQueued` |
| `promise` | 2 processes, 1 id, 2 keys, 2 payloads, 2 metadata values, versions to 2, 2 schema versions, deferred foreign keys, late landing | `KeepsItsPromise` (the refinement), `ResolvedForGood`, `LostImportIsRecognized` |
| `returns` | 2 processes, 1 id, 2 keys, 1 payload, 1 schema version, no symmetry, fairness | `CallsReturn`, `JobsGetDone` |
| `catalog_tx` | both adapters, 2 file contents, another writer, all faults | `IInv` (proved inductive), `ReportIsHonest`, `NothingLeaks`, `KeepsTransactions` (the refinement) |
| `documents` | 2 processes, 2 ids, 3 schema versions, 2 metadata values, versions to 3 | `KeepsDocuments` (the refinement), `IInv` (proved inductive), `VersionsIdentify`, `NoneForgotten` |
| `pages` | 2 processes, 3 ids, 2 schema versions, versions to 2 | `NothingBehind`, `CountsAddUp`, `MigrationsGoForward` |
| `completes` | 2 processes, 2 ids, 2 schema versions, no symmetry, fairness | `MigrationCompletes` |
| `leases` | 3 participants, 2 catalogs, 1 root | `IInv` (proved inductive), `MaintenanceIsAlone`, `SessionsAreLeased`, `OneCatalogPerRoot`, `GatesAreLeases` (the refinement) |
| `backups` | 2 ids, 2 keys, 1 payload, 1 metadata value, versions to 2, 2 schema versions, 2 restorers | `IInv` (proved inductive), `PublishedIsSound`, `ArtifactIsTheSource`, `NothingIsReplaced`, `OpenMeansQuiet` |
| `identities` | 3 constructors, 1 root, 2 prefixes, 2 directories, 4 ids, one of them a restore's | `IInv` (proved inductive), `OneIdentity`, `OwnersAreRecorded` |
| `scans` | 3 ids, 2 nullable fields, all 78 pairs of an order and a filter, limits 1 and 2 | `StableRowsOnce`, `PagesAdvance` |
| `exports` | 2 exporters, 2 blobs, a free and a managed name | `ExportsAreWhole` |

The bounds are small and still reach the interesting cases. Two processes suffice
for every race of the lifecycle because there is one writer and maintenance is
alone: one process is between two steps, the other does anything. Two keys let an
id be fought for by two uploads and let a batch of cleanup have two jobs; keys
are never reused, so they bound the number of uploads in a behaviour. Two ids let
one object be claimed by two of them. Two metadata values and two versions let two
updates race. Two schema versions (`MaxSchema`) let a migration start, run in one batch or two and
complete while uploads, tokens and rows of the first are about; chains of migrations are
in `documents`. In `returns` there is one, because temporal checking of the larger graph takes
minutes: what a migration can do to another's call is refuse it, which is an exception
between two transactions (`GiveUp`) like others.
Two payloads are needed where ids fight over what they name (`promise`); keys tell
uploads apart elsewhere. Three participants are needed for the leases, where one may be
initializing while one holds and one asks. Three schema versions let a migration be
started on the heels of another; three ids let one be imported before, in and after
the page of a batch, and two processes let the same migration run twice at once. In
`MCMetadataEvolution` the two metadata values change places from one version to the
next, so a row that is transformed not at all, or twice, changes its meaning. Ids, keys, payloads, metadata and
participants are only compared, so runs of safety properties use symmetry (in `MetadataEvolution` of processes only: ids are ordered there); runs of
liveness properties do not.

In `backups`, two keys let a backup die between two copies and let one upload be
unresolved beside a live blob; two restorers and the opener meet in every order at
one destination. In `identities`, three constructors are needed for a put that lands
after its sender, and the sender's successor, have both given up; two prefixes and
two directories for markers that name each other crosswise. In `scans` a field has
one value and NULL: ties and nulls are what the branches of the predicate are about,
the ids have three values and are the last column of every order, so comparison of
values by `<` and `>` takes place there; limits of 1 and 2 make a last page full, partial or
empty.

Deadlock is checked everywhere: a process can always open, close or die, stop or resume.

In `BlobLifecycle` fairness is assumed only of the steps a call takes by itself (`CallStep`): a thread
that has entered a call goes on executing it, an upload returns or raises, a wait
for the write lock ends with BUSY after the connection's timeout (`GiveUp`).
Nothing is assumed of the application, which may keep a transaction open for ever,
of other processes, or of the store.

`JobsGetDone` is conditional instead: *if* maintenance recurs (`RecurringCleanup`: there
are moments without any session, at some of which somebody opens exclusively and calls
`cleanup`, and deletions, their records and commits do not fail for ever) *then* every
job gets done. These are an operator's policy, not the code's scheduling: sessions that
always overlap keep maintenance out for good, and `cleanup` does not wait for them. What
the property shows is that no failure, crash or quarantine between two steps leaves a
job that no later cleanup takes up, and no live reference that makes `cleanup` refuse
its batch for ever. It assumes a `limit` that covers what is pending: `cleanup` selects
in the order of keys, so with a smaller one, jobs whose deletion always fails starve those
behind them.

`MigrationCompletes` does assume something of the application, because only it can
finish what it began: blobs left `publishing` get published, and some session keeps
calling `migrate` with the plan, which is the loop `docs/metadata.md` shows. Strong
fairness of its batches is needed because every other import disables them while
its blob is `publishing`. With finitely many ids, imports end some day; that an endless
stream of overlapping imports cannot starve a migration is *not* shown, and not true.
A row at `MaxVersion` (2^63 - 1) cannot be given another version: its batch fails
and the property excludes it.

## 4. Proofs

`BlobLifecycleProofs` proves `Spec => []IInv` with no assumption on the sizes of the
sets, on `LateLanding` or on `DeferredRefs`: only that `None` is none of the
values and `MaxVersion` and `MaxSchema` are positive. `NoDangling` is not inductive. What makes it so, in
`BlobLifecycleInv`:

* `CommittedIsSound`: every blob has token, metadata and journal row, its key is not
  queued, no two blobs share a token, orphans are not journaled, and the store
  *keeps* every journaled object that is not queued. The last part is what an import
  relies on between journaling and finalizing.
* `WorkIsSound`: the same of what the writer would commit, and that it only extends
  what is committed. A poisoned transaction is exempt, which is why `Commit` may
  not accept one.
* `ExclusiveIsAlone`, `CallsAreOrderly`: a process in `cleanup` is alone; the jobs it
  still has to do are pending in the committed catalog (they were validated in
  an earlier transaction, and nobody else can have run since).
* `ReadersAreServed`: the record a reader holds names a journaled object that is there;
  it survives retirement because cleanup would need the reader's lease.
* `UploadsAreNew`, `DoneIsFinal`: a key is uploaded once; without late landing only a
  waiting caller has an upload in flight, so nothing lands under a swept key.

`BlobCatalogProofs` has the lemmas that each catalog operation preserves `Sound`, extends
the catalog and keeps what is kept; the lifecycle proof then has one lemma per
action. From the invariant follow `TypeOK`, `NoDangling`, `StableReads`,
`OrphansStayUnknown`, `DoneMeansGone` (under `~LateLanding`) and the
action property `SweptOnlyWhenQueued`. That application references name blobs is a conjunct,
`ReferencesAreLive`: where they are immediate no COMMIT checks it, and it is
proved of every operation, `delete` first of all; where they are deferred, COMMIT's own
check (SQLite's) keeps it.

What `IInv` does not say is where a row came from. `HInv` adds that: `RowsAreOrderly`
(an id that was never used has neither metadata nor a version, a retired one has a token
but no metadata any more), `Succeeds` (what the writer would commit follows from what is committed as
ids may go on: forward through their states, never back, a token never exchanged,
nothing revoked made good), and `UploadIsRecorded` (a call that is about to finish its
import has its upload in the journal it works with). To `RowsAreOrderly` belongs
`TokensAreUsedOnce` (the token of a retired id was revoked as retired, and no other retired id
had it) and `RowsFollowSchema` (a row of a superseded version is ready, one version behind, and a
migration is on its way to it), and the last conjunct of `HInv` is `UploadsAreWelcome`: an upload
without a journal row looks like an orphan, and until the row is committed nobody may have
taken its key. `HInv` is needed because a commit
installs `work` in one step, after any number of operations by the application, and the
claims below compare the catalog before and after it:

* `ResolvedForGood` (theorem `AnswersAreFinal`): a commit leads `Onward`, and `resolve`
  asked about an id and a token that are retired or revoked has no way back.
* `LostImportIsRecognized` (`LostImportsAreFound`): the last transaction of an import commits
  exactly the row that a repeated call compares with.
* `AnswersLeadOn` (`AnswersAreGuidance`): what `resolve` answers can be acted upon, within what
  migrations leave open. An upload that is `prepared` has its bytes; it can be finalized as
  long as its schema version is the latest (`resolve` itself goes on calling it prepared
  afterwards), and discarded at any time, and is called discarded then. A blob can be published, and, unless a
  migration is running, deleted and edited (a version at the limit apart). A repeated import finds it;
  under a superseded schema, the call is refused before it looks. What is
  called retired, discarded or unknown no id can come to name. It needs
  `TokensAreUsedOnce`, because a retired token was revoked, so no other id has it or can get it, and
  `RowsFollowSchema`, because without a running migration every row has the latest version.
* `UploadsAreJournaled` (`UploadsGetJournaled`): no upload that succeeded is refused by the journal's
  trigger, whatever others queued, swept or uploaded while it went on. A migration
  that started meanwhile does refuse it, which is the property's condition.
* `CallsGoForward` (`CallsAdvance`) is the half of `CallsReturn` that needs no fairness: every change
  of a call, by its own step or another session's, ends it, leaves it one job less, or takes it
  to a later stage, so it can take only finitely many.
* `KeepsItsPromise` (`PromiseIsKept`): every step of `BlobLifecycle` is a step of `BlobStore` under the
  mapping of blobs to the bytes in the store, or none. Three facts carry it: who changes the
  store (`WhoChangesObjects`: only an upload that lands, where there is no object yet, and
  `cleanup`, of an object nothing needs any more), who changes the catalog (`WhoChangesTheCatalog`:
  only a commit, reported or lost, of a transaction in which nothing failed) and who changes what a reader holds
  (`WhoChangesViews`). With `BytesStay`, that a named object keeps its bytes, a commit becomes
  one transaction of the abstract store.

`MetadataEvolutionProofs` proves `IInv` of `MetadataEvolution`, for any processes, a
finite set of blobs and any number of schema versions, and from it each of
`NothingBehind`, `CountsAddUp`, `NoneForgotten` and `VersionsIdentify`, and that every
step implements a step of `DocumentStore` or none (`DocumentsAreKept`). The properties need each
other: batches leave nothing behind only because imports enter at the latest
version, which is the target of the one running job (`JobsInOrder`); that job is the only
one because the next cannot start before `NoneForgotten` says that everything is up to date; and
the refinement needs `VersionsIdentify`, because what a caller knows is abstracted to
"still current" by comparing versions alone. That nobody's expected version can match a row that was
retired and came back follows from `RowsAreWritten`: ids do not come back.
`MigrationsGoForward` (`MigrationsAdvance`) is the same half of `MigrationCompletes`: while a migration
runs, no step gives it another row to do or changes one that it has to do; a step that changes its job
transforms some of them, each once, or completes it with none left. With a finite number of
blobs it can therefore take only finitely many batches.

`CatalogTransactionProofs` proves `IInv` of `CatalogTransaction` and, from it, all
properties of its run. The invariant says for each place of the context manager what
is known there: the `query_only` setting and whether it has been saved
(`SettingIsKnown`), and whether the connection still has the transaction
(`TransactionIsKnown`: if SQLite rolled it back inside the with block, `_failed` is set, so
that neither another statement nor a COMMIT can follow outside a transaction).
`TransactionsAreAtomic` proves the refinement of `AtomicTransaction`: a few lemmas say
what a BEGIN, COMMIT or ROLLBACK that took effect, one that did not, and the end of the context
manager are in the abstract transaction, and each action, of either adapter, is one of these.
`NotYetFailed`, that no operation can have failed outside the with block, is all it
adds to `IInv`. Two consequences are stated of the code's own variables as well:
`OnlyCommitsWrite` (the file changes only by the COMMIT of a write transaction in which nothing
failed) and `QuarantinedIsInert` (a quarantined catalog does nothing until it is closed).

`StorageIdentityProofs` proves `IInv` of `StorageIdentity`, assuming only that the kinds
of values differ. Its core is that every put S3 has been asked for is `Recorded`: the
marker of its directory says the same, and markers are only ever written where there
are none. So it does not matter when, or for whom, a put takes effect. `OneIdentity`
follows because everybody who has a prefix open has compared its two markers.

`PaginationProofs` first proves, by cases on NULL and the direction, that the cursor's
predicate accepts exactly what `ORDER BY` puts after the cursor
(`CursorPredicateIsTheOrder`), and that this order is transitive and irreflexive. The
invariant `Accounted` then says of every matching row that was left alone that it has been
returned exactly if it does not come after the cursor; `StableRowsOnce` and `PagesAdvance`
follow, for any rows, fields, orders, filters and limits.

`AccessLeaseProofs` proves `IInv` of `AccessLease` for any participants, catalogs and
roots, assuming that paths and roots are different gates (`PathAssumption`). The invariant
follows a lease through its statements: what is locked while it is being taken
(`LockedMeanwhile`: an initializer holds its gate exclusively until the owner row is
committed, and nothing is held between the two transactions, so the owner read
there may be another's), which leases a session has by then, and that each of
them is on a gate whose owner is the session's catalog (`LeasesAreOwned`).
`LocksExclude` is what SQLite guarantees of each file. `MaintenanceIsAlone` then follows, because
two sessions of one catalog meet at its gate and two sessions at one root at the root's;
`OneCatalogPerRoot`, because the root's gate has one owner. `LeasesAreAtomic` proves that what
happens at each gate is a behaviour of `SharedLease`: the commit of the owner row is its `Claim`, the
owner check its `Acquire`, and the statements before and between are stuttering steps.
`AtomicLeasesExclude` proves of `SharedLease` itself that an exclusive holder is alone and that
all holders have the owner's catalog, so that the abstraction is known to be strong enough.

`BackupRestoreProofs` proves `IInv` of `BackupRestore` for any number of restorers, with the catalog
lemmas of `BlobCatalogProofs` for what users do to the source. It assumes that a file
half written is not a whole one (`TornAssumption`) and that the names of callers, gates
and markers are told apart (`NamesAssumption`). The invariant is a chain, in the order in which
the code does things, each link settled before the next relies on it and never replaced
after: the copied catalog is the source's while maintenance excludes users
(`BackupIsOrderly`); every copied object was verified against a journal
that no unresolved upload can still change (`Settled`, lemma `SettledIsKept`); the manifest comes last
and says what was copied (`ManifestIsSound`); a restore has the gate, its marker, the
root's owner and the objects up to where it has come (`RestoreIsOrderly`). What is at the destination stays there (`Grows`, shown for every action), so restorers do not disturb
one another; and damage to the artifact (`Decay`) does no harm, because what is
copied from it is compared with the manifest. From it follow `PublishedIsSound`, `OpenMeansQuiet`, `ArtifactIsTheSource` and
`NothingIsReplaced`, all properties of the run.

The same module proves `ExportsAreWhole` of `Export`: for any exporters, names, blobs and other
programs, a step of an exporter only ever turns an absent name into the whole bytes of the
blob it was asked for (`ExportsArePublishedWhole`). The invariant is that a staged file about to be linked
has been compared with the record, and that the check of the name excluded managed ones.

Only model-checked: `CallsReturn`, `JobsGetDone` and `MigrationCompletes`, because liveness
under fairness is out of the prover's reach. For the first and the last the measure
that makes them true is proved, as said above; what stays with TLC is that the steps are
enabled and fair.

## 5. Not modelled

* Validation of arguments, schemas, handlers and encodings: an operation that
  refuses its input is `TxRefused` (inside a transaction) or ends the call.
* `uuid4` collisions; more than one storage root per catalog in `BlobLifecycle`
  (tokens of another root are refused by id); more than one open view per process.
* In `BackupRestore`: the portable SQL file (written, verified and never read back), the
  syntax of manifests, migrations that a backup refuses as unfinished, the directories of
  S3 destinations. A restore to S3 replaces `MakeRoot` and `MarkRoot` by the protocol of
  `StorageIdentity` with `Replica`.
* In `Pagination`: normalization of values per field type, collations, and the limits on the
  numbers of terms and orders; an application that builds a cursor from a record it did
  not get from the scan.
* The short transactions at the start of an import that only read are folded into
  the start of its upload, a step in which nobody holds the write lock.
* Staging objects: never named by a row; `queue_orphans` treats them as it treats
  orphans.
* `reconcile`, `resolve`, `stat`, `find`: they change nothing. `resolve` is an operator used in
  properties.
* Application SQL that edits `ms_` tables, loss of power, bit rot, deletions that
  land late, and exceptions injected between two byte codes.
* The rebuild of a metadata table, beyond that it commits with the job or not at all:
  incoming foreign keys, coordination hooks, extra indexes.
* What a `close` that failed for the SQL connection itself leaves behind.
* Schemas, handlers and encodings have no state of their own that survives a call: DDL text
  is installed idempotently inside one transaction, codecs work on one private file,
  an encoding is an immutable row beside a token. Which schema version an operation was given,
  and whether that one may still write, is in the guards of `BlobCatalog`; that its declaration is
  the installed one is not.
* Migrations in `BlobLifecycle` beyond their transactions: a `Batch` there takes any rows
  and makes any metadata of them. More than one logical schema per catalog, anywhere.

## 6. Plan

1. *Done*: `BlobCatalog`, `BlobLifecycle`, `BlobStore`, their runs and the proofs
   above; `CatalogTransaction`; `AccessLease`, `SharedLease`.
2. *Done*: `MetadataEvolution`, `DocumentStore`, their runs, and the proof that one
   implements the other.
3. *Done*: `BackupRestore`, `StorageIdentity` (proved), `Export`.
4. *Done*: `Pagination` (proved). `CatalogTransaction` proved.
5. *Done*: liveness of cleanup (`JobsGetDone`).
6. *Done*: proofs of `AccessLease` and its refinement of `SharedLease`; of `BackupRestore`;
   of `ResolvedForGood`, `LostImportIsRecognized` and the refinement of `BlobStore`.
7. *Done*: proof of `Export`; what `resolve`'s answers promise (`AnswersLeadOn`), uploads that wait
   for their journal row; `AtomicTransaction` and its refinement; the measures behind the
   liveness of calls and of migrations; schema versions and migrations in `BlobCatalog` and
   `BlobLifecycle`.
8. Left: S3 restores as a composition of `BackupRestore` and `StorageIdentity`; liveness beyond
   the bounds of the runs.
