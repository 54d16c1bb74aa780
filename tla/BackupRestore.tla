--------------------------- MODULE BackupRestore ----------------------------
(***************************************************************************)
(* Offline backups and fresh-destination restores.  A source store, in use *)
(* or under maintenance, is backed up into an artifact, a directory whose  *)
(* manifest is written last.  Restorers copy the artifact into one         *)
(* destination, where the catalog is published last, while other programs  *)
(* may already try to open what is there.  Every step may fail or be the   *)
(* last of its process, and what was written stays.  `transfer` is the one *)
(* and the other.                                                          *)
(*                                                                         *)
(* The stores are local here; an S3 destination differs in its identity    *)
(* markers, see StorageIdentity.                                           *)
(***************************************************************************)
EXTENDS BlobCatalog, FiniteSets

CONSTANTS Restorer,   \* calls of restore_backup for one destination
          Torn        \* a file that was being written

ASSUME TornAssumption == Torn # None /\ Torn \notin Catalog

\* Callers, gates, markers and owners are told apart.
ASSUME NamesAssumption ==
  /\ None \notin Restorer \cup {"opener", "source", "fresh", "this", "other"}
  /\ "opener" \notin Restorer

VARIABLES source,       \* the live catalog and objects
          maintaining,  \* whether the catalog is open for maintenance
          backup,       \* the call of backup: its pc, and the keys left to copy
          artifact,     \* the files of the artifact
          restore,      \* each call of restore_backup
          dest,         \* the files, gates and owners of the destination
          opener        \* another program's catalog at the destination

vars == <<source, maintaining, backup, artifact, restore, dest, opener>>

Objects == [Key -> Content \cup {None}]
NoObjects == [k \in Key |-> None]
Idle == [pc |-> "idle", todo |-> {}]
Call(pcs) == [pc : pcs \cup {"idle"}, todo : SUBSET Key]

Manifest == [catalog : Catalog, objects : Objects]

TypeOK ==
  /\ source \in [catalog : Catalog, objects : Objects]
  /\ maintaining \in BOOLEAN
  /\ backup \in Call({"snapshot", "checking", "rooting", "copying", "describing"})
  /\ artifact \in [made : BOOLEAN, catalog : Catalog \cup {None},
                   marker : {"source", None}, objects : Objects,
                   manifest : Manifest \cup {None, Torn}]
  /\ restore \in [Restorer -> Call({"verified", "made", "gated", "rooting",
                                    "rooted", "copying", "linking", "unlinking"})]
  /\ dest \in [made : BOOLEAN, gate : Restorer \cup {"opener", None},
               root : BOOLEAN, marker : {"source", "fresh", None},
               owner : {"this", "other", None}, objects : Objects,
               partial : BOOLEAN, catalog : Catalog \cup {None}]
  /\ opener \in BOOLEAN

Init ==
  /\ source = [catalog |-> EmptyCatalog, objects |-> NoObjects]
  /\ maintaining = FALSE
  /\ backup = Idle
  /\ artifact = [made |-> FALSE, catalog |-> None, marker |-> None,
                 objects |-> NoObjects, manifest |-> None]
  /\ restore = [r \in Restorer |-> Idle]
  /\ dest = [made |-> FALSE, gate |-> None, root |-> FALSE, marker |-> None,
             owner |-> None, objects |-> NoObjects, partial |-> FALSE, catalog |-> None]
  /\ opener = FALSE

target == <<restore, dest, opener>>

----------------------------------------------------------------------------
(* The source, whose operations BlobLifecycle takes apart.                 *)

\* What one transaction makes of catalog d.
Committed(d) ==
  {Finalize(d, x[1], x[2], x[3]) :
     x \in {y \in Id \X Key \X Meta : CanFinalize(d, y[1], y[2])}}
  \cup {Publish(d, i) : i \in {j \in Id : CanPublish(d, j)}}
  \cup {Delete(d, i) : i \in {j \in Id : CanDelete(d, j, d.version[j])}}
  \cup {Discard(d, k) : k \in {l \in Key : CanDiscard(d, l)}}
  \cup {Supersede(e) : e \in {f \in {d} : CanSupersede(f)}}
  \cup {Batch(d, is, f) :
          is \in {js \in SUBSET Id : CanBatch(d, js)}, f \in [Id -> Meta]}

Upload(k, c) ==
  /\ Unclaimed(source.catalog, k)
  /\ source.objects[k] = None
  /\ source' = [catalog |-> Journal(source.catalog, k, c),
                objects |-> [source.objects EXCEPT ![k] = c]]

\* Variant: the store is used by others while it is backed up.
UseAnytime ==
  /\ \/ \E k \in Key, c \in Content : Upload(k, c)
     \/ \E d \in Committed(source.catalog) : source' = [source EXCEPT !.catalog = d]
  /\ UNCHANGED <<maintaining, backup, artifact, target>>
\* While backup runs the lease excludes everybody else.
Use ==
  /\ backup.pc = "idle"
  /\ \/ \E k \in Key, c \in Content : Upload(k, c)
     \/ \E d \in Committed(source.catalog) : source' = [source EXCEPT !.catalog = d]
  /\ UNCHANGED <<maintaining, backup, artifact, target>>

\* An upload its caller gave up; it may land during a backup.
Strand(k, c) ==
  /\ Unclaimed(source.catalog, k)
  /\ source.objects[k] = None
  /\ source' = [source EXCEPT !.objects[k] = c]
  /\ UNCHANGED <<maintaining, backup, artifact, target>>

\* Opened or closed with maintenance=True; closing it ends a backup, too.
Maintenance ==
  /\ maintaining' = ~ maintaining
  /\ backup' = Idle
  /\ UNCHANGED <<source, artifact, target>>

\* queue_orphans, and cleanup of one job.
Maintain(k) ==
  /\ maintaining
  /\ backup.pc = "idle"
  /\ \/ /\ CanQueueOrphans(source.catalog, {k})
        /\ source.objects[k] # None
        /\ source' = [source EXCEPT !.catalog = QueueOrphans(@, {k})]
     \/ /\ k \in Pending(source.catalog)
        /\ BatchIsDead(source.catalog, {k})
        /\ source' = [catalog |-> RecordSweep(source.catalog, k, TRUE),
                      objects |-> [source.objects EXCEPT ![k] = None]]
  /\ UNCHANGED <<maintaining, backup, artifact, target>>

----------------------------------------------------------------------------
(* backup.                                                                 *)

Backup(pc, next) == backup.pc = pc /\ backup' = [backup EXCEPT !.pc = next]

\* The destination must not exist; mkdir decides.
StartBackup ==
  /\ maintaining
  /\ Backup("idle", "snapshot")
  /\ ~ artifact.made
  /\ artifact' = [artifact EXCEPT !.made = TRUE]
  /\ UNCHANGED <<source, maintaining, target>>

Snapshot ==
  /\ Backup("snapshot", "checking")
  /\ artifact' = [artifact EXCEPT !.catalog = source.catalog]
  /\ UNCHANGED <<source, maintaining, target>>

\* Variant: rows without an object are kept.
EntriesLeftJoined(d) == {d.token[i] : i \in Id}
\* Keys whose objects the rows of catalog d need.
Entries(d) == {k \in Key : Bound(d, k)}

\* Variant: uploads that nothing was made of yet are not noticed.
CompleteUnresolved(d) ==
  /\ ~ d.migrating
  /\ \A i \in Id : Exists(d, i) => d.status[i] = "ready" /\ d.meta[i] # None
  /\ \A k \in Key : d.gc[k] # "pending"
  /\ \A i \in Id : Exists(d, i) => d.prepared[d.token[i]] # None /\ d.gc[d.token[i]] = "none"
\* `_entries` refuses catalogs with operations in progress, and unsound ones.
Settled(d) ==
  /\ ~ d.migrating
  /\ \A i \in Id : Exists(d, i) => d.status[i] = "ready" /\ d.meta[i] # None
  /\ \A k \in Key : d.gc[k] # "pending"
  /\ \A k \in Key : d.prepared[k] # None =>
       Bound(d, k) \/ (Revoked(d, k) /\ d.gc[k] = "done")
  /\ \A i \in Id : Exists(d, i) => d.prepared[d.token[i]] # None /\ d.gc[d.token[i]] = "none"

\* The SQL export is written in the same step: nothing is read back from it.
CheckSnapshot ==
  /\ backup.pc = "checking"
  /\ Settled(artifact.catalog)
  /\ backup' = [pc |-> "rooting", todo |-> Entries(artifact.catalog)]
  /\ UNCHANGED <<source, maintaining, artifact, target>>

ReplicaOfArtifact ==
  /\ Backup("rooting", "copying")
  /\ artifact' = [artifact EXCEPT !.marker = "source"]
  /\ UNCHANGED <<source, maintaining, target>>

\* Both sides of a copy are verified.
BackupObject(k) ==
  /\ backup.pc = "copying"
  /\ k \in backup.todo
  /\ source.objects[k] = artifact.catalog.prepared[k]
  /\ artifact' = [artifact EXCEPT !.objects[k] = source.objects[k]]
  /\ backup' = [backup EXCEPT !.todo = @ \ {k}]
  /\ UNCHANGED <<source, maintaining, target>>

Describe ==
  [catalog |-> artifact.catalog,
   objects |-> [k \in Key |-> IF k \in Entries(artifact.catalog)
                                THEN artifact.catalog.prepared[k] ELSE None]]

BeginManifest ==
  /\ backup.todo = {}
  /\ Backup("copying", "describing")
  /\ artifact' = [artifact EXCEPT !.manifest = Torn]
  /\ UNCHANGED <<source, maintaining, target>>

EndManifest ==
  /\ Backup("describing", "idle")
  /\ artifact' = [artifact EXCEPT !.manifest = Describe]
  /\ UNCHANGED <<source, maintaining, target>>

\* An exception; death is Maintenance.
BackupFails ==
  /\ backup.pc # "idle"
  /\ backup' = Idle
  /\ UNCHANGED <<source, maintaining, artifact, target>>

\* A file of a finished artifact gets lost or damaged.
Decay ==
  /\ artifact.manifest \notin {None, Torn}
  /\ \/ artifact' = [artifact EXCEPT !.catalog = None]
     \/ \E k \in Key, c \in Content \cup {None} :
          artifact.objects[k] # None /\ artifact' = [artifact EXCEPT !.objects[k] = c]
  /\ UNCHANGED <<source, maintaining, backup, target>>

----------------------------------------------------------------------------
(* restore_backup.                                                         *)

At(r, pc) == restore[r].pc = pc
Restore(r, pc, next) == At(r, pc) /\ restore' = [restore EXCEPT ![r].pc = next]
unrelated == <<source, maintaining, backup, artifact, opener>>

\* The destination is fresh, the manifest whole, and everything it describes
\* but the payloads as it says.
Verify(r) ==
  LET m == artifact.manifest IN
  /\ At(r, "idle")
  /\ ~ dest.made
  /\ m \notin {None, Torn}
  /\ artifact.catalog = m.catalog
  /\ Settled(artifact.catalog)
  /\ m = Describe
  /\ restore' = [restore EXCEPT ![r] = [pc |-> "verified", todo |-> Entries(m.catalog)]]
  /\ UNCHANGED <<dest, unrelated>>

MakeDestination(r) ==
  /\ Restore(r, "verified", "made")
  /\ ~ dest.made
  /\ dest' = [dest EXCEPT !.made = TRUE]
  /\ UNCHANGED unrelated

\* Variant: a shared lease, which an open catalog does not prevent.
ShareGate(r) ==
  /\ Restore(r, "made", "gated")
  /\ UNCHANGED <<dest, unrelated>>
\* Nobody has the future catalog open.
TakeGate(r) ==
  /\ Restore(r, "made", "gated")
  /\ dest.gate = None
  /\ dest' = [dest EXCEPT !.gate = r]
  /\ UNCHANGED unrelated

\* LocalStorage._replica: mkdir, then a create-only put of the identity.
MakeRoot(r) ==
  /\ Restore(r, "gated", "rooting")
  /\ ~ dest.root
  /\ dest' = [dest EXCEPT !.root = TRUE]
  /\ UNCHANGED unrelated

MarkRoot(r) ==
  /\ Restore(r, "rooting", "rooted")
  /\ dest.marker = None
  /\ dest' = [dest EXCEPT !.marker = "source"]
  /\ UNCHANGED unrelated

\* The root belongs to the first catalog that leases it.
TakeRootGate(r) ==
  /\ Restore(r, "rooted", "copying")
  /\ dest.owner # "other"
  /\ dest' = [dest EXCEPT !.owner = "this"]
  /\ UNCHANGED unrelated

RestoreObject(r, k) ==
  /\ At(r, "copying")
  /\ k \in restore[r].todo
  /\ artifact.objects[k] = artifact.manifest.objects[k]
  /\ dest.objects[k] = None
  /\ dest' = [dest EXCEPT !.objects[k] = artifact.objects[k]]
  /\ restore' = [restore EXCEPT ![r].todo = @ \ {k}]
  /\ UNCHANGED unrelated

\* Written beside its final name, and verified there.
WritePartial(r) ==
  /\ restore[r].todo = {}
  /\ Restore(r, "copying", "linking")
  /\ artifact.catalog = artifact.manifest.catalog
  /\ ~ dest.partial
  /\ dest' = [dest EXCEPT !.partial = TRUE]
  /\ UNCHANGED unrelated

\* Variant: a catalog that is there already is replaced.
ReplaceCatalog(r) ==
  /\ Restore(r, "linking", "unlinking")
  /\ dest' = [dest EXCEPT !.catalog = artifact.manifest.catalog]
  /\ UNCHANGED unrelated
\* A hard link publishes the catalog and never replaces one.
LinkCatalog(r) ==
  /\ Restore(r, "linking", "unlinking")
  /\ dest.catalog = None
  /\ dest' = [dest EXCEPT !.catalog = artifact.manifest.catalog]
  /\ UNCHANGED unrelated

Unlink(r) ==
  /\ Restore(r, "unlinking", "idle")
  /\ dest' = [dest EXCEPT !.partial = FALSE, !.gate = None]
  /\ UNCHANGED unrelated

\* An exception or death: files stay, leases do not.
RestoreFails(r) ==
  /\ ~ At(r, "idle")
  /\ restore' = [restore EXCEPT ![r] = Idle]
  /\ dest' = [dest EXCEPT !.gate = IF @ = r THEN None ELSE @]
  /\ UNCHANGED unrelated

----------------------------------------------------------------------------
(* Other programs at the destination.                                      *)

others == <<source, maintaining, backup, artifact, restore>>

\* Catalog(...) creates an empty catalog where there is none.
OpenCatalog ==
  /\ dest.made
  /\ dest.gate = None
  /\ opener' = TRUE
  /\ dest' = [dest EXCEPT !.gate = "opener",
                          !.catalog = IF @ = None THEN EmptyCatalog ELSE @]
  /\ UNCHANGED others

CloseCatalog ==
  /\ opener
  /\ opener' = FALSE
  /\ dest' = [dest EXCEPT !.gate = None]
  /\ UNCHANGED others

\* LocalStorage(...) makes the root and all its parents, or uses what is there;
\* then it marks a root that has no identity.
OpenRoot ==
  /\ ~ dest.root
  /\ dest' = [dest EXCEPT !.made = TRUE, !.root = TRUE]
  /\ UNCHANGED <<others, opener>>

MarkOpenedRoot ==
  /\ dest.root
  /\ dest.marker = None
  /\ dest' = [dest EXCEPT !.marker = "fresh"]
  /\ UNCHANGED <<others, opener>>

\* Another catalog binds the root before this one has.
BindElsewhere ==
  /\ dest.marker # None
  /\ dest.owner = None
  /\ dest' = [dest EXCEPT !.owner = "other"]
  /\ UNCHANGED <<others, opener>>

Next ==
  \/ Use \/ Maintenance
  \/ \E k \in Key : Maintain(k) \/ \E c \in Content : Strand(k, c)
  \/ StartBackup \/ Snapshot \/ CheckSnapshot \/ ReplicaOfArtifact
  \/ \E k \in Key : BackupObject(k)
  \/ BeginManifest \/ EndManifest \/ BackupFails \/ Decay
  \/ \E r \in Restorer :
       \/ Verify(r) \/ MakeDestination(r) \/ TakeGate(r) \/ MakeRoot(r)
       \/ MarkRoot(r) \/ TakeRootGate(r) \/ \E k \in Key : RestoreObject(r, k)
       \/ WritePartial(r) \/ LinkCatalog(r) \/ Unlink(r) \/ RestoreFails(r)
  \/ OpenCatalog \/ CloseCatalog \/ OpenRoot \/ MarkOpenedRoot \/ BindElsewhere

Spec == Init /\ [][Next]_vars
----------------------------------------------------------------------------
(* Properties.                                                             *)

\* A backup that completes is the source as it is at that moment, payloads and
\* all: the snapshot and the copies, taken one after the other, are one cut
\* (backup under require_maintenance).
ArtifactIsTheSource ==
  [][artifact'.manifest \notin {artifact.manifest, Torn} =>
       /\ artifact'.manifest.catalog = source.catalog
       /\ artifact'.manifest = Describe
       /\ artifact'.marker = "source"
       /\ \A k \in Entries(source.catalog) :
            artifact'.objects[k] = source.objects[k] /\ source.objects[k] # None]_vars

\* Whatever catalog appears at a destination, at whatever moment, is one that
\* can be worked with: its rows are sound and the root beside it has, under the
\* identity the rows name, every object that an operation of the catalog could
\* still need, a finalize of an old token included.  A restored one is the one
\* of the manifest (_entries, _restore_backup).
PublishedIsSound ==
  dest.catalog # None =>
    /\ Sound(dest.catalog)
    /\ Kept(dest.catalog, dest.objects)
    /\ dest.catalog # EmptyCatalog =>
         /\ dest.catalog = artifact.manifest.catalog
         /\ dest.marker = "source"
         /\ dest.owner = "this"

\* No step replaces a file that is at the destination, whoever put it there:
\* not the catalog, not the root's identity or owner, not an object.
NothingIsReplaced ==
  [][/\ dest.catalog # None => dest'.catalog = dest.catalog
     /\ dest.marker # None => dest'.marker = dest.marker
     /\ dest.owner # None => dest'.owner = dest.owner
     /\ \A k \in Key : dest.objects[k] # None => dest'.objects[k] = dest.objects[k]]_vars

\* While a program has the catalog of a destination open, no restore is at work
\* on the destination (the exclusive gate of _restore_backup).
OpenMeansQuiet ==
  opener => \A r \in Restorer : restore[r].pc \in {"idle", "verified", "made"}

----------------------------------------------------------------------------
(* The inductive invariant.                                                *)

\* The manifest is written once, last, and not touched again.
Described == artifact.manifest \notin {None, Torn}

\* What backup has copied is what it read, of a source that stands still but for
\* uploads that land late.
BackupIsOrderly ==
  /\ backup.pc # "idle" => artifact.made /\ ~ Described
  /\ backup.pc \in {"checking", "rooting", "copying", "describing"} =>
       artifact.catalog = source.catalog
  /\ backup.pc \in {"rooting", "copying", "describing"} =>
       /\ Settled(artifact.catalog)
       /\ \A k \in Entries(artifact.catalog) \ backup.todo :
            /\ artifact.objects[k] = artifact.catalog.prepared[k]
            /\ source.objects[k] = artifact.catalog.prepared[k]
  /\ backup.pc \in {"copying", "describing"} => artifact.marker = "source"
  /\ backup.pc = "describing" => backup.todo = {}

\* A manifest that is whole describes a sound catalog with all it could need.
ManifestIsSound ==
  Described =>
    LET m == artifact.manifest IN
    /\ artifact.made
    /\ Sound(m.catalog)
    /\ Settled(m.catalog)
    /\ m.objects = [k \in Key |-> IF k \in Entries(m.catalog)
                                    THEN m.catalog.prepared[k] ELSE None]

\* A restore has a manifest to go by, the gate from TakeGate on, its own marker
\* and owner at the root, and the objects it has copied.
RestoreIsOrderly(r) ==
  LET s == restore[r]
      m == artifact.manifest
  IN
  /\ s.pc # "idle" => Described
  /\ s.pc \notin {"idle", "verified"} => dest.made
  /\ s.pc \notin {"idle", "verified", "made"} => dest.gate = r
  /\ s.pc \in {"verified", "made", "gated", "rooting", "rooted"} =>
       s.todo = Entries(m.catalog)
  /\ s.pc \in {"rooted", "copying", "linking", "unlinking"} => dest.marker = "source"
  /\ s.pc \in {"copying", "linking", "unlinking"} =>
       /\ dest.owner = "this"
       /\ \A k \in Entries(m.catalog) \ s.todo : dest.objects[k] = m.objects[k]
  /\ s.pc \in {"linking", "unlinking"} => s.todo = {}

\* Why what is published is sound: everything a step relies on was settled
\* before it and is never replaced, and the gates keep others out.
IInv ==
  /\ TypeOK
  /\ Sound(source.catalog)
  /\ BackupIsOrderly
  /\ ManifestIsSound
  /\ \A r \in Restorer : RestoreIsOrderly(r)
  /\ opener => dest.gate = "opener"
  /\ dest.catalog \notin {None, EmptyCatalog} => Described
  /\ PublishedIsSound
=============================================================================
