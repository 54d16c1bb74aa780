------------------------ MODULE BackupRestoreProofs -------------------------
(***************************************************************************)
(* The invariant IInv of BackupRestore is inductive, for any blobs, keys,  *)
(* payloads and restorers; what appears at a destination is sound, what is *)
(* there is never replaced, and a manifest describes the source as it is.  *)
(* Exports, which publish files in the same way, follow at the end.        *)
(***************************************************************************)
EXTENDS BackupRestore, BlobCatalogProofs

----------------------------------------------------------------------------
(* What backup and restore count on.                                       *)

\* Objects that rows need were journaled.
LEMMA EntriesAreJournaled ==
  ASSUME NEW d \in Catalog, Settled(d), NEW k \in Entries(d)
  PROVE  k \in Key /\ d.prepared[k] # None
BY DEF Settled, Entries, Bound

\* A store that has the entries of a settled catalog has all the catalog needs.
LEMMA SettledIsKept ==
  ASSUME NEW d \in Catalog, Settled(d), NEW obj,
         \A k \in Entries(d) : obj[k] = d.prepared[k]
  PROVE  Kept(d, obj)
BY DEF Settled, Entries, Kept

\* What is at the destination stays there.
Grows ==
  /\ dest.made => dest'.made
  /\ dest.catalog # None => dest'.catalog = dest.catalog
  /\ dest.marker # None => dest'.marker = dest.marker
  /\ dest.owner # None => dest'.owner = dest.owner
  /\ \A k \in Key : dest.objects[k] # None => dest'.objects[k] = dest.objects[k]

LEMMA ManifestFacts ==
  ASSUME IInv, Described
  PROVE  /\ artifact.manifest \in Manifest
         /\ artifact.manifest.catalog \in Catalog
         /\ Sound(artifact.manifest.catalog)
         /\ Settled(artifact.manifest.catalog)
         /\ \A k \in Entries(artifact.manifest.catalog) :
              /\ k \in Key
              /\ artifact.manifest.objects[k] = artifact.manifest.catalog.prepared[k]
              /\ artifact.manifest.objects[k] # None
         /\ backup.pc = "idle"
<1>1. /\ artifact.manifest \in Manifest /\ artifact.manifest.catalog \in Catalog
      /\ backup.pc = "idle"
  BY DEF IInv, TypeOK, Described, Manifest, BackupIsOrderly
<1>2. /\ Sound(artifact.manifest.catalog) /\ Settled(artifact.manifest.catalog)
      /\ \A k \in Key : k \in Entries(artifact.manifest.catalog) =>
           artifact.manifest.objects[k] = artifact.manifest.catalog.prepared[k]
  BY DEF IInv, ManifestIsSound
<1>. QED BY <1>1, <1>2, EntriesAreJournaled

----------------------------------------------------------------------------
(* Steps at the source and the artifact.                                   *)

\* No restore and no catalog of a restore is there before a manifest is.
LEMMA TargetStays ==
  ASSUME IInv, UNCHANGED target, artifact'.manifest = artifact.manifest \/ ~ Described,
         TypeOK', Sound(source.catalog)', BackupIsOrderly', ManifestIsSound'
  PROVE  IInv'
<1>1. ASSUME NEW r \in Restorer
      PROVE  RestoreIsOrderly(r)'
  <2>1. RestoreIsOrderly(r) /\ restore' = restore /\ dest' = dest
    BY DEF IInv, target
  <2>2. CASE artifact'.manifest = artifact.manifest
    BY <2>1, <2>2 DEF RestoreIsOrderly, Described
  <2>3. CASE ~ Described
    BY <2>1, <2>3 DEF RestoreIsOrderly
  <2>. QED BY <2>2, <2>3
<1>2. /\ opener' => dest'.gate = "opener"
      /\ dest'.catalog \notin {None, EmptyCatalog} => Described'
  BY DEF IInv, target, Described
<1>3. PublishedIsSound'
  <2>1. PublishedIsSound /\ dest' = dest
    BY DEF IInv, target
  <2>2. dest.catalog \notin {None, EmptyCatalog} => artifact'.manifest = artifact.manifest
    BY DEF IInv
  <2>. QED BY <2>1, <2>2 DEF PublishedIsSound
<1>. QED BY <1>1, <1>2, <1>3 DEF IInv

\* The same when the artifact stays, and no backup is running.
LEMMA SourceMoves ==
  ASSUME IInv, UNCHANGED target, UNCHANGED artifact, backup'.pc = "idle",
         TypeOK', Sound(source.catalog)'
  PROVE  IInv'
<1>1. BackupIsOrderly'
  BY DEF BackupIsOrderly
<1>2. ManifestIsSound'
  BY DEF IInv, ManifestIsSound, Described
<1>. QED BY <1>1, <1>2, TargetStays

LEMMA InitEstablishesIInv == Init => IInv
<1> SUFFICES ASSUME Init PROVE IInv
  OBVIOUS
<1>1. TypeOK
  BY EmptyIsSound DEF Init, TypeOK, Objects, NoObjects, Call, Idle
<1>2. Sound(source.catalog)
  BY EmptyIsSound DEF Init
<1>3. BackupIsOrderly /\ ManifestIsSound
  BY DEF Init, BackupIsOrderly, ManifestIsSound, Described, Idle
<1>4. \A r \in Restorer : RestoreIsOrderly(r)
  BY DEF Init, RestoreIsOrderly, Idle
<1>. QED BY <1>1, <1>2, <1>3, <1>4 DEF Init, IInv, PublishedIsSound

LEMMA CommittedIsSound ==
  ASSUME NEW d \in Catalog, Sound(d), NEW e \in Committed(d)
  PROVE  e \in Catalog /\ Sound(e)
<1>1. ASSUME NEW i \in Id, NEW k \in Key, NEW m \in Meta,
             CanFinalize(d, i, k), e = Finalize(d, i, k, m)
      PROVE  e \in Catalog /\ Sound(e)
  BY <1>1, FinalizeIsSound DEF Follows
<1>2. ASSUME NEW i \in Id, CanPublish(d, i), e = Publish(d, i)
      PROVE  e \in Catalog /\ Sound(e)
  BY <1>2, PublishIsSound DEF Follows
<1>3. ASSUME NEW i \in Id, CanDelete(d, i, d.version[i]), e = Delete(d, i)
      PROVE  e \in Catalog /\ Sound(e)
  BY <1>3, DeleteIsSound DEF Follows, CanDelete
<1>4. ASSUME NEW k \in Key, CanDiscard(d, k), e = Discard(d, k)
      PROVE  e \in Catalog /\ Sound(e)
  BY <1>4, DiscardIsSound DEF Follows
<1>5. ASSUME CanSupersede(d), e = Supersede(d)
      PROVE  e \in Catalog /\ Sound(e)
  BY <1>5, SupersedeIsSound DEF Follows
<1>6. ASSUME NEW is \in SUBSET Id, NEW f \in [Id -> Meta], CanBatch(d, is),
             e = Batch(d, is, f)
      PROVE  e \in Catalog /\ Sound(e)
  BY <1>6, BatchIsSound DEF Follows
<1>7. \/ \E i \in Id, k \in Key, m \in Meta :
           CanFinalize(d, i, k) /\ e = Finalize(d, i, k, m)
      \/ \E i \in Id : CanPublish(d, i) /\ e = Publish(d, i)
      \/ \E i \in Id : CanDelete(d, i, d.version[i]) /\ e = Delete(d, i)
      \/ \E k \in Key : CanDiscard(d, k) /\ e = Discard(d, k)
      \/ CanSupersede(d) /\ e = Supersede(d)
      \/ \E is \in SUBSET Id, f \in [Id -> Meta] : CanBatch(d, is) /\ e = Batch(d, is, f)
  BY DEF Committed
<1>. QED BY <1>1, <1>2, <1>3, <1>4, <1>5, <1>6, <1>7

LEMMA UseKeeps == ASSUME IInv, Use PROVE IInv'
<1>1. /\ UNCHANGED target /\ UNCHANGED artifact /\ backup'.pc = "idle"
      /\ UNCHANGED <<maintaining, backup, restore, dest, opener>>
  BY DEF Use, target
<1>2. /\ source.catalog \in Catalog /\ Sound(source.catalog)
      /\ source \in [catalog : Catalog, objects : Objects]
  BY DEF IInv, TypeOK
<1> DEFINE Fits == /\ source' \in [catalog : Catalog, objects : Objects]
                   /\ Sound(source'.catalog)
<1>3. Fits
  <2>1. ASSUME NEW k \in Key, NEW c \in Content, Upload(k, c)
        PROVE  Fits
    BY <1>2, <2>1, JournalIsSound DEF Upload, Objects
  <2>2. ASSUME NEW d \in Committed(source.catalog), source' = [source EXCEPT !.catalog = d]
        PROVE  Fits
    BY <1>2, <2>2, CommittedIsSound
  <2>. QED BY <2>1, <2>2 DEF Use
<1>4. TypeOK'
  BY <1>1, <1>3 DEF IInv, TypeOK
<1>. QED BY <1>1, <1>3, <1>4, SourceMoves

\* An upload that lands late changes no object anybody had.
LEMMA StrandKeeps ==
  ASSUME IInv, NEW k \in Key, NEW c \in Content, Strand(k, c)
  PROVE  IInv'
<1>1. /\ UNCHANGED target /\ UNCHANGED <<artifact, backup, maintaining>>
      /\ UNCHANGED <<restore, dest, opener>>
      /\ source'.catalog = source.catalog
      /\ source' \in [catalog : Catalog, objects : Objects]
      /\ \A l \in Key : source.objects[l] # None => source'.objects[l] = source.objects[l]
  BY DEF Strand, target, IInv, TypeOK, Objects
<1>2. TypeOK' /\ Sound(source.catalog)'
  BY <1>1 DEF IInv, TypeOK
<1>3. ManifestIsSound'
  BY <1>1 DEF IInv, ManifestIsSound, Described
<1>4. BackupIsOrderly'
  <2>1. BackupIsOrderly
    BY DEF IInv
  <2>2. ASSUME backup.pc \in {"rooting", "copying", "describing"},
               NEW l \in Entries(artifact.catalog) \ backup.todo
        PROVE  source'.objects[l] = artifact.catalog.prepared[l]
    <3>1. artifact.catalog \in Catalog /\ Settled(artifact.catalog)
      BY <2>1, <2>2 DEF BackupIsOrderly, IInv, TypeOK
    <3>2. l \in Key /\ artifact.catalog.prepared[l] # None
      BY <3>1, EntriesAreJournaled
    <3>. QED BY <1>1, <2>1, <2>2, <3>2 DEF BackupIsOrderly
  <2>. QED BY <1>1, <2>1, <2>2 DEF BackupIsOrderly, Described
<1>. QED BY <1>1, <1>2, <1>3, <1>4, TargetStays

LEMMA MaintenanceKeeps == ASSUME IInv, Maintenance PROVE IInv'
<1>1. /\ UNCHANGED target /\ UNCHANGED artifact /\ backup' = Idle
      /\ UNCHANGED <<source, restore, dest, opener>> /\ maintaining' \in BOOLEAN
  BY DEF Maintenance, target, IInv, TypeOK
<1>2. TypeOK' /\ Sound(source.catalog)'
  BY <1>1 DEF IInv, TypeOK, Call, Idle
<1>. QED BY <1>1, <1>2, SourceMoves DEF Idle

LEMMA MaintainKeeps ==
  ASSUME IInv, NEW k \in Key, Maintain(k)
  PROVE  IInv'
<1>1. /\ UNCHANGED target /\ UNCHANGED artifact /\ backup'.pc = "idle"
      /\ UNCHANGED <<maintaining, backup, restore, dest, opener>>
  BY DEF Maintain, target
<1>2. /\ source.catalog \in Catalog /\ Sound(source.catalog)
      /\ source \in [catalog : Catalog, objects : Objects]
  BY DEF IInv, TypeOK
<1> DEFINE Fits == /\ source' \in [catalog : Catalog, objects : Objects]
                   /\ Sound(source'.catalog)
<1>3. Fits
  <2>1. ASSUME CanQueueOrphans(source.catalog, {k}),
               source' = [source EXCEPT !.catalog = QueueOrphans(@, {k})]
        PROVE  Fits
    <3>1. {k} \in SUBSET Key
      OBVIOUS
    <3>. QED BY <1>2, <2>1, <3>1, QueueOrphansIsSound DEF Follows
  <2>2. ASSUME source' = [catalog |-> RecordSweep(source.catalog, k, TRUE),
                          objects |-> [source.objects EXCEPT ![k] = None]]
        PROVE  Fits
    BY <1>2, <2>2, RecordSweepIsSound DEF Objects
  <2>. QED BY <2>1, <2>2 DEF Maintain
<1>4. TypeOK'
  BY <1>1, <1>3 DEF IInv, TypeOK
<1>. QED BY <1>1, <1>3, <1>4, SourceMoves

----------------------------------------------------------------------------
(* The backup.                                                             *)

\* What TypeOK says of the call and of the artifact.
BackupCall == Call({"snapshot", "checking", "rooting", "copying", "describing"})
Artifact == [made : BOOLEAN, catalog : Catalog \cup {None}, marker : {"source", None},
             objects : Objects, manifest : Manifest \cup {None, Torn}]

\* A step of the backup has the right type if the call and the artifact have.
LEMMA BackupStepType ==
  ASSUME TypeOK, backup' \in BackupCall, artifact' \in Artifact,
         UNCHANGED <<source, maintaining, restore, dest, opener>>
  PROVE  TypeOK'
BY DEF TypeOK, BackupCall, Artifact

LEMMA BackupMoves ==
  ASSUME TypeOK, NEW pc \in {"snapshot", "checking", "rooting", "copying", "describing"}
  PROVE  [backup EXCEPT !.pc = pc] \in BackupCall
BY DEF TypeOK, BackupCall, Call

LEMMA StartBackupKeeps == ASSUME IInv, StartBackup PROVE IInv'
<1>1. /\ UNCHANGED target /\ UNCHANGED <<source, maintaining, restore, dest, opener>>
      /\ backup.pc = "idle" /\ backup' = [backup EXCEPT !.pc = "snapshot"]
      /\ ~ artifact.made /\ artifact' = [artifact EXCEPT !.made = TRUE]
  BY DEF StartBackup, Backup, target
<1>2. TypeOK' /\ Sound(source.catalog)'
  <2>1. TypeOK /\ Sound(source.catalog)
    BY DEF IInv
  <2>2. backup' \in BackupCall
    BY <1>1, <2>1, BackupMoves
  <2>3. artifact' \in Artifact
    BY <1>1, <2>1 DEF TypeOK, Artifact
  <2>. QED BY <1>1, <2>1, <2>2, <2>3, BackupStepType
<1>3. ~ Described /\ artifact'.manifest = artifact.manifest /\ artifact'.made
      /\ backup'.pc = "snapshot"
  BY <1>1 DEF IInv, ManifestIsSound, TypeOK, Call
<1>4. BackupIsOrderly' /\ ManifestIsSound'
  BY <1>3 DEF BackupIsOrderly, ManifestIsSound, Described
<1>. QED BY <1>1, <1>2, <1>3, <1>4, TargetStays

\* A step of a running backup that leaves the source alone.
LEMMA BackupGoesOn ==
  ASSUME IInv, UNCHANGED target, UNCHANGED <<source, maintaining>>,
         backup.pc # "idle", TypeOK', BackupIsOrderly',
         ~ Described', artifact'.made = artifact.made
  PROVE  IInv'
<1>1. ~ Described
  BY DEF IInv, BackupIsOrderly
<1>2. ManifestIsSound' /\ Sound(source.catalog)'
  BY DEF ManifestIsSound, IInv
<1>. QED BY <1>1, <1>2, TargetStays

LEMMA SnapshotKeeps == ASSUME IInv, Snapshot PROVE IInv'
<1>1. /\ UNCHANGED target /\ UNCHANGED <<source, maintaining>>
      /\ UNCHANGED <<restore, dest, opener>>
      /\ backup.pc = "snapshot" /\ backup' = [backup EXCEPT !.pc = "checking"]
      /\ artifact' = [artifact EXCEPT !.catalog = source.catalog]
  BY DEF Snapshot, Backup, target
<1>2. TypeOK'
  <2>1. TypeOK
    BY DEF IInv
  <2>2. backup' \in BackupCall
    BY <1>1, <2>1, BackupMoves
  <2>3. artifact' \in Artifact
    BY <1>1, <2>1 DEF TypeOK, Artifact
  <2>. QED BY <1>1, <2>1, <2>2, <2>3, BackupStepType
<1>3. /\ backup'.pc = "checking" /\ artifact'.catalog = source.catalog
      /\ artifact'.made = artifact.made /\ artifact'.manifest = artifact.manifest
  BY <1>1 DEF IInv, TypeOK, Call
<1>4. artifact.made /\ ~ Described
  BY <1>1 DEF IInv, BackupIsOrderly
<1>5. BackupIsOrderly' /\ ~ Described'
  BY <1>1, <1>3, <1>4 DEF BackupIsOrderly, Described
<1>. QED BY <1>1, <1>2, <1>3, <1>5, BackupGoesOn

LEMMA CheckSnapshotKeeps == ASSUME IInv, CheckSnapshot PROVE IInv'
<1>1. /\ UNCHANGED target /\ UNCHANGED <<source, maintaining>>
      /\ UNCHANGED <<restore, dest, opener, artifact>>
      /\ backup.pc = "checking" /\ Settled(artifact.catalog)
      /\ backup' = [pc |-> "rooting", todo |-> Entries(artifact.catalog)]
  BY DEF CheckSnapshot, target
<1>2. TypeOK'
  BY <1>1 DEF IInv, TypeOK, Call, Entries
<1>3. BackupIsOrderly' /\ ~ Described'
  BY <1>1 DEF IInv, BackupIsOrderly, Described
<1>. QED BY <1>1, <1>2, <1>3, BackupGoesOn

LEMMA ReplicaOfArtifactKeeps == ASSUME IInv, ReplicaOfArtifact PROVE IInv'
<1>1. /\ UNCHANGED target /\ UNCHANGED <<source, maintaining>>
      /\ UNCHANGED <<restore, dest, opener>>
      /\ backup.pc = "rooting" /\ backup' = [backup EXCEPT !.pc = "copying"]
      /\ artifact' = [artifact EXCEPT !.marker = "source"]
  BY DEF ReplicaOfArtifact, Backup, target
<1>2. TypeOK'
  <2>1. TypeOK
    BY DEF IInv
  <2>2. backup' \in BackupCall
    BY <1>1, <2>1, BackupMoves
  <2>3. artifact' \in Artifact
    BY <1>1, <2>1 DEF TypeOK, Artifact
  <2>. QED BY <1>1, <2>1, <2>2, <2>3, BackupStepType
<1>3. /\ backup'.pc = "copying" /\ backup'.todo = backup.todo
      /\ artifact'.marker = "source" /\ artifact'.made = artifact.made
      /\ artifact'.catalog = artifact.catalog /\ artifact'.objects = artifact.objects
      /\ artifact'.manifest = artifact.manifest
  BY <1>1 DEF IInv, TypeOK, Call
<1>4. BackupIsOrderly' /\ ~ Described'
  BY <1>1, <1>3 DEF IInv, BackupIsOrderly, Described
<1>. QED BY <1>1, <1>2, <1>3, <1>4, BackupGoesOn

LEMMA BackupObjectKeeps ==
  ASSUME IInv, NEW k \in Key, BackupObject(k)
  PROVE  IInv'
<1>1. /\ UNCHANGED target /\ UNCHANGED <<source, maintaining>>
      /\ UNCHANGED <<restore, dest, opener>>
      /\ backup.pc = "copying" /\ backup' = [backup EXCEPT !.todo = @ \ {k}]
      /\ source.objects[k] = artifact.catalog.prepared[k]
      /\ artifact' = [artifact EXCEPT !.objects[k] = source.objects[k]]
  BY DEF BackupObject, target
<1>2. TypeOK'
  <2>1. TypeOK
    BY DEF IInv
  <2>2. backup' \in BackupCall
    BY <1>1, <2>1 DEF TypeOK, BackupCall, Call
  <2>3. artifact' \in Artifact
    <3>1. source.objects \in Objects /\ artifact.objects \in Objects
      BY <2>1 DEF TypeOK
    <3>2. [artifact.objects EXCEPT ![k] = source.objects[k]] \in Objects
      BY <3>1 DEF Objects
    <3>. QED BY <1>1, <2>1, <3>2 DEF TypeOK, Artifact
  <2>. QED BY <1>1, <2>1, <2>2, <2>3, BackupStepType
<1>3. /\ backup'.pc = "copying" /\ backup'.todo = backup.todo \ {k}
      /\ artifact'.marker = artifact.marker /\ artifact'.made = artifact.made
      /\ artifact'.catalog = artifact.catalog /\ artifact'.manifest = artifact.manifest
      /\ artifact'.objects[k] = source.objects[k]
      /\ \A l \in Key \ {k} : artifact'.objects[l] = artifact.objects[l]
  BY <1>1 DEF IInv, TypeOK, Call, Objects
<1>4. ~ Described' /\ BackupIsOrderly
  BY <1>1, <1>3 DEF IInv, BackupIsOrderly, Described
<1>5. ASSUME NEW l \in Entries(artifact.catalog) \ backup'.todo
      PROVE  /\ artifact'.objects[l] = artifact.catalog.prepared[l]
             /\ source.objects[l] = artifact.catalog.prepared[l]
  BY <1>1, <1>3, <1>4 DEF BackupIsOrderly, Entries
<1>6. BackupIsOrderly'
  BY <1>1, <1>3, <1>4, <1>5 DEF BackupIsOrderly, Described
<1>. QED BY <1>1, <1>2, <1>3, <1>4, <1>6, BackupGoesOn

LEMMA BeginManifestKeeps == ASSUME IInv, BeginManifest PROVE IInv'
<1>1. /\ UNCHANGED target /\ UNCHANGED <<source, maintaining>>
      /\ UNCHANGED <<restore, dest, opener>>
      /\ backup.pc = "copying" /\ backup.todo = {}
      /\ backup' = [backup EXCEPT !.pc = "describing"]
      /\ artifact' = [artifact EXCEPT !.manifest = Torn]
  BY DEF BeginManifest, Backup, target
<1>2. TypeOK'
  BY <1>1 DEF IInv, TypeOK, Call
<1>3. /\ backup'.pc = "describing" /\ backup'.todo = {}
      /\ artifact'.marker = artifact.marker /\ artifact'.made = artifact.made
      /\ artifact'.catalog = artifact.catalog /\ artifact'.objects = artifact.objects
      /\ artifact'.manifest = Torn
  BY <1>1 DEF IInv, TypeOK, Call
<1>4. BackupIsOrderly' /\ ~ Described'
  BY <1>1, <1>3 DEF IInv, BackupIsOrderly, Described
<1>. QED BY <1>1, <1>2, <1>3, <1>4, BackupGoesOn

\* What the backup knows when it writes the manifest.
LEMMA DescribingFacts ==
  ASSUME IInv, backup.pc = "describing"
  PROVE  /\ artifact.made /\ ~ Described /\ artifact.marker = "source"
         /\ artifact.catalog = source.catalog /\ artifact.catalog \in Catalog
         /\ Sound(artifact.catalog) /\ Settled(artifact.catalog)
         /\ \A k \in Entries(artifact.catalog) :
              /\ k \in Key
              /\ artifact.objects[k] = artifact.catalog.prepared[k]
              /\ source.objects[k] = artifact.catalog.prepared[k]
              /\ artifact.catalog.prepared[k] # None
<1>1. /\ artifact.catalog = source.catalog /\ artifact.catalog \in Catalog
      /\ Sound(artifact.catalog) /\ Settled(artifact.catalog)
      /\ artifact.made /\ ~ Described /\ artifact.marker = "source"
      /\ \A k \in Entries(artifact.catalog) :
           /\ artifact.objects[k] = artifact.catalog.prepared[k]
           /\ source.objects[k] = artifact.catalog.prepared[k]
  BY DEF IInv, TypeOK, BackupIsOrderly
<1>. QED BY <1>1, EntriesAreJournaled

LEMMA EndManifestKeeps == ASSUME IInv, EndManifest PROVE IInv'
<1>1. /\ UNCHANGED target /\ UNCHANGED <<source, maintaining>>
      /\ UNCHANGED <<restore, dest, opener>>
      /\ backup.pc = "describing" /\ backup' = [backup EXCEPT !.pc = "idle"]
      /\ artifact' = [artifact EXCEPT !.manifest = Describe]
  BY DEF EndManifest, Backup, target
<1>2. /\ artifact'.manifest = Describe /\ artifact'.made /\ backup'.pc = "idle"
      /\ ~ Described
  BY <1>1, DescribingFacts DEF IInv, TypeOK, Call
<1>3. Describe \in Manifest
  BY <1>1, DescribingFacts, CatalogFields DEF Describe, Manifest, Objects
<1>4. TypeOK' /\ Sound(source.catalog)'
  BY <1>1, <1>3 DEF IInv, TypeOK, Call
<1>5. BackupIsOrderly'
  BY <1>2 DEF BackupIsOrderly
<1>6. ManifestIsSound'
  <2>1. /\ Describe.catalog = artifact.catalog
        /\ Describe.objects = [k \in Key |-> IF k \in Entries(artifact.catalog)
                                   THEN artifact.catalog.prepared[k] ELSE None]
    BY DEF Describe
  <2>2. Sound(artifact.catalog) /\ Settled(artifact.catalog)
    BY <1>1, DescribingFacts
  <2>. QED BY <1>2, <2>1, <2>2 DEF ManifestIsSound
<1>. QED BY <1>1, <1>2, <1>4, <1>5, <1>6, TargetStays

LEMMA BackupFailsKeeps == ASSUME IInv, BackupFails PROVE IInv'
<1>1. /\ UNCHANGED target /\ UNCHANGED artifact /\ backup' = Idle
      /\ UNCHANGED <<source, maintaining, restore, dest, opener>>
  BY DEF BackupFails, target
<1>2. TypeOK' /\ Sound(source.catalog)'
  BY <1>1 DEF IInv, TypeOK, Call, Idle
<1>. QED BY <1>1, <1>2, SourceMoves DEF Idle

LEMMA DecayKeeps == ASSUME IInv, Decay PROVE IInv'
<1>1. /\ UNCHANGED target /\ UNCHANGED <<source, maintaining, backup>>
      /\ UNCHANGED <<restore, dest, opener>> /\ Described
  BY DEF Decay, target, Described
<1>2. TypeOK' /\ artifact'.manifest = artifact.manifest /\ artifact'.made = artifact.made
  <2>1. CASE artifact' = [artifact EXCEPT !.catalog = None]
    BY <1>1, <2>1 DEF IInv, TypeOK
  <2>2. ASSUME NEW k \in Key, NEW c \in Content \cup {None},
               artifact' = [artifact EXCEPT !.objects[k] = c]
        PROVE  TypeOK' /\ artifact'.manifest = artifact.manifest
               /\ artifact'.made = artifact.made
    BY <1>1, <2>2 DEF IInv, TypeOK, Objects
  <2>. QED BY <2>1, <2>2 DEF Decay
<1>3. BackupIsOrderly'
  BY <1>1, ManifestFacts DEF BackupIsOrderly
<1>4. ManifestIsSound' /\ Sound(source.catalog)'
  BY <1>1, <1>2 DEF IInv, ManifestIsSound, Described
<1>. QED BY <1>1, <1>2, <1>3, <1>4, TargetStays

----------------------------------------------------------------------------
(* Steps at the destination.                                               *)

\* A step that only adds to the destination takes nothing from a restore that
\* it does not move, as long as that keeps its gate.
LEMMA OthersRestore ==
  ASSUME IInv, NEW r \in Restorer, restore'[r] = restore[r],
         UNCHANGED artifact, Grows, dest.gate = r => dest'.gate = r
  PROVE  RestoreIsOrderly(r)'
<1>1. RestoreIsOrderly(r) /\ (Described' <=> Described)
  BY DEF IInv, Described
<1>2. ASSUME restore[r].pc \in {"copying", "linking", "unlinking"},
             NEW k \in Entries(artifact.manifest.catalog) \ restore[r].todo
      PROVE  dest'.objects[k] = artifact.manifest.objects[k]
  <2>1. Described /\ dest.objects[k] = artifact.manifest.objects[k]
    BY <1>1, <1>2 DEF RestoreIsOrderly
  <2>. QED BY <2>1, ManifestFacts DEF Grows
<1>3. /\ restore[r].pc \in {"rooted", "copying", "linking", "unlinking"} =>
           dest'.marker = "source"
      /\ restore[r].pc \in {"copying", "linking", "unlinking"} => dest'.owner = "this"
      /\ restore[r].pc \notin {"idle", "verified"} => dest'.made
  BY <1>1, NamesAssumption DEF RestoreIsOrderly, Grows
<1>. QED BY <1>1, <1>2, <1>3 DEF RestoreIsOrderly

\* A published catalog stays what it is, with all it needs.
LEMMA PublishedStays ==
  ASSUME IInv, UNCHANGED artifact, Grows, dest'.catalog = dest.catalog, TypeOK'
  PROVE  PublishedIsSound' /\ (dest'.catalog \notin {None, EmptyCatalog} => Described')
<1>1. PublishedIsSound /\ (dest.catalog \notin {None, EmptyCatalog} => Described)
  BY DEF IInv
<1>2. ASSUME dest.catalog # None
      PROVE  Kept(dest.catalog, dest'.objects)
  BY <1>1, <1>2 DEF PublishedIsSound, Kept, Grows
<1>3. ASSUME dest.catalog # None, dest.catalog # EmptyCatalog
      PROVE  dest'.marker = "source" /\ dest'.owner = "this"
  BY <1>1, <1>3, NamesAssumption DEF PublishedIsSound, Grows
<1>. QED BY <1>1, <1>2, <1>3 DEF PublishedIsSound, Described

\* A step of one restore that publishes nothing.
LEMMA RestoreGoesOn ==
  ASSUME IInv, NEW r \in Restorer, UNCHANGED unrelated, TypeOK', Grows,
         dest'.catalog = dest.catalog,
         \A q \in Restorer \ {r} : restore'[q] = restore[q],
         dest'.gate = dest.gate \/ dest.gate \in {None, r},
         dest.gate = "opener" => dest'.gate = "opener",
         RestoreIsOrderly(r)'
  PROVE  IInv'
<1>1. UNCHANGED <<source, maintaining, backup, artifact, opener>>
  BY DEF unrelated
<1>2. ASSUME NEW q \in Restorer
      PROVE  RestoreIsOrderly(q)'
  <2>1. CASE q = r
    BY <2>1
  <2>2. CASE q # r
    BY <1>1, <2>2, OthersRestore, NamesAssumption
  <2>. QED BY <2>1, <2>2
<1>3. Sound(source.catalog)' /\ BackupIsOrderly' /\ ManifestIsSound'
  BY <1>1 DEF IInv, BackupIsOrderly, ManifestIsSound, Described
<1>4. opener' => dest'.gate = "opener"
  BY <1>1 DEF IInv
<1>. QED BY <1>1, <1>2, <1>3, <1>4, PublishedStays DEF IInv

\* The same for a program other than the restores.
LEMMA OthersGoOn ==
  ASSUME IInv, UNCHANGED others, TypeOK', Grows, dest'.catalog = dest.catalog,
         \A r \in Restorer : dest.gate = r => dest'.gate = r,
         opener' => dest'.gate = "opener"
  PROVE  IInv'
<1>1. UNCHANGED <<source, maintaining, backup, artifact, restore>>
  BY DEF others
<1>2. ASSUME NEW q \in Restorer
      PROVE  RestoreIsOrderly(q)'
  BY <1>1, OthersRestore
<1>3. Sound(source.catalog)' /\ BackupIsOrderly' /\ ManifestIsSound'
  BY <1>1 DEF IInv, BackupIsOrderly, ManifestIsSound, Described
<1>. QED BY <1>1, <1>2, <1>3, PublishedStays DEF IInv

----------------------------------------------------------------------------
(* The restore.                                                            *)

LEMMA VerifyKeeps ==
  ASSUME IInv, NEW r \in Restorer, Verify(r)
  PROVE  IInv' /\ Grows
<1>1. /\ UNCHANGED unrelated /\ UNCHANGED <<source, maintaining, backup, artifact, opener>>
      /\ dest' = dest /\ Described
      /\ restore' = [restore EXCEPT ![r] = [pc |-> "verified",
                                            todo |-> Entries(artifact.manifest.catalog)]]
  BY DEF Verify, unrelated, Described
<1>2. TypeOK'
  BY <1>1 DEF IInv, TypeOK, Call, Entries
<1>3. /\ restore'[r].pc = "verified"
      /\ restore'[r].todo = Entries(artifact.manifest.catalog)
      /\ \A q \in Restorer \ {r} : restore'[q] = restore[q]
  BY <1>1 DEF IInv, TypeOK
<1>4. RestoreIsOrderly(r)'
  BY <1>1, <1>3 DEF RestoreIsOrderly, Described
<1>. QED BY <1>1, <1>2, <1>3, <1>4, RestoreGoesOn DEF Grows

\* What moving on to the next pc means for the call of a restorer.
LEMMA RestoreMoves ==
  ASSUME IInv, NEW r \in Restorer, NEW pc, NEW next, Restore(r, pc, next),
         next \in {"idle", "made", "gated", "rooting", "rooted", "copying",
                   "linking", "unlinking"}
  PROVE  /\ restore[r].pc = pc
         /\ restore'[r].pc = next /\ restore'[r].todo = restore[r].todo
         /\ \A q \in Restorer \ {r} : restore'[q] = restore[q]
         /\ restore' \in [Restorer -> Call({"verified", "made", "gated", "rooting",
                                            "rooted", "copying", "linking", "unlinking"})]
         /\ RestoreIsOrderly(r)
<1> DEFINE C == Call({"verified", "made", "gated", "rooting",
                      "rooted", "copying", "linking", "unlinking"})
<1>1. /\ restore \in [Restorer -> C] /\ restore[r].pc = pc
      /\ restore' = [restore EXCEPT ![r] = [restore[r] EXCEPT !.pc = next]]
  BY DEF IInv, TypeOK, Restore, At
<1>2. restore[r] \in [pc : {"verified", "made", "gated", "rooting", "rooted", "copying",
                            "linking", "unlinking", "idle"}, todo : SUBSET Key]
  BY <1>1 DEF Call
<1>3. /\ [restore[r] EXCEPT !.pc = next] \in C
      /\ [restore[r] EXCEPT !.pc = next].pc = next
      /\ [restore[r] EXCEPT !.pc = next].todo = restore[r].todo
  BY <1>2 DEF Call
<1> HIDE DEF C
<1>4. /\ restore' \in [Restorer -> C]
      /\ restore'[r] = [restore[r] EXCEPT !.pc = next]
      /\ \A q \in Restorer \ {r} : restore'[q] = restore[q]
  BY <1>1, <1>3
<1>. QED BY <1>1, <1>3, <1>4 DEF IInv, C

LEMMA MakeDestinationKeeps ==
  ASSUME IInv, NEW r \in Restorer, MakeDestination(r)
  PROVE  IInv' /\ Grows
<1>1. /\ UNCHANGED unrelated /\ UNCHANGED <<source, maintaining, backup, artifact, opener>>
      /\ Restore(r, "verified", "made") /\ dest' = [dest EXCEPT !.made = TRUE]
  BY DEF MakeDestination, unrelated
<1>2. TypeOK'
  BY <1>1, RestoreMoves DEF IInv, TypeOK
<1>3. /\ dest'.made /\ dest'.catalog = dest.catalog /\ dest'.marker = dest.marker
      /\ dest'.owner = dest.owner /\ dest'.objects = dest.objects /\ dest'.gate = dest.gate
  BY <1>1 DEF IInv, TypeOK
<1>4. RestoreIsOrderly(r)'
  BY <1>1, <1>3, RestoreMoves DEF RestoreIsOrderly, Described
<1>. QED BY <1>1, <1>2, <1>3, <1>4, RestoreMoves, RestoreGoesOn DEF Grows

LEMMA TakeGateKeeps ==
  ASSUME IInv, NEW r \in Restorer, TakeGate(r)
  PROVE  IInv' /\ Grows
<1>1. /\ UNCHANGED unrelated /\ UNCHANGED <<source, maintaining, backup, artifact, opener>>
      /\ Restore(r, "made", "gated") /\ dest.gate = None
      /\ dest' = [dest EXCEPT !.gate = r]
  BY DEF TakeGate, unrelated
<1>2. TypeOK'
  BY <1>1, RestoreMoves DEF IInv, TypeOK
<1>3. /\ dest'.made = dest.made /\ dest'.catalog = dest.catalog
      /\ dest'.marker = dest.marker /\ dest'.owner = dest.owner
      /\ dest'.objects = dest.objects /\ dest'.gate = r
  BY <1>1 DEF IInv, TypeOK
<1>4. RestoreIsOrderly(r)'
  BY <1>1, <1>3, RestoreMoves DEF RestoreIsOrderly, Described
<1>5. dest.gate # "opener"
  BY <1>1, NamesAssumption
<1>. QED BY <1>1, <1>2, <1>3, <1>4, <1>5, RestoreMoves, RestoreGoesOn DEF Grows

LEMMA MakeRootKeeps ==
  ASSUME IInv, NEW r \in Restorer, MakeRoot(r)
  PROVE  IInv' /\ Grows
<1>1. /\ UNCHANGED unrelated /\ UNCHANGED <<source, maintaining, backup, artifact, opener>>
      /\ Restore(r, "gated", "rooting") /\ dest' = [dest EXCEPT !.root = TRUE]
  BY DEF MakeRoot, unrelated
<1>2. TypeOK'
  BY <1>1, RestoreMoves DEF IInv, TypeOK
<1>3. /\ dest'.made = dest.made /\ dest'.catalog = dest.catalog
      /\ dest'.marker = dest.marker /\ dest'.owner = dest.owner
      /\ dest'.objects = dest.objects /\ dest'.gate = dest.gate
  BY <1>1 DEF IInv, TypeOK
<1>4. RestoreIsOrderly(r)'
  BY <1>1, <1>3, RestoreMoves DEF RestoreIsOrderly, Described
<1>. QED BY <1>1, <1>2, <1>3, <1>4, RestoreMoves, RestoreGoesOn DEF Grows

LEMMA MarkRootKeeps ==
  ASSUME IInv, NEW r \in Restorer, MarkRoot(r)
  PROVE  IInv' /\ Grows
<1>1. /\ UNCHANGED unrelated /\ UNCHANGED <<source, maintaining, backup, artifact, opener>>
      /\ Restore(r, "rooting", "rooted") /\ dest.marker = None
      /\ dest' = [dest EXCEPT !.marker = "source"]
  BY DEF MarkRoot, unrelated
<1>2. TypeOK'
  BY <1>1, RestoreMoves DEF IInv, TypeOK
<1>3. /\ dest'.made = dest.made /\ dest'.catalog = dest.catalog
      /\ dest'.marker = "source" /\ dest'.owner = dest.owner
      /\ dest'.objects = dest.objects /\ dest'.gate = dest.gate
  BY <1>1 DEF IInv, TypeOK
<1>4. RestoreIsOrderly(r)'
  BY <1>1, <1>3, RestoreMoves DEF RestoreIsOrderly, Described
<1>5. Grows
  BY <1>1, <1>3 DEF Grows
<1>. QED BY <1>1, <1>2, <1>3, <1>4, <1>5, RestoreMoves, RestoreGoesOn

LEMMA TakeRootGateKeeps ==
  ASSUME IInv, NEW r \in Restorer, TakeRootGate(r)
  PROVE  IInv' /\ Grows
<1>1. /\ UNCHANGED unrelated /\ UNCHANGED <<source, maintaining, backup, artifact, opener>>
      /\ Restore(r, "rooted", "copying") /\ dest.owner # "other"
      /\ dest' = [dest EXCEPT !.owner = "this"]
  BY DEF TakeRootGate, unrelated
<1>2. TypeOK' /\ dest.owner \in {"this", "other", None}
  BY <1>1, RestoreMoves DEF IInv, TypeOK
<1>3. /\ dest'.made = dest.made /\ dest'.catalog = dest.catalog
      /\ dest'.marker = dest.marker /\ dest'.owner = "this"
      /\ dest'.objects = dest.objects /\ dest'.gate = dest.gate
  BY <1>1 DEF IInv, TypeOK
<1>4. RestoreIsOrderly(r)'
  BY <1>1, <1>3, RestoreMoves DEF RestoreIsOrderly, Described
<1>5. Grows
  BY <1>1, <1>2, <1>3 DEF Grows
<1>. QED BY <1>1, <1>2, <1>3, <1>4, <1>5, RestoreMoves, RestoreGoesOn

LEMMA RestoreObjectKeeps ==
  ASSUME IInv, NEW r \in Restorer, NEW k \in Key, RestoreObject(r, k)
  PROVE  IInv' /\ Grows
<1>1. /\ UNCHANGED unrelated /\ UNCHANGED <<source, maintaining, backup, artifact, opener>>
      /\ restore[r].pc = "copying" /\ dest.objects[k] = None
      /\ artifact.objects[k] = artifact.manifest.objects[k]
      /\ dest' = [dest EXCEPT !.objects[k] = artifact.objects[k]]
      /\ restore' = [restore EXCEPT ![r].todo = @ \ {k}]
  BY DEF RestoreObject, unrelated, At
<1>2. TypeOK'
  <2>1. artifact.objects[k] \in Content \cup {None}
    BY DEF IInv, TypeOK, Objects
  <2>2. [dest.objects EXCEPT ![k] = artifact.objects[k]] \in Objects
    BY <2>1 DEF IInv, TypeOK, Objects
  <2>3. /\ restore[r] \in Call({"verified", "made", "gated", "rooting", "rooted",
                                "copying", "linking", "unlinking"})
        /\ [restore[r] EXCEPT !.todo = @ \ {k}] \in
             Call({"verified", "made", "gated", "rooting", "rooted",
                   "copying", "linking", "unlinking"})
    BY DEF IInv, TypeOK, Call
  <2>4. /\ restore' = [restore EXCEPT ![r] = [restore[r] EXCEPT !.todo = @ \ {k}]]
        /\ dest' = [dest EXCEPT !.objects = [dest.objects EXCEPT ![k] = artifact.objects[k]]]
    BY <1>1
  <2>. QED BY <1>1, <2>2, <2>3, <2>4 DEF IInv, TypeOK
<1>3. /\ dest'.made = dest.made /\ dest'.catalog = dest.catalog
      /\ dest'.marker = dest.marker /\ dest'.owner = dest.owner
      /\ dest'.gate = dest.gate
      /\ dest'.objects[k] = artifact.objects[k]
      /\ \A l \in Key \ {k} : dest'.objects[l] = dest.objects[l]
  BY <1>1 DEF IInv, TypeOK, Objects
<1>4. /\ restore'[r].pc = "copying" /\ restore'[r].todo = restore[r].todo \ {k}
      /\ \A q \in Restorer \ {r} : restore'[q] = restore[q]
  BY <1>1 DEF IInv, TypeOK, Call
<1>5. RestoreIsOrderly(r)'
  <2>1. RestoreIsOrderly(r) /\ (Described' <=> Described)
    BY <1>1 DEF IInv, Described
  <2>2. ASSUME NEW l \in Entries(artifact.manifest.catalog) \ restore'[r].todo
        PROVE  dest'.objects[l] = artifact.manifest.objects[l]
    BY <1>1, <1>3, <1>4, <2>1 DEF RestoreIsOrderly, Entries
  <2>. QED BY <1>1, <1>3, <1>4, <2>1, <2>2 DEF RestoreIsOrderly
<1>6. Grows
  BY <1>1, <1>3 DEF Grows
<1>. QED BY <1>1, <1>2, <1>3, <1>4, <1>5, <1>6, RestoreGoesOn

LEMMA WritePartialKeeps ==
  ASSUME IInv, NEW r \in Restorer, WritePartial(r)
  PROVE  IInv' /\ Grows
<1>1. /\ UNCHANGED unrelated /\ UNCHANGED <<source, maintaining, backup, artifact, opener>>
      /\ Restore(r, "copying", "linking") /\ restore[r].todo = {}
      /\ dest' = [dest EXCEPT !.partial = TRUE]
  BY DEF WritePartial, unrelated
<1>2. TypeOK'
  BY <1>1, RestoreMoves DEF IInv, TypeOK
<1>3. /\ dest'.made = dest.made /\ dest'.catalog = dest.catalog
      /\ dest'.marker = dest.marker /\ dest'.owner = dest.owner
      /\ dest'.objects = dest.objects /\ dest'.gate = dest.gate
  BY <1>1 DEF IInv, TypeOK
<1>4. RestoreIsOrderly(r)'
  BY <1>1, <1>3, RestoreMoves DEF RestoreIsOrderly, Described
<1>5. Grows
  BY <1>3 DEF Grows
<1>. QED BY <1>1, <1>2, <1>3, <1>4, <1>5, RestoreMoves, RestoreGoesOn

LEMMA UnlinkKeeps ==
  ASSUME IInv, NEW r \in Restorer, Unlink(r)
  PROVE  IInv' /\ Grows
<1>1. /\ UNCHANGED unrelated /\ UNCHANGED <<source, maintaining, backup, artifact, opener>>
      /\ Restore(r, "unlinking", "idle")
      /\ dest' = [dest EXCEPT !.partial = FALSE, !.gate = None]
  BY DEF Unlink, unrelated
<1>2. TypeOK'
  BY <1>1, RestoreMoves DEF IInv, TypeOK
<1>3. /\ dest'.made = dest.made /\ dest'.catalog = dest.catalog
      /\ dest'.marker = dest.marker /\ dest'.owner = dest.owner
      /\ dest'.objects = dest.objects /\ dest'.gate = None
  BY <1>1 DEF IInv, TypeOK
<1>4. dest.gate = r /\ r # "opener"
  BY <1>1, RestoreMoves, NamesAssumption DEF RestoreIsOrderly
<1>5. RestoreIsOrderly(r)'
  BY <1>1, <1>3, RestoreMoves DEF RestoreIsOrderly, Described
<1>6. Grows
  BY <1>3 DEF Grows
<1>. QED BY <1>1, <1>2, <1>3, <1>4, <1>5, <1>6, RestoreMoves, RestoreGoesOn

LEMMA RestoreFailsKeeps ==
  ASSUME IInv, NEW r \in Restorer, RestoreFails(r)
  PROVE  IInv' /\ Grows
<1>1. /\ UNCHANGED unrelated /\ UNCHANGED <<source, maintaining, backup, artifact, opener>>
      /\ restore' = [restore EXCEPT ![r] = Idle]
      /\ dest' = [dest EXCEPT !.gate = IF dest.gate = r THEN None ELSE dest.gate]
  BY DEF RestoreFails, unrelated
<1>2. TypeOK'
  BY <1>1 DEF IInv, TypeOK, Call, Idle
<1>3. /\ dest'.made = dest.made /\ dest'.catalog = dest.catalog
      /\ dest'.marker = dest.marker /\ dest'.owner = dest.owner
      /\ dest'.objects = dest.objects
      /\ dest'.gate = IF dest.gate = r THEN None ELSE dest.gate
  BY <1>1 DEF IInv, TypeOK
<1>4. /\ restore'[r].pc = "idle" /\ r # "opener"
      /\ \A q \in Restorer \ {r} : restore'[q] = restore[q]
  BY <1>1, NamesAssumption DEF IInv, TypeOK, Idle
<1>5. RestoreIsOrderly(r)'
  BY <1>4 DEF RestoreIsOrderly
<1>6. Grows
  BY <1>3 DEF Grows
<1>. QED BY <1>1, <1>2, <1>3, <1>4, <1>5, <1>6, RestoreGoesOn

\* The catalog is published when all it could need is in place.
LEMMA LinkCatalogKeeps ==
  ASSUME IInv, NEW r \in Restorer, LinkCatalog(r)
  PROVE  IInv' /\ Grows
<1> DEFINE m == artifact.manifest
<1>1. /\ UNCHANGED <<source, maintaining, backup, artifact, opener>>
      /\ Restore(r, "linking", "unlinking") /\ dest.catalog = None
      /\ dest' = [dest EXCEPT !.catalog = artifact.manifest.catalog]
  BY DEF LinkCatalog, unrelated
<1>2. /\ Described /\ dest.marker = "source" /\ dest.owner = "this"
      /\ \A k \in Entries(m.catalog) : dest.objects[k] = m.objects[k]
  BY <1>1, RestoreMoves DEF RestoreIsOrderly
<1>3. /\ m.catalog \in Catalog /\ Sound(m.catalog) /\ Settled(m.catalog)
      /\ \A k \in Entries(m.catalog) : m.objects[k] = m.catalog.prepared[k]
  BY <1>2, ManifestFacts
<1>4. TypeOK'
  BY <1>1, <1>3, RestoreMoves DEF IInv, TypeOK
<1>5. /\ dest'.made = dest.made /\ dest'.catalog = m.catalog
      /\ dest'.marker = dest.marker /\ dest'.owner = dest.owner
      /\ dest'.objects = dest.objects /\ dest'.gate = dest.gate
  BY <1>1 DEF IInv, TypeOK
<1>6. Grows
  BY <1>1, <1>5 DEF Grows
<1>7. ASSUME NEW q \in Restorer
      PROVE  RestoreIsOrderly(q)'
  <2>1. CASE q = r
    BY <1>1, <1>5, <2>1, RestoreMoves DEF RestoreIsOrderly, Described
  <2>2. CASE q # r
    BY <1>1, <1>5, <1>6, <2>2, RestoreMoves, OthersRestore
  <2>. QED BY <2>1, <2>2
<1>8. Kept(m.catalog, dest.objects)
  <2>1. \A k \in Entries(m.catalog) : dest.objects[k] = m.catalog.prepared[k]
    BY <1>2, <1>3
  <2>. QED BY <1>3, <2>1, SettledIsKept
<1>9. PublishedIsSound'
  BY <1>1, <1>2, <1>3, <1>5, <1>8 DEF PublishedIsSound
<1>10. /\ Sound(source.catalog)' /\ BackupIsOrderly' /\ ManifestIsSound'
       /\ Described' /\ (opener' => dest'.gate = "opener")
  BY <1>1, <1>2, <1>5 DEF IInv, BackupIsOrderly, ManifestIsSound, Described
<1>. QED BY <1>4, <1>6, <1>7, <1>9, <1>10 DEF IInv

----------------------------------------------------------------------------
(* Other programs at the destination.                                      *)

\* An empty catalog needs nothing.
LEMMA OpenCatalogKeeps == ASSUME IInv, OpenCatalog PROVE IInv' /\ Grows
<1>1. /\ UNCHANGED <<source, maintaining, backup, artifact, restore>>
      /\ opener' = TRUE /\ dest.gate = None
      /\ dest' = [dest EXCEPT !.gate = "opener",
                    !.catalog = IF dest.catalog = None THEN EmptyCatalog ELSE dest.catalog]
  BY DEF OpenCatalog, others
<1>2. TypeOK'
  BY <1>1, EmptyIsSound DEF IInv, TypeOK
<1>3. /\ dest'.made = dest.made /\ dest'.gate = "opener"
      /\ dest'.catalog = IF dest.catalog = None THEN EmptyCatalog ELSE dest.catalog
      /\ dest'.marker = dest.marker /\ dest'.owner = dest.owner
      /\ dest'.objects = dest.objects
  BY <1>1 DEF IInv, TypeOK
<1>4. Grows
  BY <1>3 DEF Grows
<1>5. ASSUME NEW r \in Restorer
      PROVE  RestoreIsOrderly(r)'
  BY <1>1, <1>4, OthersRestore, NamesAssumption
<1>6. PublishedIsSound' /\ (dest'.catalog \notin {None, EmptyCatalog} => Described')
  <2>1. CASE dest.catalog = None
    <3>1. Kept(EmptyCatalog, dest'.objects)
      BY DEF Kept, EmptyCatalog
    <3>. QED BY <1>3, <2>1, <3>1, EmptyIsSound DEF PublishedIsSound
  <2>2. CASE dest.catalog # None
    BY <1>1, <1>2, <1>3, <1>4, <2>2, PublishedStays
  <2>. QED BY <2>1, <2>2
<1>7. Sound(source.catalog)' /\ BackupIsOrderly' /\ ManifestIsSound'
  BY <1>1 DEF IInv, BackupIsOrderly, ManifestIsSound, Described
<1>. QED BY <1>2, <1>3, <1>4, <1>5, <1>6, <1>7 DEF IInv

LEMMA CloseCatalogKeeps == ASSUME IInv, CloseCatalog PROVE IInv' /\ Grows
<1>1. /\ UNCHANGED others /\ opener /\ opener' = FALSE
      /\ UNCHANGED <<source, maintaining, backup, artifact, restore>>
      /\ dest' = [dest EXCEPT !.gate = None]
  BY DEF CloseCatalog, others
<1>2. TypeOK'
  BY <1>1 DEF IInv, TypeOK
<1>3. /\ dest'.made = dest.made /\ dest'.catalog = dest.catalog
      /\ dest'.marker = dest.marker /\ dest'.owner = dest.owner
      /\ dest'.objects = dest.objects /\ dest.gate = "opener"
  BY <1>1 DEF IInv, TypeOK
<1>4. Grows
  BY <1>3 DEF Grows
<1>. QED BY <1>1, <1>2, <1>3, <1>4, OthersGoOn, NamesAssumption

LEMMA OpenRootKeeps == ASSUME IInv, OpenRoot PROVE IInv' /\ Grows
<1>1. /\ UNCHANGED others /\ opener' = opener
      /\ UNCHANGED <<source, maintaining, backup, artifact, restore>>
      /\ dest' = [dest EXCEPT !.made = TRUE, !.root = TRUE]
  BY DEF OpenRoot, others
<1>2. TypeOK'
  BY <1>1 DEF IInv, TypeOK
<1>3. /\ dest'.made = TRUE /\ dest'.catalog = dest.catalog
      /\ dest'.marker = dest.marker /\ dest'.owner = dest.owner
      /\ dest'.objects = dest.objects /\ dest'.gate = dest.gate
      /\ opener => dest.gate = "opener"
  BY <1>1 DEF IInv, TypeOK
<1>4. Grows
  BY <1>3 DEF Grows
<1>. QED BY <1>1, <1>2, <1>3, <1>4, OthersGoOn

LEMMA MarkOpenedRootKeeps == ASSUME IInv, MarkOpenedRoot PROVE IInv' /\ Grows
<1>1. /\ UNCHANGED others /\ opener' = opener /\ dest.marker = None
      /\ UNCHANGED <<source, maintaining, backup, artifact, restore>>
      /\ dest' = [dest EXCEPT !.marker = "fresh"]
  BY DEF MarkOpenedRoot, others
<1>2. TypeOK'
  BY <1>1 DEF IInv, TypeOK
<1>3. /\ dest'.made = dest.made /\ dest'.catalog = dest.catalog
      /\ dest'.owner = dest.owner
      /\ dest'.objects = dest.objects /\ dest'.gate = dest.gate
      /\ opener => dest.gate = "opener"
  BY <1>1 DEF IInv, TypeOK
<1>4. Grows
  BY <1>1, <1>3 DEF Grows
<1>. QED BY <1>1, <1>2, <1>3, <1>4, OthersGoOn

LEMMA BindElsewhereKeeps == ASSUME IInv, BindElsewhere PROVE IInv' /\ Grows
<1>1. /\ UNCHANGED others /\ opener' = opener /\ dest.owner = None
      /\ UNCHANGED <<source, maintaining, backup, artifact, restore>>
      /\ dest' = [dest EXCEPT !.owner = "other"]
  BY DEF BindElsewhere, others
<1>2. TypeOK'
  BY <1>1 DEF IInv, TypeOK
<1>3. /\ dest'.made = dest.made /\ dest'.catalog = dest.catalog
      /\ dest'.marker = dest.marker
      /\ dest'.objects = dest.objects /\ dest'.gate = dest.gate
      /\ opener => dest.gate = "opener"
  BY <1>1 DEF IInv, TypeOK
<1>4. Grows
  BY <1>1, <1>3 DEF Grows
<1>. QED BY <1>1, <1>2, <1>3, <1>4, OthersGoOn

----------------------------------------------------------------------------
(* Every step.                                                             *)

LEMMA SourceStepsKeep ==
  ASSUME IInv,
         \/ Use \/ Maintenance
         \/ \E k \in Key : Maintain(k) \/ \E c \in Content : Strand(k, c)
  PROVE  IInv' /\ dest' = dest /\ artifact' = artifact
<1>1. CASE Use
  BY <1>1, UseKeeps DEF Use, target
<1>2. CASE Maintenance
  BY <1>2, MaintenanceKeeps DEF Maintenance, target
<1>3. ASSUME NEW k \in Key, Maintain(k)
      PROVE  IInv' /\ dest' = dest /\ artifact' = artifact
  BY <1>3, MaintainKeeps DEF Maintain, target
<1>4. ASSUME NEW k \in Key, NEW c \in Content, Strand(k, c)
      PROVE  IInv' /\ dest' = dest /\ artifact' = artifact
  BY <1>4, StrandKeeps DEF Strand, target
<1>. QED BY <1>1, <1>2, <1>3, <1>4

\* Only EndManifest makes a manifest that is whole.
LEMMA BackupStepsKeep ==
  ASSUME IInv,
         \/ StartBackup \/ Snapshot \/ CheckSnapshot \/ ReplicaOfArtifact
         \/ \E k \in Key : BackupObject(k)
         \/ BeginManifest \/ EndManifest \/ BackupFails \/ Decay
  PROVE  /\ IInv' /\ dest' = dest
         /\ artifact'.manifest \in {artifact.manifest, Torn} \/ EndManifest
<1>1. CASE StartBackup
  BY <1>1, StartBackupKeeps DEF StartBackup, target, IInv, TypeOK
<1>2. CASE Snapshot
  BY <1>2, SnapshotKeeps DEF Snapshot, target, IInv, TypeOK
<1>3. CASE CheckSnapshot
  BY <1>3, CheckSnapshotKeeps DEF CheckSnapshot, target
<1>4. CASE ReplicaOfArtifact
  BY <1>4, ReplicaOfArtifactKeeps DEF ReplicaOfArtifact, target, IInv, TypeOK
<1>5. ASSUME NEW k \in Key, BackupObject(k)
      PROVE  IInv' /\ dest' = dest /\ artifact'.manifest = artifact.manifest
  <2>1. /\ dest' = dest
        /\ artifact' = [artifact EXCEPT !.objects[k] = source.objects[k]]
    BY <1>5 DEF BackupObject, target
  <2>2. artifact'.manifest = artifact.manifest
    BY <2>1 DEF IInv, TypeOK
  <2>. QED BY <1>5, <2>1, <2>2, BackupObjectKeeps
<1>6. CASE BeginManifest
  BY <1>6, BeginManifestKeeps DEF BeginManifest, target, IInv, TypeOK
<1>7. CASE EndManifest
  BY <1>7, EndManifestKeeps DEF EndManifest, target
<1>8. CASE BackupFails
  BY <1>8, BackupFailsKeeps DEF BackupFails, target
<1>9. CASE Decay
  BY <1>9, DecayKeeps DEF Decay, target, IInv, TypeOK
<1>. QED BY <1>1, <1>2, <1>3, <1>4, <1>5, <1>6, <1>7, <1>8, <1>9

LEMMA RestoreStepsKeep ==
  ASSUME IInv, NEW r \in Restorer,
         \/ Verify(r) \/ MakeDestination(r) \/ TakeGate(r) \/ MakeRoot(r)
         \/ MarkRoot(r) \/ TakeRootGate(r) \/ \E k \in Key : RestoreObject(r, k)
         \/ WritePartial(r) \/ LinkCatalog(r) \/ Unlink(r) \/ RestoreFails(r)
  PROVE  IInv' /\ Grows /\ artifact' = artifact
<1>1. artifact' = artifact
  BY DEF Verify, MakeDestination, TakeGate, MakeRoot, MarkRoot, TakeRootGate,
         RestoreObject, WritePartial, LinkCatalog, Unlink, RestoreFails, unrelated
<1>. QED BY <1>1, VerifyKeeps, MakeDestinationKeeps, TakeGateKeeps, MakeRootKeeps,
            MarkRootKeeps, TakeRootGateKeeps, RestoreObjectKeeps, WritePartialKeeps,
            LinkCatalogKeeps, UnlinkKeeps, RestoreFailsKeeps

LEMMA OtherStepsKeep ==
  ASSUME IInv, OpenCatalog \/ CloseCatalog \/ OpenRoot \/ MarkOpenedRoot \/ BindElsewhere
  PROVE  IInv' /\ Grows /\ artifact' = artifact
<1>1. artifact' = artifact
  BY DEF OpenCatalog, CloseCatalog, OpenRoot, MarkOpenedRoot, BindElsewhere, others
<1>. QED BY <1>1, OpenCatalogKeeps, CloseCatalogKeeps, OpenRootKeeps,
            MarkOpenedRootKeeps, BindElsewhereKeeps

LEMMA StepPreservesIInv ==
  ASSUME IInv, [Next]_vars
  PROVE  /\ IInv' /\ Grows
         /\ artifact'.manifest \in {artifact.manifest, Torn} \/ EndManifest
<1>1. CASE UNCHANGED vars
  <2>1. /\ UNCHANGED unrelated /\ UNCHANGED others /\ UNCHANGED target
        /\ UNCHANGED <<source, maintaining, backup, artifact, restore, dest, opener>>
    BY <1>1 DEF vars, unrelated, others, target
  <2>2. Grows
    BY <2>1 DEF Grows
  <2>3. TypeOK' /\ (opener' => dest'.gate = "opener")
    BY <2>1 DEF IInv, TypeOK
  <2>. QED BY <2>1, <2>2, <2>3, OthersGoOn
<1>2. CASE Next
  <2>1. UNCHANGED dest => Grows
    BY DEF Grows
  <2>. QED BY <1>2, <2>1, SourceStepsKeep, BackupStepsKeep, RestoreStepsKeep,
              OtherStepsKeep DEF Next
<1>. QED BY <1>1, <1>2

----------------------------------------------------------------------------
(* Theorems.                                                               *)

\* The inductive invariant: how far backup and each restore are is known from
\* what they have left behind (backup, _restore_backup).
THEOREM InvariantHolds == Spec => []IInv
<1>1. Init => IInv
  BY InitEstablishesIInv
<1>2. IInv /\ [Next]_vars => IInv'
  BY StepPreservesIInv
<1>. QED BY <1>1, <1>2, PTL DEF Spec

\* Whatever catalog appears at a destination can be worked with: its rows are
\* sound, and the root has all that an operation could still need
\* (_entries, _restore_backup).
THEOREM PublicationIsSound == Spec => []PublishedIsSound
<1>1. IInv => PublishedIsSound
  BY DEF IInv
<1>. QED BY <1>1, InvariantHolds, PTL

\* No restore is at work where a program has the catalog open (the exclusive
\* gate of _restore_backup).
THEOREM OpenCatalogsAreQuiet == Spec => []OpenMeansQuiet
<1>1. IInv => OpenMeansQuiet
  <2>1. SUFFICES ASSUME IInv, opener, NEW r \in Restorer
                 PROVE  restore[r].pc \in {"idle", "verified", "made"}
    BY DEF OpenMeansQuiet
  <2>2. RestoreIsOrderly(r) /\ dest.gate # r
    BY <2>1, NamesAssumption DEF IInv
  <2>. QED BY <2>2 DEF RestoreIsOrderly
<1>. QED BY <1>1, InvariantHolds, PTL

\* A backup that completes is the source as it is at that moment: the snapshot
\* and the copies are one cut (backup under require_maintenance).
THEOREM BackupIsOneCut == Spec => ArtifactIsTheSource
<1> DEFINE Cut == artifact'.manifest \notin {artifact.manifest, Torn} =>
       /\ artifact'.manifest.catalog = source.catalog
       /\ artifact'.manifest = Describe
       /\ artifact'.marker = "source"
       /\ \A k \in Entries(source.catalog) :
            artifact'.objects[k] = source.objects[k] /\ source.objects[k] # None
<1>1. IInv /\ [Next]_vars => Cut
  <2>1. SUFFICES ASSUME IInv, EndManifest
                 PROVE  Cut
    BY StepPreservesIInv
  <2>2. /\ backup.pc = "describing"
        /\ artifact' = [artifact EXCEPT !.manifest = Describe]
    BY <2>1 DEF EndManifest, Backup
  <2>3. /\ artifact'.manifest = Describe /\ artifact'.marker = artifact.marker
        /\ artifact'.objects = artifact.objects
    BY <2>1, <2>2 DEF IInv, TypeOK
  <2>4. Describe.catalog = artifact.catalog
    BY DEF Describe
  <2>. QED BY <2>1, <2>2, <2>3, <2>4, DescribingFacts
<1>2. IInv /\ [Next]_vars => [Cut]_vars
  BY <1>1
<1>. QED BY <1>2, InvariantHolds, PTL DEF Spec, ArtifactIsTheSource

\* Nothing that is at the destination is replaced, whoever put it there: the
\* writes are create-only, and publication is a hard link.
THEOREM RestoreReplacesNothing == Spec => NothingIsReplaced
<1> DEFINE Stays == /\ dest.catalog # None => dest'.catalog = dest.catalog
                    /\ dest.marker # None => dest'.marker = dest.marker
                    /\ dest.owner # None => dest'.owner = dest.owner
                    /\ \A k \in Key : dest.objects[k] # None =>
                         dest'.objects[k] = dest.objects[k]
<1>1. IInv /\ [Next]_vars => [Stays]_vars
  BY StepPreservesIInv DEF Grows
<1>. QED BY <1>1, InvariantHolds, PTL DEF Spec, NothingIsReplaced

----------------------------------------------------------------------------
(* Exports of blobs, which are published by a link, as a catalog is.       *)

CONSTANTS Exporter, Bytes, Name, Managed, Foreign

VARIABLES ready, file, export

Exports == INSTANCE Export

\* What one exporter is doing.
Exporting == [pc : {"idle", "checked", "reading", "verified"},
           id : Id \cup {None}, to : Name \cup {None},
           staged : Exports!Contents \cup {None}]

\* What an exporter has checked and verified so far stays so: it is its own.
StagedIsWhole ==
  /\ file \in [Name -> Exports!Contents \cup {Foreign, None}]
  /\ export \in [Exporter -> Exporting]
  /\ \A e \in Exporter :
       /\ export[e].pc # "idle" => /\ export[e].id \in Id
                                   /\ export[e].to \in Name \ Managed
       /\ export[e].pc = "verified" => export[e].staged = Bytes[export[e].id]

LEMMA ExportInit == Exports!Init => StagedIsWhole
BY DEF Exports!Init, Exports!Idle, StagedIsWhole, Exporting

LEMMA ExporterKeeps ==
  ASSUME StagedIsWhole, NEW e \in Exporter,
         NEW s \in Exporting,
         export' = [export EXCEPT ![e] = s],
         file' \in [Name -> Exports!Contents \cup {Foreign, None}],
         s.pc # "idle" => s.id \in Id /\ s.to \in Name \ Managed,
         s.pc = "verified" => s.staged = Bytes[s.id]
  PROVE  StagedIsWhole'
BY DEF StagedIsWhole

LEMMA ExportKeeps == StagedIsWhole /\ [Exports!Next]_(Exports!vars) => StagedIsWhole'
<1> SUFFICES ASSUME StagedIsWhole, [Exports!Next]_(Exports!vars) PROVE StagedIsWhole'
  OBVIOUS
<1>0. CASE UNCHANGED Exports!vars
  BY <1>0 DEF Exports!vars, StagedIsWhole
<1>1. ASSUME NEW e \in Exporter, NEW i \in Id, NEW n \in Name, Exports!Check(e, i, n)
      PROVE  StagedIsWhole'
  <2> DEFINE s == [Exports!Idle EXCEPT !.pc = "checked", !.id = i, !.to = n]
  <2>1. export' = [export EXCEPT ![e] = s] /\ file' = file /\ n \notin Managed
    BY <1>1 DEF Exports!Check
  <2>2. Exports!Idle \in Exporting
    BY DEF Exports!Idle, Exporting
  <2>3. s \in Exporting /\ s.pc = "checked" /\ s.id = i /\ s.to = n
    BY <2>2 DEF Exporting
  <2>4. file' \in [Name -> Exports!Contents \cup {Foreign, None}]
    BY <2>1 DEF StagedIsWhole
  <2>. HIDE DEF s
  <2>. QED BY <2>1, <2>3, <2>4, ExporterKeeps
<1>2. ASSUME NEW e \in Exporter, Exports!Materialize(e)
      PROVE  StagedIsWhole'
  <2> DEFINE s == [export[e] EXCEPT !.pc = "reading"]
  <2>1. export' = [export EXCEPT ![e] = s] /\ file' = file /\ export[e].pc = "checked"
    BY <1>2 DEF Exports!Materialize, Exports!At
  <2>2. /\ s \in Exporting
        /\ s.pc = "reading" /\ s.id \in Id /\ s.to \in Name \ Managed
        /\ file' \in [Name -> Exports!Contents \cup {Foreign, None}]
    BY <2>1 DEF StagedIsWhole, Exporting
  <2>. QED BY <2>1, <2>2, ExporterKeeps
<1>3. ASSUME NEW e \in Exporter, Exports!Stage(e)
      PROVE  StagedIsWhole'
  <2>1. PICK c \in {Bytes[export[e].id], Torn} : export' = [export EXCEPT ![e].staged = c]
    BY <1>3 DEF Exports!Stage
  <2> DEFINE s == [export[e] EXCEPT !.staged = c]
  <2>2. /\ export' = [export EXCEPT ![e] = s] /\ file' = file
        /\ export[e].pc = "reading"
    BY <1>3, <2>1 DEF Exports!Stage, Exports!At
  <2>3. export[e].id \in Id
    BY <2>2 DEF StagedIsWhole
  <2>4. c \in Exports!Contents
    BY <2>1, <2>3 DEF Exports!Contents
  <2>5. /\ s \in Exporting
        /\ s.pc = "reading" /\ s.id \in Id /\ s.to \in Name \ Managed
        /\ file' \in [Name -> Exports!Contents \cup {Foreign, None}]
    BY <2>2, <2>4 DEF StagedIsWhole, Exporting
  <2>. QED BY <2>2, <2>5, ExporterKeeps
<1>4. ASSUME NEW e \in Exporter, Exports!Verify(e)
      PROVE  StagedIsWhole'
  <2> DEFINE s == [export[e] EXCEPT !.pc = "verified"]
  <2>1. /\ export' = [export EXCEPT ![e] = s] /\ file' = file
        /\ export[e].pc = "reading" /\ export[e].staged = Bytes[export[e].id]
    BY <1>4 DEF Exports!Verify, Exports!At
  <2>2. /\ s \in Exporting
        /\ s.id \in Id /\ s.to \in Name \ Managed /\ s.staged = Bytes[s.id]
        /\ file' \in [Name -> Exports!Contents \cup {Foreign, None}]
    BY <2>1 DEF StagedIsWhole, Exporting
  <2>. QED BY <2>1, <2>2, ExporterKeeps
<1>5. ASSUME NEW e \in Exporter, Exports!Link(e) \/ Exports!Fail(e)
      PROVE  StagedIsWhole'
  <2>1. /\ export' = [export EXCEPT ![e] = Exports!Idle]
        /\ file' = file \/ file' = [file EXCEPT ![export[e].to] = export[e].staged]
        /\ file' # file => export[e].pc = "verified"
    BY <1>5 DEF Exports!Link, Exports!Fail, Exports!At
  <2>2. file' \in [Name -> Exports!Contents \cup {Foreign, None}]
    <3>1. CASE file' = file
      BY <3>1 DEF StagedIsWhole
    <3>2. CASE file' # file
      BY <2>1, <3>2 DEF StagedIsWhole, Exporting
    <3>. QED BY <3>1, <3>2
  <2>3. Exports!Idle = [pc |-> "idle", id |-> None, to |-> None, staged |-> None]
    BY DEF Exports!Idle
  <2>4. Exports!Idle \in Exporting
    BY <2>3 DEF Exporting
  <2>. QED BY <2>1, <2>2, <2>3, <2>4, ExporterKeeps
<1>6. ASSUME NEW i \in Id, Exports!Blobs(i)
      PROVE  StagedIsWhole'
  BY <1>6 DEF Exports!Blobs, StagedIsWhole
<1>7. ASSUME NEW n \in Name, Exports!OtherProgram(n)
      PROVE  StagedIsWhole'
  BY <1>7 DEF Exports!OtherProgram, StagedIsWhole
<1>. QED BY <1>0, <1>1, <1>2, <1>3, <1>4, <1>5, <1>6, <1>7 DEF Exports!Next

\* A file changes because another program changes it, or because an exporter
\* links what it has verified to a name where nothing is.
LEMMA ExportStep ==
  ASSUME StagedIsWhole, [Exports!Next]_(Exports!vars),
         NEW n \in Name, file'[n] # file[n]
  PROVE  \/ Exports!OtherProgram(n)
         \/ /\ file[n] = None
            /\ n \notin Managed
            /\ \E e \in Exporter : export[e].to = n /\ file'[n] = Bytes[export[e].id]
<1>1. ASSUME file' = file
      PROVE  FALSE
  BY <1>1
<1>2. ASSUME NEW e \in Exporter, Exports!Link(e)
      PROVE  /\ file[n] = None /\ n \notin Managed
             /\ export[e].to = n /\ file'[n] = Bytes[export[e].id]
  <2>1. /\ export[e].pc = "verified" /\ file[export[e].to] = None
        /\ file' = [file EXCEPT ![export[e].to] = export[e].staged]
    BY <1>2 DEF Exports!Link, Exports!At
  <2>2. /\ export[e].to \in Name \ Managed
        /\ export[e].staged = Bytes[export[e].id]
    BY <2>1 DEF StagedIsWhole
  <2>3. n = export[e].to
    BY <2>1, <2>2 DEF StagedIsWhole
  <2>. QED BY <2>1, <2>2, <2>3 DEF StagedIsWhole
<1>3. ASSUME NEW m \in Name, Exports!OtherProgram(m)
      PROVE  Exports!OtherProgram(n)
  <2>1. PICK c \in {Foreign, None} : file' = [file EXCEPT ![m] = c]
    BY <1>3 DEF Exports!OtherProgram
  <2>2. n = m
    BY <2>1 DEF StagedIsWhole
  <2>. QED BY <1>3, <2>2
<1>4. ASSUME NEW e \in Exporter,
             \/ \E i \in Id, m \in Name : Exports!Check(e, i, m)
             \/ Exports!Materialize(e) \/ Exports!Stage(e) \/ Exports!Verify(e)
             \/ Exports!Fail(e)
      PROVE  file' = file
  BY <1>4 DEF Exports!Check, Exports!Materialize, Exports!Stage, Exports!Verify,
     Exports!Fail
<1>5. ASSUME NEW i \in Id, Exports!Blobs(i)
      PROVE  file' = file
  BY <1>5 DEF Exports!Blobs
<1>6. CASE UNCHANGED Exports!vars
  BY <1>1, <1>6 DEF Exports!vars
<1>. QED BY <1>1, <1>2, <1>3, <1>4, <1>5, <1>6 DEF Exports!Next

\* An export never replaces a file, nor writes where the store does, and what
\* appears is complete, whoever else uses the name meanwhile (export_file).
THEOREM ExportsArePublishedWhole == Exports!Spec => Exports!ExportsAreWhole
<1> DEFINE Whole == \A n \in Name : file'[n] # file[n] =>
       \/ Exports!OtherProgram(n)
       \/ /\ file[n] = None
          /\ n \notin Managed
          /\ \E e \in Exporter : export[e].to = n /\ file'[n] = Bytes[export[e].id]
<1>1. StagedIsWhole /\ [Exports!Next]_(Exports!vars) => [Whole]_(Exports!vars)
  BY ExportStep
<1>2. Exports!Spec => []StagedIsWhole
  BY ExportInit, ExportKeeps, PTL DEF Exports!Spec
<1>. QED BY <1>1, <1>2, PTL DEF Exports!Spec, Exports!ExportsAreWhole
=============================================================================
