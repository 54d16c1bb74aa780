------------------------- MODULE BlobCatalogProofs -------------------------
(***************************************************************************)
(* Each catalog operation, applied where its guard allows it, turns a      *)
(* sound catalog into a sound one, takes nothing back and endangers no     *)
(* object of a blob.                                                       *)
(***************************************************************************)
EXTENDS BlobCatalog, TLAPS

\* What a successful operation that leaves the journal alone achieves.
Follows(d, e) == e \in Catalog /\ Sound(e) /\ Extends(d, e) /\ Narrows(d, e)

\* Status values and the fields of a catalog, for the provers.
LEMMA CatalogFields ==
  ASSUME NEW d \in Catalog
  PROVE  /\ d.prepared \in [Key -> Content \cup {None}]
         /\ d.status \in [Id -> Status]
         /\ d.token \in [Id -> Key \cup {None}]
         /\ d.meta \in [Id -> Meta \cup {None}]
         /\ d.version \in [Id -> 0 .. MaxVersion]
         /\ d.gc \in [Key -> GcState]
         /\ d.reason \in [Key -> GcReason]
         /\ d.refs \in SUBSET Id
         /\ d.tokenSchema \in [Key -> 0 .. MaxSchema]
         /\ d.rowSchema \in [Id -> 0 .. MaxSchema]
         /\ d.latest \in 1 .. MaxSchema
         /\ d.migrating \in BOOLEAN
BY DEF Catalog

LEMMA EmptyIsSound ==
  EmptyCatalog \in Catalog /\ Sound(EmptyCatalog)
<1>1. EmptyCatalog \in Catalog
  BY VersionAssumption DEF EmptyCatalog, Catalog, Status, GcState, GcReason
<1>2. Sound(EmptyCatalog)
  BY DEF EmptyCatalog, Sound, Exists
<1>. QED BY <1>1, <1>2

LEMMA ExtendsIsTransitive ==
  ASSUME NEW d \in Catalog, NEW e \in Catalog, NEW f \in Catalog,
         Extends(d, e), Extends(e, f)
  PROVE  Extends(d, f)
BY DEF Extends

LEMMA ExtendsIsReflexive ==
  ASSUME NEW d \in Catalog
  PROVE  Extends(d, d) /\ Narrows(d, d)
BY DEF Extends, Narrows

\* A completed upload enters the journal under a key that is not queued.
LEMMA JournalIsSound ==
  ASSUME NEW d \in Catalog, Sound(d), NEW k \in Key, NEW c \in Content,
         Unclaimed(d, k)
  PROVE  /\ Journal(d, k, c) \in Catalog
         /\ Sound(Journal(d, k, c))
         /\ Extends(d, Journal(d, k, c))
<1> DEFINE e == Journal(d, k, c)
<1>0. d.latest \in 0 .. MaxSchema
  BY CatalogFields, VersionAssumption
<1>1. e \in Catalog
  BY <1>0 DEF Journal, Catalog
<1>2. /\ e.prepared = [d.prepared EXCEPT ![k] = c]
      /\ e.tokenSchema = [d.tokenSchema EXCEPT ![k] = d.latest]
      /\ e.status = d.status /\ e.token = d.token /\ e.meta = d.meta
      /\ e.gc = d.gc /\ e.reason = d.reason
  BY DEF Journal, Catalog
<1>3. \A j \in Key :
        /\ e.prepared[j] = IF j = k THEN c ELSE d.prepared[j]
        /\ j # k => e.tokenSchema[j] = d.tokenSchema[j]
  BY <1>2, CatalogFields
<1>4. Sound(e)
  BY <1>2, <1>3, NoneAssumption DEF Sound, Exists, Unclaimed
<1>5. Extends(d, e)
  BY <1>2, <1>3 DEF Extends, Unclaimed
<1>. HIDE DEF e
<1>. QED BY <1>1, <1>4, <1>5 DEF e

\* A token that is neither revoked nor in use may be bound to a new id.
LEMMA FinalizeIsSound ==
  ASSUME NEW d \in Catalog, Sound(d), NEW i \in Id, NEW k \in Key, NEW m \in Meta,
         CanFinalize(d, i, k)
  PROVE  Follows(d, Finalize(d, i, k, m))
<1> DEFINE e == Finalize(d, i, k, m)
<1>0. 1 \in 0 .. MaxVersion /\ d.tokenSchema[k] \in 0 .. MaxSchema
  BY VersionAssumption, CatalogFields
<1>1. e \in Catalog
  BY <1>0 DEF Finalize, Catalog, Status
<1>2. /\ e.prepared = d.prepared /\ e.tokenSchema = d.tokenSchema
      /\ e.gc = d.gc /\ e.reason = d.reason
      /\ e.status = [d.status EXCEPT ![i] = "publishing"]
      /\ e.token = [d.token EXCEPT ![i] = k]
      /\ e.meta = [d.meta EXCEPT ![i] = m]
  BY DEF Finalize, Catalog
<1>3. \A j \in Id : /\ e.status[j] = IF j = i THEN "publishing" ELSE d.status[j]
                    /\ e.token[j] = IF j = i THEN k ELSE d.token[j]
                    /\ e.meta[j] = IF j = i THEN m ELSE d.meta[j]
  BY <1>2, CatalogFields
<1>4. d.gc[k] = "none"
  BY CatalogFields DEF Sound, CanFinalize, Revoked, GcReason
<1>5. \A j \in Id : Exists(d, j) => d.token[j] # k
  BY DEF CanFinalize, Bound
<1>6. \A j \in Id : Exists(e, j) <=> (j = i \/ Exists(d, j))
  BY <1>3 DEF Exists
<1>7. Sound(e)
  BY <1>2, <1>3, <1>4, <1>5, <1>6 DEF Sound, CanFinalize
<1>8. Extends(d, e) /\ Narrows(d, e)
  BY <1>2 DEF Extends, Narrows
<1>. HIDE DEF e
<1>. QED BY <1>1, <1>7, <1>8 DEF e, Follows

LEMMA PublishIsSound ==
  ASSUME NEW d \in Catalog, Sound(d), NEW i \in Id, CanPublish(d, i)
  PROVE  Follows(d, Publish(d, i))
<1> DEFINE e == Publish(d, i)
<1>1. e \in Catalog
  BY DEF Publish, Catalog, Status
<1>2. /\ e.prepared = d.prepared /\ e.tokenSchema = d.tokenSchema
      /\ e.gc = d.gc /\ e.reason = d.reason
      /\ e.status = [d.status EXCEPT ![i] = "ready"]
      /\ e.token = d.token /\ e.meta = d.meta
  BY DEF Publish, Catalog
<1>3. \A j \in Id : e.status[j] = IF j = i THEN "ready" ELSE d.status[j]
  BY <1>2, CatalogFields
<1>4. \A j \in Id : Exists(e, j) <=> Exists(d, j)
  BY <1>3 DEF Exists, CanPublish, Complete
<1>5. Sound(e)
  BY <1>2, <1>3, <1>4 DEF Sound
<1>6. Extends(d, e) /\ Narrows(d, e)
  BY <1>2 DEF Extends, Narrows
<1>. HIDE DEF e
<1>. QED BY <1>1, <1>5, <1>6 DEF e, Follows

LEMMA UpdateMetadataIsSound ==
  ASSUME NEW d \in Catalog, Sound(d), NEW i \in Id, NEW v \in 1 .. MaxVersion,
         NEW m \in Meta, CanUpdate(d, i, v)
  PROVE  Follows(d, UpdateMetadata(d, i, m))
<1> DEFINE e == UpdateMetadata(d, i, m)
<1>1. d.version[i] + 1 \in 0 .. MaxVersion
  BY VersionAssumption DEF CanUpdate
<1>2. e \in Catalog
  BY <1>1 DEF UpdateMetadata, Catalog
<1>3. /\ e.prepared = d.prepared /\ e.tokenSchema = d.tokenSchema
      /\ e.gc = d.gc /\ e.reason = d.reason
      /\ e.status = d.status /\ e.token = d.token
      /\ e.meta = [d.meta EXCEPT ![i] = m]
  BY DEF UpdateMetadata, Catalog
<1>4. \A j \in Id : e.meta[j] = IF j = i THEN m ELSE d.meta[j]
  BY <1>3, CatalogFields
<1>5. Sound(e)
  BY <1>3, <1>4 DEF Sound, Exists
<1>6. Extends(d, e) /\ Narrows(d, e)
  BY <1>3 DEF Extends, Narrows
<1>. HIDE DEF e
<1>. QED BY <1>2, <1>5, <1>6 DEF e, Follows

\* Retiring a blob queues its object, which no other blob names.
LEMMA DeleteIsSound ==
  ASSUME NEW d \in Catalog, Sound(d), NEW i \in Id, Complete(d, i)
  PROVE  Follows(d, Delete(d, i))
<1> DEFINE e == Delete(d, i)
           k == d.token[i]
<1>0. k \in Key /\ Exists(d, i) /\ d.prepared[k] # None /\ d.gc[k] = "none"
  BY DEF Complete, Sound
<1>1. e \in Catalog
  BY <1>0 DEF Delete, DeleteRefused, Catalog, Status, GcState, GcReason
<1>2. /\ e.prepared = d.prepared /\ e.tokenSchema = d.tokenSchema
      /\ e.status = [d.status EXCEPT ![i] = "retired"]
      /\ e.token = d.token
      /\ e.meta = [d.meta EXCEPT ![i] = None]
      /\ e.gc = [d.gc EXCEPT ![k] = "pending"]
      /\ e.reason = [d.reason EXCEPT ![k] = "retired"]
  BY <1>0, CatalogFields DEF Delete, DeleteRefused, Catalog
<1>3. /\ \A j \in Id : /\ e.status[j] = IF j = i THEN "retired" ELSE d.status[j]
                       /\ j # i => e.meta[j] = d.meta[j]
      /\ \A l \in Key : /\ e.gc[l] = IF l = k THEN "pending" ELSE d.gc[l]
                        /\ e.reason[l] = IF l = k THEN "retired" ELSE d.reason[l]
  BY <1>2, CatalogFields
<1>4. \A j \in Id : Exists(e, j) <=> (j # i /\ Exists(d, j))
  BY <1>3 DEF Exists
<1>5. \A j \in Id : j # i /\ Exists(d, j) => d.token[j] # k
  BY <1>0 DEF Sound
<1> HIDE DEF k
<1>6. Sound(e)
  BY <1>0, <1>2, <1>3, <1>4, <1>5 DEF Sound
<1>7. Extends(d, e) /\ Narrows(d, e)
  BY <1>0, <1>2, <1>3 DEF Extends, Narrows
<1>. HIDE DEF e
<1>. QED BY <1>1, <1>6, <1>7 DEF e, Follows

\* A new version of the schema touches no row.
LEMMA SupersedeIsSound ==
  ASSUME NEW d \in Catalog, Sound(d), CanSupersede(d)
  PROVE  Follows(d, Supersede(d))
<1> DEFINE e == Supersede(d)
<1>1. d.latest + 1 \in 1 .. MaxSchema
  BY CatalogFields, VersionAssumption DEF CanSupersede
<1>2. e \in Catalog
  BY <1>1 DEF Supersede, Catalog
<1>3. /\ e.prepared = d.prepared /\ e.tokenSchema = d.tokenSchema
      /\ e.gc = d.gc /\ e.reason = d.reason
      /\ e.status = d.status /\ e.token = d.token /\ e.meta = d.meta
  BY DEF Supersede, Catalog
<1>4. Sound(e)
  BY <1>3 DEF Sound, Exists
<1>5. Extends(d, e) /\ Narrows(d, e)
  BY <1>3 DEF Extends, Narrows
<1>. HIDE DEF e
<1>. QED BY <1>2, <1>4, <1>5 DEF e, Follows

\* What a batch leaves alone and what it changes.
LEMMA BatchFields ==
  ASSUME NEW d \in Catalog, NEW is \in SUBSET Id, NEW f, CanBatch(d, is)
  PROVE  LET e == Batch(d, is, f) IN
         /\ e.prepared = d.prepared /\ e.tokenSchema = d.tokenSchema
         /\ e.gc = d.gc /\ e.reason = d.reason /\ e.refs = d.refs
         /\ e.status = d.status /\ e.token = d.token /\ e.latest = d.latest
         /\ e.migrating = ~ (Old(d) \subseteq is)
         /\ \A i \in Id :
              /\ e.meta[i] = IF i \in is THEN f[i] ELSE d.meta[i]
              /\ e.version[i] = IF i \in is THEN d.version[i] + 1 ELSE d.version[i]
              /\ e.rowSchema[i] = IF i \in is THEN d.latest ELSE d.rowSchema[i]
BY DEF Batch, Catalog

LEMMA BatchIsSound ==
  ASSUME NEW d \in Catalog, Sound(d), NEW is \in SUBSET Id, NEW f,
         \A i \in is : f[i] \in Meta, CanBatch(d, is)
  PROVE  Follows(d, Batch(d, is, f))
<1> DEFINE e == Batch(d, is, f)
<1>1. \A i \in is : d.version[i] + 1 \in 0 .. MaxVersion
  BY CatalogFields, VersionAssumption DEF CanBatch
<1>2. d.latest \in 0 .. MaxSchema
  BY CatalogFields, VersionAssumption
<1>3. e \in Catalog
  BY <1>1, <1>2 DEF Batch, Catalog
<1>4. /\ e.prepared = d.prepared /\ e.tokenSchema = d.tokenSchema
      /\ e.gc = d.gc /\ e.reason = d.reason
      /\ e.status = d.status /\ e.token = d.token
      /\ \A i \in Id : e.meta[i] = IF i \in is THEN f[i] ELSE d.meta[i]
  BY BatchFields
<1> HIDE DEF e
<1>5. Sound(e)
  BY <1>4 DEF Sound, Exists
<1>6. Extends(d, e) /\ Narrows(d, e)
  BY <1>4 DEF Extends, Narrows
<1>. QED BY <1>3, <1>5, <1>6 DEF e, Follows

\* Revoking a token nobody uses queues its object, and only that one.
LEMMA DiscardIsSound ==
  ASSUME NEW d \in Catalog, Sound(d), NEW k \in Key, CanDiscard(d, k)
  PROVE  Follows(d, Discard(d, k))
<1> DEFINE e == Discard(d, k)
<1>1. CASE d.gc[k] # "none"
  <2>1. e = d
    BY <1>1 DEF Discard, Queue
  <2>. QED BY <2>1, ExtendsIsReflexive DEF Follows
<1>2. CASE d.gc[k] = "none"
  <2>0. e = [d EXCEPT !.gc[k] = "pending", !.reason[k] = "discarded"]
    BY <1>2 DEF Discard, Queue
  <2> HIDE DEF e
  <2>1. e \in Catalog
    BY <2>0 DEF Catalog, GcState, GcReason
  <2>2. /\ e.prepared = d.prepared /\ e.tokenSchema = d.tokenSchema
        /\ e.status = d.status
        /\ e.token = d.token /\ e.meta = d.meta
        /\ e.gc = [d.gc EXCEPT ![k] = "pending"]
        /\ e.reason = [d.reason EXCEPT ![k] = "discarded"]
    BY <2>0 DEF Catalog
  <2>3. \A l \in Key : /\ e.gc[l] = IF l = k THEN "pending" ELSE d.gc[l]
                       /\ e.reason[l] = IF l = k THEN "discarded" ELSE d.reason[l]
    BY <2>2, CatalogFields
  <2>4. \A j \in Id : Exists(d, j) => d.token[j] # k
    BY DEF CanDiscard, Bound
  <2>5. Sound(e)
    BY <2>2, <2>3, <2>4 DEF Sound, Exists
  <2>6. Extends(d, e) /\ Narrows(d, e)
    BY <1>2, <2>2, <2>3 DEF Extends, Narrows
  <2>. HIDE DEF e
  <2>. QED BY <2>1, <2>5, <2>6 DEF e, Follows
<1>. QED BY <1>1, <1>2

\* Orphans are keys the journal does not know.
LEMMA QueueOrphansIsSound ==
  ASSUME NEW d \in Catalog, Sound(d), NEW ks \in SUBSET Key, CanQueueOrphans(d, ks)
  PROVE  Follows(d, QueueOrphans(d, ks))
<1> DEFINE e == QueueOrphans(d, ks)
<1>1. e \in Catalog
  BY DEF QueueOrphans, Catalog, GcState, GcReason
<1>2. /\ e.prepared = d.prepared /\ e.tokenSchema = d.tokenSchema
      /\ e.status = d.status /\ e.token = d.token /\ e.meta = d.meta
      /\ \A l \in Key :
           /\ e.gc[l] = IF l \in ks /\ d.gc[l] = "none" THEN "pending" ELSE d.gc[l]
           /\ e.reason[l] = IF l \in ks /\ d.gc[l] = "none"
                              THEN "orphan" ELSE d.reason[l]
  BY DEF QueueOrphans, Catalog
<1>3. \A l \in ks : d.prepared[l] = None
  BY DEF CanQueueOrphans
<1>4. Sound(e)
  BY <1>2, <1>3 DEF Sound, Exists
<1>5. Extends(d, e) /\ Narrows(d, e)
  BY <1>2, <1>3 DEF Extends, Narrows
<1>. HIDE DEF e
<1>. QED BY <1>1, <1>4, <1>5 DEF e, Follows

\* Recording the outcome of one job closes at most that job.
LEMMA RecordSweepIsSound ==
  ASSUME NEW d \in Catalog, Sound(d), NEW k \in Key, NEW swept \in BOOLEAN
  PROVE  /\ RecordSweep(d, k, swept) \in Catalog
         /\ Sound(RecordSweep(d, k, swept))
         /\ Extends(d, RecordSweep(d, k, swept))
         /\ RecordSweep(d, k, swept).prepared = d.prepared
         /\ \A l \in Key : l # k => RecordSweep(d, k, swept).gc[l] = d.gc[l]
         /\ RecordSweep(d, k, swept).gc[k] # d.gc[k] => swept
         /\ RecordSweep(d, k, swept).gc[k] = "none" <=> d.gc[k] = "none"
<1> DEFINE e == RecordSweep(d, k, swept)
<1>1. CASE ~ (swept /\ d.gc[k] = "pending")
  <2>1. e = d
    BY <1>1 DEF RecordSweep
  <2>. QED BY <2>1, ExtendsIsReflexive
<1>2. CASE swept /\ d.gc[k] = "pending"
  <2>0. e = [d EXCEPT !.gc[k] = "done"]
    BY <1>2 DEF RecordSweep
  <2> HIDE DEF e
  <2>1. e \in Catalog
    BY <2>0 DEF Catalog, GcState
  <2>2. /\ e.prepared = d.prepared /\ e.tokenSchema = d.tokenSchema
        /\ e.status = d.status
        /\ e.token = d.token /\ e.meta = d.meta /\ e.reason = d.reason
        /\ e.gc = [d.gc EXCEPT ![k] = "done"]
    BY <2>0 DEF Catalog
  <2>3. \A l \in Key : e.gc[l] = IF l = k THEN "done" ELSE d.gc[l]
    BY <2>2, CatalogFields
  <2>4. Sound(e)
    BY <1>2, <2>2, <2>3 DEF Sound, Exists
  <2>5. Extends(d, e)
    BY <1>2, <2>2, <2>3 DEF Extends
  <2>. HIDE DEF e
  <2>. QED BY <1>2, <2>1, <2>2, <2>3, <2>4, <2>5 DEF e
<1>. QED BY <1>1, <1>2

----------------------------------------------------------------------------
(* Ids and tokens over time.                                               *)

\* A catalog that may come of d, operation by operation.
Onward(d, e) == RowsAreOrderly(e) /\ Succeeds(d, e)

LEMMA EmptyIsOrderly == RowsAreOrderly(EmptyCatalog)
BY DEF RowsAreOrderly, TokensAreUsedOnce, RowsFollowSchema, Exists, EmptyCatalog

\* Tokens stay used once while no id is retired and no reason is taken back.
LEMMA NobodyRetires ==
  ASSUME NEW e, NEW f, RowsAreOrderly(e),
         \A i \in Id : f.status[i] = "retired" =>
           e.status[i] = "retired" /\ f.token[i] = e.token[i],
         \A k \in Key : e.reason[k] # "none" => f.reason[k] = e.reason[k]
  PROVE  TokensAreUsedOnce(f)
BY DEF RowsAreOrderly, TokensAreUsedOnce

\* Rows follow the schema while the others stay and a changed one is of the latest.
LEMMA NobodyFallsBehind ==
  ASSUME NEW e, NEW f, RowsAreOrderly(e),
         f.latest = e.latest, f.migrating = e.migrating,
         \A i \in Id : Exists(f, i) =>
           \/ f.rowSchema[i] = f.latest
           \/ /\ Exists(e, i)
              /\ f.rowSchema[i] = e.rowSchema[i]
              /\ e.status[i] = "ready" => f.status[i] = "ready"
  PROVE  RowsFollowSchema(f)
BY DEF RowsAreOrderly, RowsFollowSchema

LEMMA SucceedsItself ==
  ASSUME NEW d \in Catalog, RowsAreOrderly(d)
  PROVE  Onward(d, d)
BY CatalogFields DEF Onward, Succeeds

\* Operations on the journal and the jobs leave the rows alone.
LEMMA SameRowsGoOnward ==
  ASSUME NEW d \in Catalog, NEW e \in Catalog, NEW f, Onward(d, e),
         f.status = e.status, f.token = e.token, f.meta = e.meta,
         f.version = e.version, f.rowSchema = e.rowSchema,
         f.latest = e.latest, f.migrating = e.migrating,
         \A k \in Key : e.reason[k] # "none" => f.reason[k] = e.reason[k]
  PROVE  Onward(d, f)
<1>1. \A i \in Id : Exists(f, i) <=> Exists(e, i)
  BY DEF Exists
<1>2. RowsAreOrderly(f)
  <2>1. TokensAreUsedOnce(f)
    BY NobodyRetires DEF Onward
  <2>2. RowsFollowSchema(f)
    BY <1>1, NobodyFallsBehind DEF Onward
  <2>. QED BY <2>1, <2>2 DEF Onward, RowsAreOrderly
<1>3. Succeeds(d, f)
  BY <1>1 DEF Onward, Succeeds
<1>. QED BY <1>2, <1>3 DEF Onward

LEMMA JournalGoesOnward ==
  ASSUME NEW d \in Catalog, NEW e \in Catalog, Onward(d, e),
         NEW k \in Key, NEW c \in Content
  PROVE  Onward(d, Journal(e, k, c))
<1> DEFINE f == Journal(e, k, c)
<1>1. /\ f.status = e.status /\ f.token = e.token /\ f.meta = e.meta
      /\ f.version = e.version /\ f.rowSchema = e.rowSchema
      /\ f.latest = e.latest /\ f.migrating = e.migrating /\ f.reason = e.reason
  BY DEF Journal, Catalog
<1> HIDE DEF f
<1>2. Onward(d, f)
  BY <1>1, SameRowsGoOnward
<1>. QED BY <1>2 DEF f

LEMMA QueueGoesOnward ==
  ASSUME NEW d \in Catalog, NEW e \in Catalog, Sound(e), Onward(d, e)
  PROVE  /\ \A k \in Key : Onward(d, Discard(e, k))
         /\ \A ks \in SUBSET Key : Onward(d, QueueOrphans(e, ks))
         /\ \A k \in Key, swept \in BOOLEAN : Onward(d, RecordSweep(e, k, swept))
<1>1. ASSUME NEW k \in Key
      PROVE  Onward(d, Discard(e, k))
  <2> DEFINE f == Discard(e, k)
  <2>1. /\ f.status = e.status /\ f.token = e.token /\ f.meta = e.meta
        /\ f.version = e.version /\ f.rowSchema = e.rowSchema
        /\ f.latest = e.latest /\ f.migrating = e.migrating
    BY DEF Discard, Queue, Catalog
  <2>2. \A l \in Key : e.reason[l] # "none" => f.reason[l] = e.reason[l]
    BY DEF Discard, Queue, Catalog, Sound
  <2> HIDE DEF f
  <2>3. Onward(d, f)
    BY <2>1, <2>2, SameRowsGoOnward
  <2>. QED BY <2>3 DEF f
<1>2. ASSUME NEW ks \in SUBSET Key
      PROVE  Onward(d, QueueOrphans(e, ks))
  <2> DEFINE f == QueueOrphans(e, ks)
  <2>1. /\ f.status = e.status /\ f.token = e.token /\ f.meta = e.meta
        /\ f.version = e.version /\ f.rowSchema = e.rowSchema
        /\ f.latest = e.latest /\ f.migrating = e.migrating
    BY DEF QueueOrphans, Catalog
  <2>2. \A l \in Key : e.reason[l] # "none" => f.reason[l] = e.reason[l]
    BY DEF QueueOrphans, Catalog, Sound
  <2> HIDE DEF f
  <2>3. Onward(d, f)
    BY <2>1, <2>2, SameRowsGoOnward
  <2>. QED BY <2>3 DEF f
<1>3. ASSUME NEW k \in Key, NEW swept \in BOOLEAN
      PROVE  Onward(d, RecordSweep(e, k, swept))
  <2> DEFINE f == RecordSweep(e, k, swept)
  <2>1. /\ f.status = e.status /\ f.token = e.token /\ f.meta = e.meta
        /\ f.version = e.version /\ f.rowSchema = e.rowSchema
      /\ f.latest = e.latest /\ f.migrating = e.migrating /\ f.reason = e.reason
    BY DEF RecordSweep, Catalog
  <2> HIDE DEF f
  <2>2. Onward(d, f)
    BY <2>1, SameRowsGoOnward
  <2>. QED BY <2>2 DEF f
<1>. QED BY <1>1, <1>2, <1>3

\* A new blob takes an id that never named anything.
LEMMA FinalizeGoesOnward ==
  ASSUME NEW d \in Catalog, NEW e \in Catalog, Onward(d, e),
         NEW i \in Id, NEW k \in Key, NEW m \in Meta, CanFinalize(e, i, k)
  PROVE  Onward(d, Finalize(e, i, k, m))
<1> DEFINE f == Finalize(e, i, k, m)
<1>1. /\ f.reason = e.reason /\ f.latest = e.latest /\ f.migrating = e.migrating
      /\ \A j \in Id :
           /\ f.status[j] = IF j = i THEN "publishing" ELSE e.status[j]
           /\ f.token[j] = IF j = i THEN k ELSE e.token[j]
           /\ f.meta[j] = IF j = i THEN m ELSE e.meta[j]
           /\ f.version[j] = IF j = i THEN 1 ELSE e.version[j]
           /\ f.rowSchema[j] = IF j = i THEN e.tokenSchema[k] ELSE e.rowSchema[j]
  BY CatalogFields DEF Finalize, Catalog
<1> HIDE DEF f
<1>2. e.status[i] = "absent" /\ d.status[i] = "absent"
  BY CatalogFields DEF CanFinalize, Onward, Succeeds, Exists, Status
<1>3. RowsAreOrderly(f)
  <2>1. TokensAreUsedOnce(f)
    BY <1>1, NobodyRetires DEF Onward
  <2>2. e.tokenSchema[k] = e.latest
    BY DEF CanFinalize
  <2>3. \A j \in Id : j # i => (Exists(f, j) <=> Exists(e, j))
    BY <1>1 DEF Exists
  <2>4. RowsFollowSchema(f)
    BY <1>1, <2>2, <2>3, NobodyFallsBehind DEF Onward
  <2>. QED BY <1>1, <2>1, <2>4 DEF Onward, RowsAreOrderly
<1>4. \A j \in Id : j # i => (Exists(f, j) <=> Exists(e, j))
  BY <1>1 DEF Exists
<1>5. Succeeds(d, f)
  BY <1>1, <1>2, <1>4 DEF Onward, Succeeds, Exists
<1>. QED BY <1>3, <1>5 DEF Onward, f

LEMMA PublishGoesOnward ==
  ASSUME NEW d \in Catalog, NEW e \in Catalog, Onward(d, e),
         NEW i \in Id, CanPublish(e, i)
  PROVE  Onward(d, Publish(e, i))
<1> DEFINE f == Publish(e, i)
<1>1. /\ f.reason = e.reason /\ f.token = e.token /\ f.meta = e.meta
      /\ f.version = e.version /\ f.rowSchema = e.rowSchema
      /\ f.latest = e.latest /\ f.migrating = e.migrating
      /\ \A j \in Id : f.status[j] = IF j = i THEN "ready" ELSE e.status[j]
  BY CatalogFields DEF Publish, Catalog
<1> HIDE DEF f
<1>2. \A j \in Id : Exists(f, j) <=> Exists(e, j)
  BY <1>1 DEF Exists, CanPublish, Complete
<1>3. e.status[i] \in {"publishing", "ready"}
  BY DEF CanPublish
<1>4. RowsAreOrderly(f)
  <2>1. TokensAreUsedOnce(f)
    BY <1>1, NobodyRetires DEF Onward
  <2>2. RowsFollowSchema(f)
    BY <1>1, <1>2, NobodyFallsBehind DEF Onward
  <2>. QED BY <1>1, <1>3, <2>1, <2>2 DEF Onward, RowsAreOrderly
<1>5. Succeeds(d, f)
  BY <1>1, <1>2, <1>3 DEF Onward, Succeeds
<1>. QED BY <1>4, <1>5 DEF Onward, f

LEMMA UpdateMetadataGoesOnward ==
  ASSUME NEW d \in Catalog, NEW e \in Catalog, Onward(d, e),
         NEW i \in Id, NEW v \in 1 .. MaxVersion, NEW m \in Meta, CanUpdate(e, i, v)
  PROVE  Onward(d, UpdateMetadata(e, i, m))
<1> DEFINE f == UpdateMetadata(e, i, m)
<1>1. /\ f.reason = e.reason /\ f.token = e.token /\ f.status = e.status
      /\ f.rowSchema = e.rowSchema /\ f.latest = e.latest
      /\ f.migrating = e.migrating
      /\ \A j \in Id :
           /\ f.meta[j] = IF j = i THEN m ELSE e.meta[j]
           /\ f.version[j] = IF j = i THEN e.version[i] + 1 ELSE e.version[j]
  BY CatalogFields DEF UpdateMetadata, Catalog
<1> HIDE DEF f
<1>2. e.status[i] = "ready" /\ e.version[i] \in Int /\ d.version[i] \in Int
  BY CatalogFields, VersionAssumption DEF CanUpdate
<1>3. RowsAreOrderly(f)
  <2>1. TokensAreUsedOnce(f)
    BY <1>1, NobodyRetires DEF Onward
  <2>2. \A j \in Id : Exists(f, j) <=> Exists(e, j)
    BY <1>1 DEF Exists
  <2>3. RowsFollowSchema(f)
    BY <1>1, <2>2, NobodyFallsBehind DEF Onward
  <2>. QED BY <1>1, <1>2, <2>1, <2>3 DEF Onward, RowsAreOrderly
<1>4. \A j \in Id : Exists(f, j) <=> Exists(e, j)
  BY <1>1 DEF Exists
<1>5. ASSUME Exists(d, i)
      PROVE  f.version[i] > d.version[i]
  BY <1>1, <1>2, <1>5 DEF Onward, Succeeds
<1>6. Succeeds(d, f)
  BY <1>1, <1>2, <1>4, <1>5 DEF Onward, Succeeds, Exists
<1>. QED BY <1>3, <1>6 DEF Onward, f

\* The token of a blob was not revoked before the blob was retired.
LEMMA DeleteGoesOnward ==
  ASSUME NEW d \in Catalog, NEW e \in Catalog, Sound(e), Onward(d, e),
         NEW i \in Id, Complete(e, i)
  PROVE  Onward(d, Delete(e, i))
<1> DEFINE f == Delete(e, i)
           k == e.token[i]
<1>1. /\ Exists(e, i) /\ k \in Key /\ e.reason[k] = "none"
  BY DEF Complete, Sound
<1>2. /\ f.token = e.token /\ f.version = e.version
      /\ f.rowSchema = e.rowSchema /\ f.latest = e.latest
      /\ f.migrating = e.migrating
      /\ \A j \in Id : /\ f.status[j] = IF j = i THEN "retired" ELSE e.status[j]
                       /\ f.meta[j] = IF j = i THEN None ELSE e.meta[j]
      /\ \A l \in Key : f.reason[l] = IF l = k THEN "retired" ELSE e.reason[l]
  BY <1>1, CatalogFields DEF Delete, DeleteRefused, Catalog
<1> HIDE DEF f, k
<1>3. e.status[i] \in {"publishing", "ready", "pending_delete"}
  BY <1>1 DEF Exists
<1>4. RowsAreOrderly(f)
  <2>1. /\ RowsAreOrderly(e) /\ f.token[i] = k
        /\ \A j \in Id : e.status[j] = "retired" => e.token[j] # k
    BY <1>1, <1>2 DEF Onward, RowsAreOrderly, TokensAreUsedOnce, k
  <2>2. \A j \in Id : f.status[j] = "retired" =>
          f.token[j] \in Key /\ f.reason[f.token[j]] = "retired"
    BY <1>1, <1>2, <2>1 DEF RowsAreOrderly, TokensAreUsedOnce
  <2>3. ASSUME NEW a \in Id, NEW b \in Id, f.status[a] = "retired",
               f.status[b] = "retired", f.token[a] = f.token[b]
        PROVE  a = b
    BY <1>2, <2>1, <2>3 DEF RowsAreOrderly, TokensAreUsedOnce
  <2>4. TokensAreUsedOnce(f)
    BY <2>2, <2>3 DEF TokensAreUsedOnce
  <2>5. \A j \in Id : Exists(f, j) => Exists(e, j) /\ f.status[j] = e.status[j]
    BY <1>2 DEF Exists
  <2>6. RowsFollowSchema(f)
    BY <1>2, <2>5, NobodyFallsBehind DEF Onward
  <2>. QED BY <1>2, <1>3, <2>1, <2>4, <2>6 DEF RowsAreOrderly
<1>5. \A j \in Id : Exists(f, j) <=> (j # i /\ Exists(e, j))
  BY <1>2 DEF Exists
<1>6. d.reason[k] = "none"
  BY <1>1 DEF Onward, Succeeds
<1>7. Succeeds(d, f)
  BY <1>1, <1>2, <1>3, <1>5, <1>6 DEF Onward, Succeeds, k
<1>. QED BY <1>4, <1>7 DEF Onward, f

\* Where no migration runs every row is of the latest version, which a new one
\* makes the last but one.
LEMMA SupersedeGoesOnward ==
  ASSUME NEW d \in Catalog, NEW e \in Catalog, Sound(e), Onward(d, e), CanSupersede(e)
  PROVE  Onward(d, Supersede(e))
<1> DEFINE f == Supersede(e)
<1>1. /\ f.reason = e.reason /\ f.token = e.token /\ f.status = e.status
      /\ f.meta = e.meta /\ f.version = e.version /\ f.rowSchema = e.rowSchema
      /\ f.latest = e.latest + 1 /\ f.migrating = TRUE
  BY DEF Supersede, Catalog
<1> HIDE DEF f
<1>2. \A i \in Id : Exists(f, i) <=> Exists(e, i)
  BY <1>1 DEF Exists
<1>3. \A i \in Id : Exists(e, i) => e.status[i] = "ready" /\ e.rowSchema[i] = e.latest
  BY DEF CanSupersede, Unfinished, Onward, RowsAreOrderly, RowsFollowSchema
<1>4. RowsFollowSchema(f)
  BY <1>1, <1>2, <1>3, CatalogFields, VersionAssumption DEF RowsFollowSchema
<1>5. RowsAreOrderly(f)
  <2>1. TokensAreUsedOnce(f)
    BY <1>1, NobodyRetires DEF Onward
  <2>. QED BY <1>1, <1>4, <2>1 DEF Onward, RowsAreOrderly
<1>6. Succeeds(d, f)
  BY <1>1, <1>2 DEF Onward, Succeeds
<1>. QED BY <1>5, <1>6 DEF Onward, f

\* A batch gives its rows the next version number with the next metadata, and
\* does not end the migration while it leaves rows behind.
LEMMA BatchGoesOnward ==
  ASSUME NEW d \in Catalog, NEW e \in Catalog, Onward(d, e),
         NEW is \in SUBSET Id, NEW h, CanBatch(e, is)
  PROVE  Onward(d, Batch(e, is, h))
<1> DEFINE f == Batch(e, is, h)
<1>1. /\ f.reason = e.reason /\ f.token = e.token /\ f.status = e.status
      /\ f.latest = e.latest /\ f.migrating = ~ (Old(e) \subseteq is)
      /\ \A i \in Id :
           /\ f.meta[i] = IF i \in is THEN h[i] ELSE e.meta[i]
           /\ f.version[i] = IF i \in is THEN e.version[i] + 1 ELSE e.version[i]
           /\ f.rowSchema[i] = IF i \in is THEN e.latest ELSE e.rowSchema[i]
  BY BatchFields
<1> HIDE DEF f
<1>2. \A i \in Id : Exists(f, i) <=> Exists(e, i)
  BY <1>1 DEF Exists
<1>3. \A i \in Id : e.version[i] \in Int /\ d.version[i] \in Int
  BY CatalogFields, VersionAssumption
<1>4. \A i \in is : Exists(e, i)
  BY DEF CanBatch, Old
<1>5. RowsAreOrderly(f)
  <2>1. TokensAreUsedOnce(f)
    BY <1>1, NobodyRetires DEF Onward
  <2>2. RowsFollowSchema(f)
    <3> SUFFICES ASSUME NEW i \in Id, Exists(f, i), f.rowSchema[i] # f.latest
                 PROVE  /\ f.migrating
                        /\ f.status[i] = "ready" /\ f.rowSchema[i] = f.latest - 1
      BY DEF RowsFollowSchema
    <3>1. i \notin is /\ f.rowSchema[i] = e.rowSchema[i] /\ i \in Old(e)
      BY <1>1, <1>2 DEF Old
    <3>2. f.status[i] = "ready" /\ f.rowSchema[i] = f.latest - 1
      BY <1>1, <1>2, <3>1 DEF Onward, RowsAreOrderly, RowsFollowSchema
    <3>. QED BY <1>1, <3>1, <3>2
  <2>3. \A i \in is : e.status[i] \in {"publishing", "ready", "pending_delete"}
    BY <1>4 DEF Exists
  <2>. QED BY <1>1, <1>3, <2>1, <2>2, <2>3 DEF Onward, RowsAreOrderly
<1>6. \A i \in is : Exists(d, i) => f.version[i] > d.version[i]
  BY <1>1, <1>3, <1>4 DEF Onward, Succeeds
<1>7. Succeeds(d, f)
  <2>1. ASSUME NEW i \in Id, d.status[i] = "retired"
        PROVE  i \notin is
    BY <1>4, <2>1 DEF Onward, Succeeds, Exists
  <2>2. ASSUME NEW i \in Id, Exists(d, i)
        PROVE  f.version[i] >= d.version[i]
    BY <1>1, <1>3, <1>6, <2>2 DEF Onward, Succeeds
  <2>3. ASSUME NEW i \in Id, Exists(d, i), f.version[i] = d.version[i]
        PROVE  i \notin is
    BY <1>3, <1>6, <2>3
  <2>4. \A i \in Id : i \notin is =>
          f.meta[i] = e.meta[i] /\ f.version[i] = e.version[i]
    BY <1>1
  <2>. QED BY <1>1, <1>2, <2>1, <2>2, <2>3, <2>4 DEF Onward, Succeeds
<1>. QED BY <1>5, <1>7 DEF Onward, f
============================================================================
