-------------------------- MODULE MetadataEvolution -------------------------
(***************************************************************************)
(* The metadata rows of one logical schema while its versions succeed each *)
(* other.  `migrate` first installs the next version and a job in one      *)
(* transaction, then transforms the old rows in batches, each with its     *)
(* checkpoint in a transaction of its own; meanwhile other sessions        *)
(* finalize uploads they prepared at any time, publish, read, update and   *)
(* delete.                                                                 *)
(*                                                                         *)
(* Every action is one committed transaction (what does not commit does    *)
(* nothing here, a dry run included).                                      *)
(***************************************************************************)
EXTENDS Integers, FiniteSets

CONSTANTS Proc,
          Id,         \* blob ids, in the order of the primary key
          Meta,       \* metadata values, in any version of the schema
          Sense,      \* what metadata means to the application
          Transform,  \* Transform[s][m]: the callback from version s to s + 1
          Meaning,    \* Meaning[s][m]: what m means in version s
          MaxSchema,  \* the last version of the schema
          MaxVersion, \* the largest metadata version (2^63 - 1 in the code)
          None

Schema == 1 .. MaxSchema
Target == 2 .. MaxSchema

ASSUME EvolutionAssumption ==
  /\ MaxSchema \in Nat \ {0}
  /\ MaxVersion \in Nat \ {0}
  /\ Id \subseteq Nat \ {0} /\ IsFiniteSet(Id)
  /\ None \notin Sense
  /\ None \notin Id

\* The caller's obligation: a callback has one meaning, the identity of senses.
ASSUME TransformAssumption ==
  /\ Transform \in [Schema -> [Meta -> Meta]]
  /\ Meaning \in [Schema -> [Meta -> Sense]]
  /\ \A s \in Schema \ {MaxSchema}, m \in Meta :
       Meaning[s + 1][Transform[s][m]] = Meaning[s][m]

VARIABLES latest,    \* the newest row of ms_schemas
          row,       \* ms_blobs and the metadata table
          job,       \* ms_migrations, by target version
          running,   \* the migration each process is in the loop of, or 0
          seen       \* the record each process read last

vars == <<latest, row, job, running, seen>>

Row == [state : {"absent", "publishing", "ready", "retired"}, schema : Schema,
        version : 0 .. MaxVersion, meta : Meta \cup {None}]
NoRow == [state |-> "absent", schema |-> 1, version |-> 0, meta |-> None]

Job == [state : {"none", "running", "complete"}, total : Nat, migrated : Nat,
        last : Id \cup {0}]
NoJob == [state |-> "none", total |-> 0, migrated |-> 0, last |-> 0]

Record == [id : Id, schema : Schema, version : 1 .. MaxVersion, meta : Meta]
NoRecord == [id |-> None, schema |-> 1, version |-> 0, meta |-> None]

TypeOK ==
  /\ latest \in Schema
  /\ row \in [Id -> Row]
  /\ job \in [Target -> Job]
  /\ running \in [Proc -> Target \cup {0}]
  /\ seen \in [Proc -> Record \cup {NoRecord}]

Init ==
  /\ latest = 1
  /\ row = [i \in Id |-> NoRow]
  /\ job = [t \in Target |-> NoJob]
  /\ running = [p \in Proc |-> 0]
  /\ seen = [p \in Proc |-> NoRecord]

Live(i) == row[i].state \in {"publishing", "ready"}
Active == \E t \in Target : job[t].state = "running"
Unfinished == \E i \in Id : row[i].state = "publishing"

----------------------------------------------------------------------------
(* Imports, updates and deletes.                                           *)

\* Variant: an upload prepared for an older version is finalized in it.
FinalizeOld(i, s, m) ==
  /\ s <= latest
  /\ row[i].state = "absent"
  /\ row' = [row EXCEPT ![i] =
       [state |-> "publishing", schema |-> s, version |-> 1, meta |-> m]]
  /\ UNCHANGED <<latest, job, running, seen>>
\* s is the version the upload was prepared for, once the latest; `writable`
\* refuses it when it no longer is.
Finalize(i, s, m) ==
  /\ s = latest
  /\ row[i].state = "absent"
  /\ row' = [row EXCEPT ![i] =
       [state |-> "publishing", schema |-> s, version |-> 1, meta |-> m]]
  /\ UNCHANGED <<latest, job, running, seen>>

Publish(i) ==
  /\ row[i].state = "publishing"
  /\ row' = [row EXCEPT ![i].state = "ready"]
  /\ UNCHANGED <<latest, job, running, seen>>

Stat(p, i) ==
  /\ row[i].state = "ready"
  /\ seen' = [seen EXCEPT ![p] =
       [id |-> i, schema |-> row[i].schema,
        version |-> row[i].version, meta |-> row[i].meta]]
  /\ UNCHANGED <<latest, row, job, running>>

\* Variant: the expected version is not compared.
CanUpdateBlindly(p) ==
  LET i == seen[p].id IN
  /\ i # None
  /\ row[i].state = "ready"
  /\ row[i].schema = latest
  /\ row[i].version < MaxVersion
\* The caller passes the version it saw, and the latest declaration.
CanUpdate(p) ==
  LET i == seen[p].id IN
  /\ i # None
  /\ seen[p].version < MaxVersion
  /\ row[i].state = "ready"
  /\ row[i].schema = latest
  /\ row[i].version = seen[p].version

Update(p, m) ==
  /\ CanUpdate(p)
  /\ row' = [row EXCEPT ![seen[p].id].meta = m, ![seen[p].id].version = @ + 1]
  /\ UNCHANGED <<latest, job, running, seen>>

\* Variant: blobs may be retired in any version, while a migration runs.
CanDeleteAnytime(i) == Live(i)
CanDelete(i) == Live(i) /\ ~ Active /\ row[i].schema = latest

Delete(i) ==
  /\ CanDelete(i)
  /\ row' = [row EXCEPT ![i].state = "retired", ![i].meta = None]
  /\ UNCHANGED <<latest, job, running, seen>>

----------------------------------------------------------------------------
(* migrate.                                                                *)

\* Rows still written in the version that t succeeds.
Source(t) == {i \in Id : Live(i) /\ row[i].schema = t - 1}

\* Variant: a second migration may start while one is running.
CanInitializeBeside(t) == job[t].state = "none" /\ latest = t - 1 /\ ~ Unfinished
CanInitialize(t) ==
  /\ job[t].state = "none"
  /\ latest = t - 1
  /\ ~ Active
  /\ ~ Unfinished

\* The definition, the table's new layout and the job are committed together.
Initialize(p, t) ==
  /\ running[p] = 0
  /\ CanInitialize(t)
  /\ latest' = t
  /\ job' = [job EXCEPT ![t] = [NoJob EXCEPT
       !.state = "running", !.total = Cardinality(Source(t))]]
  /\ running' = [running EXCEPT ![p] = t]
  /\ UNCHANGED <<row, seen>>

\* The same plan again, in another session, after an interruption, or when it
\* has completed long ago: `_initialize` finds the job under its name.
Resume(p, t) ==
  /\ running[p] = 0
  /\ job[t].state # "none"
  /\ running' = [running EXCEPT ![p] = t]
  /\ UNCHANGED <<latest, row, job, seen>>

\* Variant: the page starts one id too late.
AheadSkipping(t) == {i \in Source(t) : i > job[t].last + 1}
Ahead(t) == {i \in Source(t) : i > job[t].last}

\* Variant: a migrated row keeps its version.
MigratedInPlace(r) ==
  [r EXCEPT !.meta = Transform[r.schema][r.meta], !.schema = r.schema + 1]
Migrated(r) ==
  [r EXCEPT !.meta = Transform[r.schema][r.meta], !.schema = r.schema + 1,
            !.version = r.version + 1]

\* A batch is the page of source rows after the checkpoint, up to some row that
\* the batch size decides.  The version CHECK fails the batch at its limit.
Batch(p, l) ==
  LET t == running[p]
      page == {i \in Ahead(t) : i <= l} IN
  /\ t # 0
  /\ job[t].state = "running"
  /\ ~ Unfinished
  /\ l \in page
  /\ \A i \in page : row[i].version < MaxVersion
  /\ row' = [i \in Id |-> IF i \in page THEN Migrated(row[i]) ELSE row[i]]
  /\ job' = [job EXCEPT
       ![t].migrated = @ + Cardinality(page),
       ![t].last = l,
       ![t].state = IF Source(t) \subseteq page THEN "complete" ELSE @]
  /\ UNCHANGED <<latest, running, seen>>

\* Nothing left to do; rows behind the checkpoint would raise ConflictError.
LastBatch(p) ==
  LET t == running[p] IN
  /\ t # 0
  /\ job[t].state = "running"
  /\ ~ Unfinished
  /\ Source(t) = {}
  /\ job' = [job EXCEPT ![t].state = "complete"]
  /\ UNCHANGED <<latest, row, running, seen>>

\* Done, max_batches reached, a callback or a batch raised, or the process died.
Stop(p) ==
  /\ running[p] # 0
  /\ running' = [running EXCEPT ![p] = 0]
  /\ UNCHANGED <<latest, row, job, seen>>

Migrate(p) == (\E l \in Id : Batch(p, l)) \/ LastBatch(p)

Next ==
  \/ \E i \in Id : \E s \in Schema, m \in Meta : Finalize(i, s, m)
  \/ \E i \in Id : Publish(i) \/ Delete(i)
  \/ \E p \in Proc, i \in Id : Stat(p, i)
  \/ \E p \in Proc, m \in Meta : Update(p, m)
  \/ \E p \in Proc, t \in Target : Initialize(p, t) \/ Resume(p, t)
  \/ \E p \in Proc : Migrate(p) \/ Stop(p)

Spec == Init /\ [][Next]_vars
----------------------------------------------------------------------------
(* Properties.                                                             *)

\* No batch ever meets "Source rows exist behind the checkpoint": whatever was
\* imported, edited or retired between batches, the rows still to transform
\* come after last_id (migrations._batch, Store.finalize, lifecycle.delete).
NothingBehind ==
  \A t \in Target : job[t].state = "running" =>
    \A i \in Source(t) : i > job[t].last

\* Progress is exact: what is migrated and what is left make up the total that
\* was counted at initialization, so total_rows and migrated_rows agree in the
\* end, across batches, resumptions and concurrent sessions.
CountsAddUp ==
  \A t \in Target :
    /\ job[t].state = "running" =>
         job[t].migrated + Cardinality(Source(t)) = job[t].total
    /\ job[t].state = "complete" => job[t].migrated = job[t].total

\* Every row is in the latest version, or in the one before it while the job
\* that will transform it is running: none is forgotten in an older version,
\* where no migration would pick it up and nobody could write it.
NoneForgotten ==
  \A i \in Id : Live(i) =>
    \/ row[i].schema = latest
    \/ row[i].schema = latest - 1 /\ job[latest].state = "running"

\* A concurrency version stands for one content: a caller whose expected version
\* matches has read the very metadata it is about to replace, migrations
\* between its read and its update included (Store.update_metadata).
VersionsIdentify ==
  \A p \in Proc :
    LET i == seen[p].id IN
    i # None /\ Live(i) =>
      /\ row[i].version >= seen[p].version
      /\ row[i].version = seen[p].version =>
           row[i].schema = seen[p].schema /\ row[i].meta = seen[p].meta

\* The half of MigrationCompletes that needs no fairness: while a migration runs
\* nobody adds, edits or retires a row it has still to do; a change of its job
\* transforms some of them, each once, or finds none left; and complete is for
\* good (migrations._batch, Store.finalize, Store.update_metadata, delete).
MigrationsGoForward ==
  [][\A t \in Target :
       /\ job[t].state = "complete" => job'[t] = job[t] /\ Source(t) = {}
       /\ job[t].state = "running" =>
            /\ \A i \in Source(t)' :
                 /\ i \in Source(t)
                 /\ row'[i].version = row[i].version
                 /\ row'[i].meta = row[i].meta
            /\ \A i \in Source(t) \ Source(t)' :
                 /\ row'[i].schema = t
                 /\ row'[i].version = row[i].version + 1
                 /\ row'[i].meta = Transform[t - 1][row[i].meta]
                 /\ i <= job'[t].last
            /\ \/ job'[t] = job[t] /\ Source(t)' = Source(t)
               \/ job'[t].state = "running" /\ Source(t)' # Source(t) /\ Source(t)' # {}
               \/ job'[t].state = "complete" /\ Source(t)' = {}]_vars

\* Versions are added one at a time, each by its job, and none before the last
\* one is complete.
JobsInOrder ==
  \A t \in Target :
    /\ job[t].state = "none" <=> t > latest
    /\ job[t].state = "running" => t = latest

\* Live rows are complete, and whoever read one read a row that existed.
RowsAreWritten ==
  /\ \A i \in Id : Live(i) => row[i].version > 0 /\ row[i].meta \in Meta
  /\ \A p \in Proc : seen[p].id # None => row[seen[p].id].state # "absent"

\* Inductive: MetadataEvolutionProofs derives the invariants above from it.
IInv ==
  /\ TypeOK
  /\ JobsInOrder
  /\ RowsAreWritten
  /\ NoneForgotten
  /\ NothingBehind
  /\ CountsAddUp
  /\ VersionsIdentify

\* What the metadata of each blob means.
Doc ==
  [i \in Id |-> IF Live(i) THEN Meaning[row[i].schema][row[i].meta] ELSE None]

\* Each process knows what it read for as long as its version is current.
IsCurrent(p) ==
  LET i == seen[p].id IN
  i # None /\ Live(i) /\ row[i].version = seen[p].version
Known ==
  [p \in Proc |->
     IF IsCurrent(p)
       THEN [id |-> seen[p].id, sense |-> Meaning[seen[p].schema][seen[p].meta]]
       ELSE [id |-> None, sense |-> None]]

Documents == INSTANCE DocumentStore WITH doc <- Doc, known <- Known

\* Seen through the transformations, batches, checkpoints and resumptions do
\* nothing, and no edit overwrites one its author had not read.
KeepsDocuments == Documents!Spec

----------------------------------------------------------------------------
(* Liveness, if the application finishes what it began.                    *)

\* Blobs are published, and somebody keeps calling migrate with the plan.
FairSpec ==
  /\ Spec
  /\ \A i \in Id : WF_vars(Publish(i))
  /\ \E p \in Proc :
       /\ SF_vars(Migrate(p))
       /\ \A t \in Target : SF_vars(Resume(p, t))

\* A migration that started completes, whatever is imported meanwhile, unless
\* a row cannot be given another version.
MigrationCompletes ==
  \A t \in Target :
    job[t].state = "running" /\ (\A i \in Source(t) : row[i].version < MaxVersion)
      ~> job[t].state = "complete"
=============================================================================
