---------------------- MODULE MetadataEvolutionProofs ----------------------
(***************************************************************************)
(* The invariant IInv of MetadataEvolution is inductive, and every step    *)
(* implements a step of DocumentStore or none, for all constants.          *)
(***************************************************************************)
EXTENDS MetadataEvolution, FiniteSetTheorems, TLAPS

\* The rows a job still has to do, and any page of them, can be counted.
LEMMA SourceIsFinite ==
  ASSUME NEW t
  PROVE  /\ IsFiniteSet(Source(t)) /\ Cardinality(Source(t)) \in Nat
         /\ \A S \in SUBSET Source(t) :
              /\ IsFiniteSet(S) /\ Cardinality(S) \in Nat
              /\ Cardinality(Source(t) \ S) = Cardinality(Source(t)) - Cardinality(S)
<1>1. IsFiniteSet(Source(t))
  BY EvolutionAssumption, FS_Subset DEF Source
<1>2. Cardinality(Source(t)) \in Nat
  BY <1>1, FS_CardinalityType
<1>3. ASSUME NEW S \in SUBSET Source(t)
      PROVE  /\ IsFiniteSet(S) /\ Cardinality(S) \in Nat
             /\ Cardinality(Source(t) \ S) = Cardinality(Source(t)) - Cardinality(S)
  <2>1. IsFiniteSet(S) /\ Cardinality(S) \in Nat
    BY <1>1, FS_Subset, FS_CardinalityType
  <2>2. Source(t) \cap S = S
    OBVIOUS
  <2>. QED BY <1>1, <2>1, <2>2, FS_Difference
<1>. QED BY <1>1, <1>2, <1>3

LEMMA InitEstablishesIInv == Init => IInv
<1> SUFFICES ASSUME Init PROVE IInv
  OBVIOUS
<1> USE EvolutionAssumption DEF Init, Schema, Target
<1>1. TypeOK
  BY DEF TypeOK, Row, NoRow, Job, NoJob
<1>2. JobsInOrder /\ RowsAreWritten
  BY DEF JobsInOrder, RowsAreWritten, Live, NoRow, NoJob, NoRecord
<1>3. NoneForgotten /\ NothingBehind /\ CountsAddUp /\ VersionsIdentify
  BY DEF NoneForgotten, NothingBehind, CountsAddUp, VersionsIdentify, Live, NoRow, NoJob,
         NoRecord
<1>. QED BY <1>1, <1>2, <1>3 DEF IInv

----------------------------------------------------------------------------
(* Imports, updates and deletes.  None of them makes, moves or loses a row *)
(* that a running job has still to do.                                     *)

\* What the jobs are about depends on the rows only through Source.
LEMMA JobsUndisturbed ==
  ASSUME IInv, UNCHANGED <<latest, job>>,
         \A t \in Target : job[t].state = "running" => Source(t)' = Source(t)
  PROVE  JobsInOrder' /\ NothingBehind' /\ CountsAddUp'
BY DEF IInv, JobsInOrder, NothingBehind, CountsAddUp

LEMMA FinalizePreserves ==
  ASSUME IInv, NEW i \in Id, NEW s \in Schema, NEW m \in Meta, Finalize(i, s, m)
  PROVE  IInv'
<1> DEFINE new == [state |-> "publishing", schema |-> s, version |-> 1, meta |-> m]
<1> USE DEF IInv, Finalize
<1>a. new \in Row
  BY EvolutionAssumption DEF Row
<1>b. \A j \in Id : row'[j] = IF j = i THEN new ELSE row[j]
  BY DEF TypeOK
<1>c. \A j \in Id : Live(j)' <=> j = i \/ Live(j)
  BY <1>b DEF Live
<1>1. TypeOK'
  BY <1>a DEF TypeOK
<1>2. \A t \in Target : job[t].state = "running" => Source(t)' = Source(t)
  <2> SUFFICES ASSUME NEW t \in Target, job[t].state = "running"
               PROVE  Source(t)' = Source(t)
    OBVIOUS
  <2>1. s # t - 1
    BY DEF JobsInOrder, Schema, Target
  <2>2. ~ Live(i)
    BY DEF Live
  <2>. QED BY <2>1, <2>2, <1>b, <1>c DEF Source
<1>3. JobsInOrder' /\ NothingBehind' /\ CountsAddUp'
  BY <1>2, JobsUndisturbed
<1>4. RowsAreWritten' /\ NoneForgotten'
  BY <1>b, <1>c DEF RowsAreWritten, NoneForgotten, TypeOK, Record, NoRecord
<1>5. VersionsIdentify'
  BY <1>b, <1>c DEF VersionsIdentify, RowsAreWritten, TypeOK, Record, NoRecord
<1>. QED BY <1>1, <1>3, <1>4, <1>5

LEMMA PublishPreserves ==
  ASSUME IInv, NEW i \in Id, Publish(i)
  PROVE  IInv'
<1> USE DEF IInv, Publish
<1>a. [row[i] EXCEPT !.state = "ready"] \in Row
  BY DEF TypeOK, Row
<1>b. \A j \in Id : row'[j] = IF j = i THEN [row[j] EXCEPT !.state = "ready"] ELSE row[j]
  BY DEF TypeOK
<1>c. \A j \in Id : /\ row'[j].schema = row[j].schema
                    /\ row'[j].version = row[j].version
                    /\ row'[j].meta = row[j].meta
                    /\ Live(j)' <=> Live(j)
                    /\ row'[j].state = "absent" <=> row[j].state = "absent"
  BY <1>b DEF TypeOK, Row, Live
<1>1. TypeOK'
  BY <1>a DEF TypeOK
<1>2. \A t \in Target : Source(t)' = Source(t)
  BY <1>c DEF Source
<1>3. JobsInOrder' /\ NothingBehind' /\ CountsAddUp'
  BY <1>2, JobsUndisturbed
<1>4. RowsAreWritten' /\ NoneForgotten'
  BY <1>c DEF RowsAreWritten, NoneForgotten, TypeOK, Record, NoRecord
<1>5. VersionsIdentify'
  BY <1>c DEF VersionsIdentify, TypeOK, Record, NoRecord
<1>. QED BY <1>1, <1>3, <1>4, <1>5

LEMMA UpdatePreserves ==
  ASSUME IInv, NEW p \in Proc, NEW m \in Meta, Update(p, m)
  PROVE  IInv'
<1> DEFINE i == seen[p].id
           new == [row[i] EXCEPT !.meta = m, !.version = @ + 1]
<1> USE DEF IInv, Update
<1>a. i \in Id /\ row[i] \in Row /\ row[i].version < MaxVersion /\ Live(i)
  BY DEF CanUpdate, TypeOK, Record, NoRecord, Live
<1>b. \A j \in Id : row'[j] = IF j = i THEN new ELSE row[j]
  BY <1>a DEF TypeOK
<1>c. new \in Row
  <2>1. row[i].version + 1 \in 0 .. MaxVersion
    BY <1>a, EvolutionAssumption DEF Row
  <2>. QED BY <1>a, <2>1 DEF Row
<1>d. /\ new.schema = row[i].schema /\ new.schema = latest
      /\ new.version = row[i].version + 1 /\ new.version > 0
      /\ new.meta \in Meta /\ new.state = row[i].state
  BY <1>a, EvolutionAssumption DEF Row, CanUpdate
<1>e. \A j \in Id : /\ Live(j)' <=> Live(j)
                    /\ row'[j].schema = row[j].schema
                    /\ row'[j].state = row[j].state
  BY <1>a, <1>b, <1>d DEF Live
<1>1. TypeOK'
  BY <1>a, <1>c DEF TypeOK
<1>2. \A t \in Target : Source(t)' = Source(t)
  BY <1>e DEF Source
<1>3. JobsInOrder' /\ NothingBehind' /\ CountsAddUp'
  BY <1>2, JobsUndisturbed
<1>4. RowsAreWritten' /\ NoneForgotten'
  <2>1. RowsAreWritten'
    <3>1. ASSUME NEW j \in Id, Live(j)'
          PROVE  row'[j].version > 0 /\ row'[j].meta \in Meta
      <4>1. CASE j = i
        <5>1. row'[j] = new
          BY <1>b, <4>1
        <5>. QED BY <1>d, <5>1
      <4>2. CASE j # i
        <5>1. row'[j] = row[j] /\ Live(j) /\ RowsAreWritten
          BY <1>b, <1>e, <3>1, <4>2
        <5>. HIDE DEF IInv, Update
        <5>. QED BY <5>1 DEF RowsAreWritten
      <4>. QED BY <4>1, <4>2
    <3>2. \A q \in Proc : seen[q].id # None => seen[q].id \in Id
      BY DEF TypeOK, Record, NoRecord
    <3>. QED BY <1>e, <3>1, <3>2 DEF RowsAreWritten
  <2>2. NoneForgotten'
    BY <1>e DEF NoneForgotten
  <2>. QED BY <2>1, <2>2
<1>5. VersionsIdentify'
  <2> SUFFICES ASSUME NEW q \in Proc, seen[q].id # None, Live(seen[q].id)'
               PROVE  LET j == seen[q].id IN
                      /\ row'[j].version >= seen[q].version
                      /\ row'[j].version = seen[q].version =>
                           row'[j].schema = seen[q].schema /\ row'[j].meta = seen[q].meta
    BY DEF VersionsIdentify
  <2>1. seen[q].id \in Id /\ seen[q].version \in Nat /\ row[seen[q].id].version \in Nat
    BY EvolutionAssumption DEF TypeOK, Record, NoRecord, Row
  <2>2. row[seen[q].id].version >= seen[q].version
    BY <1>e, <2>1 DEF VersionsIdentify
  <2>3. CASE seen[q].id = i
    <3>1. row'[i] = new /\ new.version = row[i].version + 1
      BY <1>a, <1>b, <1>d
    <3>. HIDE DEF new, i, IInv, Update
    <3>2. row'[i].version > seen[q].version
      BY <2>1, <2>2, <2>3, <3>1
    <3>. QED BY <2>1, <2>3, <3>1, <3>2
  <2>4. CASE seen[q].id # i
    <3>1. row'[seen[q].id] = row[seen[q].id]
      BY <1>b, <2>1, <2>4
    <3>2. Live(seen[q].id)
      BY <1>e, <2>1
    <3>3. VersionsIdentify
      OBVIOUS
    <3>. HIDE DEF IInv, Update
    <3>. QED BY <2>1, <3>1, <3>2, <3>3 DEF VersionsIdentify
  <2>. QED BY <2>3, <2>4
<1>. QED BY <1>1, <1>3, <1>4, <1>5

\* No migration is running, so a row may go.
LEMMA DeletePreserves ==
  ASSUME IInv, NEW i \in Id, Delete(i)
  PROVE  IInv'
<1> DEFINE new == [row[i] EXCEPT !.state = "retired", !.meta = None]
<1> USE DEF IInv, Delete
<1>a. new \in Row /\ new.state = "retired"
  BY DEF TypeOK, Row
<1>b. \A j \in Id : row'[j] = IF j = i THEN new ELSE row[j]
  BY DEF TypeOK
<1>c. \A j \in Id : Live(j)' => j # i /\ Live(j) /\ row'[j] = row[j]
  BY <1>a, <1>b DEF Live
<1>1. TypeOK'
  BY <1>a DEF TypeOK
<1>2. \A t \in Target : job[t].state # "running"
  BY DEF CanDelete, Active
<1>3. JobsInOrder' /\ NothingBehind' /\ CountsAddUp'
  BY <1>2, JobsUndisturbed
<1>4. RowsAreWritten' /\ NoneForgotten'
  BY <1>a, <1>b, <1>c DEF RowsAreWritten, NoneForgotten, TypeOK, Record, NoRecord
<1>5. VersionsIdentify'
  BY <1>c DEF VersionsIdentify, TypeOK, Record, NoRecord
<1>. QED BY <1>1, <1>3, <1>4, <1>5

\* What is read is what the row says.
LEMMA StatPreserves ==
  ASSUME IInv, NEW p \in Proc, NEW i \in Id, Stat(p, i)
  PROVE  IInv'
<1> DEFINE rec == [id |-> i, schema |-> row[i].schema,
                   version |-> row[i].version, meta |-> row[i].meta]
<1> USE DEF IInv, Stat
<1>a. Live(i) /\ rec \in Record
  BY EvolutionAssumption DEF Live, RowsAreWritten, TypeOK, Row, Record
<1>b. \A q \in Proc : seen'[q] = IF q = p THEN rec ELSE seen[q]
  BY DEF TypeOK
<1>1. TypeOK'
  BY <1>a DEF TypeOK
<1>2. \A t \in Target : Source(t)' = Source(t)
  BY DEF Source, Live
<1>3. JobsInOrder' /\ NothingBehind' /\ CountsAddUp'
  BY <1>2, JobsUndisturbed
<1>4. RowsAreWritten' /\ NoneForgotten'
  BY <1>b DEF RowsAreWritten, NoneForgotten, Live
<1>5. VersionsIdentify'
  <2>1. row[i].version \in Nat
    BY EvolutionAssumption DEF TypeOK, Row
  <2>. QED BY <1>b, <2>1 DEF VersionsIdentify, Live
<1>. QED BY <1>1, <1>3, <1>4, <1>5

----------------------------------------------------------------------------
(* migrate.                                                                *)

\* Everything live is in the version that is being succeeded, because no other
\* migration is running.
LEMMA InitializePreserves ==
  ASSUME IInv, NEW p \in Proc, NEW t \in Target, Initialize(p, t)
  PROVE  IInv'
<1> DEFINE new == [NoJob EXCEPT !.state = "running", !.total = Cardinality(Source(t))]
<1> USE DEF IInv
<1>a. new \in Job /\ new.state = "running" /\ new.migrated = 0 /\ new.last = 0
      /\ new.total = Cardinality(Source(t))
  BY SourceIsFinite DEF NoJob, Job
<1>b. \A u \in Target : job'[u] = IF u = t THEN new ELSE job[u]
  BY DEF TypeOK, Initialize
<1>c. UNCHANGED <<row, seen>> /\ \A u \in Target : Source(u)' = Source(u)
  BY DEF Source, Live, Initialize
<1>d. /\ latest = t - 1 /\ latest' = t /\ latest \in Nat /\ t \in Nat /\ Target \subseteq Nat
      /\ job[t].state = "none" /\ \A u \in Target : job[u].state # "running"
  BY EvolutionAssumption DEF CanInitialize, Active, Target, Schema, TypeOK, Initialize
<1>1. TypeOK'
  BY <1>a, <1>d DEF TypeOK, Target, Schema, Initialize
<1>. HIDE DEF new
<1>2. JobsInOrder'
  <2> SUFFICES ASSUME NEW u \in Target
               PROVE  /\ job'[u].state = "none" <=> u > latest'
                      /\ job'[u].state = "running" => u = latest'
    BY DEF JobsInOrder
  <2>1. u \in Nat /\ t \in Nat /\ latest = t - 1 /\ latest' = t
    BY <1>d
  <2>2. CASE u = t
    BY <1>a, <1>b, <2>1, <2>2
  <2>3. CASE u # t
    <3>1. /\ job'[u] = job[u] /\ job[u].state # "running"
          /\ job[u].state = "none" <=> u > latest
      BY <1>b, <1>d, <2>3 DEF JobsInOrder
    <3>. QED BY <2>1, <2>3, <3>1
  <2>. QED BY <2>2, <2>3
<1>3. NoneForgotten'
  <2>1. \A i \in Id : Live(i) => row[i].schema = latest
    <3>1. latest \in Target \/ latest = 1
      BY EvolutionAssumption DEF TypeOK, Target, Schema
    <3>2. \A i \in Id : row[i].schema \in Nat \ {0}
      BY DEF TypeOK, Row, Schema
    <3>. QED BY <1>d, <3>1, <3>2 DEF NoneForgotten
  <2>. QED BY <1>a, <1>b, <1>c, <1>d, <2>1 DEF NoneForgotten, Live
<1>4. NothingBehind'
  <2>1. \A i \in Id : i > 0
    BY EvolutionAssumption
  <2>2. \A i \in Source(t) : i > 0
    BY <2>1 DEF Source
  <2>. QED BY <1>a, <1>b, <1>c, <1>d, <2>2 DEF NothingBehind
<1>5. CountsAddUp'
  BY <1>a, <1>b, <1>c, <1>d, SourceIsFinite DEF CountsAddUp
<1>6. RowsAreWritten' /\ VersionsIdentify'
  BY <1>c DEF RowsAreWritten, VersionsIdentify, Live
<1>. QED BY <1>1, <1>2, <1>3, <1>4, <1>5, <1>6

\* A loop is entered or left.
LEMMA LoopPreserves ==
  ASSUME IInv, NEW p \in Proc, (\E t \in Target : Resume(p, t)) \/ Stop(p)
  PROVE  IInv'
<1> USE DEF IInv, Resume, Stop
<1>0. UNCHANGED <<latest, row, job, seen>> /\ \E t \in Target \cup {0} :
        running' = [running EXCEPT ![p] = t]
  OBVIOUS
<1>1. TypeOK'
  BY <1>0 DEF TypeOK
<1>2. JobsInOrder' /\ NothingBehind' /\ CountsAddUp'
  BY <1>0, JobsUndisturbed DEF Source, Live
<1>3. RowsAreWritten' /\ NoneForgotten' /\ VersionsIdentify'
  BY <1>0 DEF RowsAreWritten, NoneForgotten, VersionsIdentify, Live
<1>. QED BY <1>1, <1>2, <1>3

\* What a batch does to the rows: its page moves on to the latest version.
LEMMA BatchFacts ==
  ASSUME IInv, NEW p \in Proc, NEW l \in Id, Batch(p, l)
  PROVE  LET t == running[p]
             page == {i \in Ahead(t) : i <= l} IN
         /\ t \in Target /\ t = latest /\ job[t].state = "running"
         /\ page \subseteq Source(t)
         /\ \A i \in page : /\ row'[i] \in Row
                            /\ row'[i].state = row[i].state
                            /\ row'[i].schema = latest
                            /\ row[i].schema = latest - 1
                            /\ row'[i].version = row[i].version + 1
                            /\ row'[i].meta = Transform[row[i].schema][row[i].meta]
                            /\ row'[i].meta \in Meta
         /\ \A i \in Id \ page : row'[i] = row[i]
<1> DEFINE t == running[p]
           page == {i \in Ahead(t) : i <= l}
<1> USE DEF IInv, Batch
<1>1. t \in Target /\ t = latest /\ job[t].state = "running"
  BY DEF TypeOK, JobsInOrder
<1>2. page \subseteq Source(t) /\ page \subseteq Id
  BY DEF Ahead, Source
<1>3. \A i \in Id : row'[i] = IF i \in page THEN Migrated(row[i]) ELSE row[i]
  OBVIOUS
<1>4. ASSUME NEW i \in page
      PROVE  /\ row'[i] \in Row
             /\ row'[i].state = row[i].state
             /\ row'[i].schema = latest
             /\ row[i].schema = latest - 1
             /\ row'[i].version = row[i].version + 1
             /\ row'[i].meta = Transform[row[i].schema][row[i].meta]
             /\ row'[i].meta \in Meta
  <2>1. i \in Id /\ row[i] \in Row /\ row[i].meta \in Meta /\ row[i].schema = t - 1
        /\ row[i].version < MaxVersion
    BY <1>2 DEF Source, TypeOK, RowsAreWritten
  <2>. HIDE DEF IInv, Batch, page
  <2>2. row[i].schema \in Schema /\ row[i].schema + 1 = latest /\ latest \in Schema
    <3>1. row[i].schema \in Schema
      BY <2>1 DEF Row
    <3>. QED BY <1>1, <2>1, <3>1, EvolutionAssumption DEF Schema, Target
  <2>3. Transform[row[i].schema][row[i].meta] \in Meta
    BY <2>1, <2>2, TransformAssumption
  <2>4. row[i].version + 1 \in 0 .. MaxVersion
    BY <2>1, EvolutionAssumption DEF Row
  <2>5. row'[i] = Migrated(row[i])
    BY <1>3, <2>1
  <2>6. Migrated(row[i]) \in Row
    BY <2>1, <2>2, <2>3, <2>4 DEF Migrated, Row
  <2>. QED BY <1>1, <2>1, <2>2, <2>3, <2>5, <2>6 DEF Migrated, Row
<1>. QED BY <1>1, <1>2, <1>3, <1>4

LEMMA BatchPreserves ==
  ASSUME IInv, NEW p \in Proc, NEW l \in Id, Batch(p, l)
  PROVE  IInv'
<1> DEFINE t == running[p]
           page == {i \in Ahead(t) : i <= l}
           done == Source(t) \subseteq page
           new == [job[t] EXCEPT !.migrated = @ + Cardinality(page), !.last = l,
                                 !.state = IF done THEN "complete" ELSE @]
<1>a. /\ t \in Target /\ t = latest /\ job[t].state = "running"
      /\ page \subseteq Source(t) /\ page \subseteq Id
      /\ \A i \in page : /\ row'[i] \in Row
                         /\ row'[i].state = row[i].state
                         /\ row'[i].schema = latest
                         /\ row[i].schema = latest - 1
                         /\ row'[i].version = row[i].version + 1
                         /\ row'[i].meta \in Meta
      /\ \A i \in Id \ page : row'[i] = row[i]
  BY BatchFacts DEF Source
<1>b. UNCHANGED <<latest, running, seen>>
  BY DEF Batch
<1>c. row' = [i \in Id |-> row'[i]]
  BY DEF Batch
<1>d. /\ \A u \in Target : job'[u] = IF u = t THEN new ELSE job[u]
      /\ job' = [job EXCEPT ![t] = new]
  BY <1>a DEF IInv, TypeOK, Batch
<1>e. /\ Cardinality(page) \in Nat /\ Cardinality(Source(t)) \in Nat
      /\ Cardinality(Source(t) \ page) = Cardinality(Source(t)) - Cardinality(page)
  BY <1>a, SourceIsFinite
<1>f. /\ new \in Job
      /\ new.state = (IF done THEN "complete" ELSE "running")
      /\ new.migrated = job[t].migrated + Cardinality(page)
      /\ new.last = l /\ new.total = job[t].total
  <2>1. job[t] \in Job
    BY <1>a DEF IInv, TypeOK
  <2>2. job[t].state = "running" /\ Cardinality(page) \in Nat
    BY <1>a, <1>e
  <2>. HIDE DEF page, done
  <2>3. job[t].migrated + Cardinality(page) \in Nat
    BY <2>1, <2>2 DEF Job
  <2>. QED BY <2>1, <2>2, <2>3 DEF Job
<1>g. \A i \in Id : Live(i)' <=> Live(i)
  BY <1>a DEF Live
<1>h. Source(t)' = Source(t) \ page
  <2>1. latest - 1 # latest
    BY DEF IInv, TypeOK, Schema
  <2>. QED BY <1>a, <1>b, <1>g, <2>1 DEF Source
<1>. HIDE DEF page, new, done
<1> USE DEF IInv
<1>1. TypeOK'
  <2>1. row' \in [Id -> Row]
    BY <1>a, <1>c DEF TypeOK
  <2>. QED BY <1>a, <1>b, <1>d, <1>f, <2>1 DEF TypeOK
<1>2. JobsInOrder'
  BY <1>a, <1>b, <1>d, <1>f DEF JobsInOrder
<1>3. RowsAreWritten'
  <2>1. \A i \in page : row'[i].version > 0
    <3>1. \A i \in Id : row[i].version \in Nat
      BY EvolutionAssumption DEF TypeOK, Row
    <3>. QED BY <1>a, <3>1
  <2>. QED BY <1>a, <1>b, <1>g, <2>1 DEF RowsAreWritten, TypeOK, Record, NoRecord
<1>4. NoneForgotten'
  <2> SUFFICES ASSUME NEW i \in Id, Live(i)
               PROVE  \/ row'[i].schema = latest
                      \/ row'[i].schema = latest - 1 /\ job'[latest].state = "running"
    BY <1>b, <1>g DEF NoneForgotten
  <2>1. CASE i \in page
    BY <1>a, <2>1
  <2>2. CASE i \notin page /\ row[i].schema = latest
    BY <1>a, <2>2
  <2>3. CASE i \notin page /\ row[i].schema # latest
    <3>1. i \in Source(t)
      BY <1>a, <2>3 DEF NoneForgotten, Source
    <3>2. job'[latest].state = "running"
      BY <1>a, <1>d, <1>f, <2>3, <3>1 DEF done
    <3>. QED BY <1>a, <2>3, <3>2 DEF NoneForgotten
  <2>. QED BY <2>1, <2>2, <2>3
<1>5. NothingBehind'
  <2>1. \A i \in Source(t) \ page : i > l
    BY <1>a, EvolutionAssumption DEF NothingBehind, Source, Ahead, page
  <2>2. \A u \in Target : job'[u].state = "running" => u = t
    BY <1>a, <1>d DEF JobsInOrder
  <2>. QED BY <1>b, <1>d, <1>f, <1>h, <2>1, <2>2 DEF NothingBehind
<1>6. CountsAddUp'
  <2> SUFFICES ASSUME NEW u \in Target
               PROVE  /\ job'[u].state = "running" =>
                           job'[u].migrated + Cardinality(Source(u))' = job'[u].total
                      /\ job'[u].state = "complete" => job'[u].migrated = job'[u].total
    BY DEF CountsAddUp
  <2>1. CASE u # t
    BY <1>a, <1>d, <2>1 DEF CountsAddUp, JobsInOrder
  <2>2. CASE u = t
    <3>1. job[t].migrated + Cardinality(Source(t)) = job[t].total
          /\ job[t].migrated \in Nat /\ job[t].total \in Nat
      BY <1>a DEF CountsAddUp, TypeOK, Job
    <3>2. done => Cardinality(page) = Cardinality(Source(t))
      <4>1. done => page = Source(t)
        BY <1>a DEF done
      <4>. QED BY <4>1
    <3>3. Cardinality(Source(t))' = Cardinality(Source(t)) - Cardinality(page)
      BY <1>e, <1>h
    <3>4. new.state = "running" =>
            new.migrated + Cardinality(Source(t))' = new.total
      BY <1>e, <1>f, <3>1, <3>3
    <3>5. new.state = "complete" => new.migrated = new.total
      BY <1>e, <1>f, <3>1, <3>2
    <3>. QED BY <1>b, <1>d, <2>2, <3>4, <3>5
  <2>. QED BY <2>1, <2>2
<1>7. VersionsIdentify'
  <2> SUFFICES ASSUME NEW q \in Proc, seen[q].id # None, Live(seen[q].id)
               PROVE  LET j == seen[q].id IN
                      /\ row'[j].version >= seen[q].version
                      /\ row'[j].version = seen[q].version =>
                           row'[j].schema = seen[q].schema /\ row'[j].meta = seen[q].meta
    BY <1>b, <1>g DEF VersionsIdentify, TypeOK, Record, NoRecord
  <2>1. seen[q].id \in Id /\ seen[q].version \in Nat /\ row[seen[q].id].version \in Nat
    BY EvolutionAssumption DEF TypeOK, Record, NoRecord, Row
  <2>2. row[seen[q].id].version >= seen[q].version
    BY DEF VersionsIdentify
  <2>3. CASE seen[q].id \in page
    BY <1>a, <2>1, <2>2, <2>3
  <2>4. CASE seen[q].id \notin page
    BY <1>a, <2>1, <2>4 DEF VersionsIdentify
  <2>. QED BY <2>3, <2>4
<1>. QED BY <1>1, <1>2, <1>3, <1>4, <1>5, <1>6, <1>7

LEMMA LastBatchPreserves ==
  ASSUME IInv, NEW p \in Proc, LastBatch(p)
  PROVE  IInv'
<1> DEFINE t == running[p]
<1> USE DEF IInv, LastBatch
<1>a. t \in Target /\ t = latest /\ job[t].state = "running" /\ Source(t) = {}
  BY DEF TypeOK, JobsInOrder
<1>b. \A u \in Target :
        /\ u # t => job'[u] = job[u]
        /\ u = t => job'[u] = [job[t] EXCEPT !.state = "complete"]
  BY <1>a DEF TypeOK
<1>c. [job[t] EXCEPT !.state = "complete"] \in Job
  BY <1>a DEF TypeOK, Job
<1>1. TypeOK'
  BY <1>a, <1>c DEF TypeOK
<1>d. /\ job'[t].state = "complete" /\ job'[t].migrated = job[t].migrated
      /\ job'[t].total = job[t].total /\ job'[t].last = job[t].last
  BY <1>a, <1>b DEF TypeOK, Job
<1>2. JobsInOrder' /\ NothingBehind'
  BY <1>a, <1>b, <1>d DEF JobsInOrder, NothingBehind, Source, Live
<1>3. CountsAddUp'
  <2>1. job[t].migrated \in Nat
    BY <1>a DEF TypeOK, Job
  <2>2. Cardinality(Source(t)) = 0
    BY <1>a, FS_EmptySet
  <2>3. job[t].migrated = job[t].total
    <3>1. job[t].migrated + Cardinality(Source(t)) = job[t].total
      BY <1>a DEF CountsAddUp
    <3>. QED BY <2>1, <2>2, <3>1
  <2>. QED BY <1>a, <1>b, <1>d, <2>3 DEF CountsAddUp, JobsInOrder, Source, Live
<1>4. NoneForgotten'
  BY <1>a DEF NoneForgotten, Source, Live
<1>5. RowsAreWritten' /\ VersionsIdentify'
  BY DEF RowsAreWritten, VersionsIdentify, Live
<1>. QED BY <1>1, <1>2, <1>3, <1>4, <1>5

LEMMA StepPreservesIInv == IInv /\ [Next]_vars => IInv'
<1> SUFFICES ASSUME IInv, [Next]_vars PROVE IInv'
  OBVIOUS
<1>1. ASSUME NEW i \in Id, NEW s \in Schema, NEW m \in Meta, Finalize(i, s, m) PROVE IInv'
  BY <1>1, FinalizePreserves
<1>2. ASSUME NEW i \in Id, Publish(i) \/ Delete(i) PROVE IInv'
  BY <1>2, PublishPreserves, DeletePreserves
<1>3. ASSUME NEW p \in Proc, NEW i \in Id, Stat(p, i) PROVE IInv'
  BY <1>3, StatPreserves
<1>4. ASSUME NEW p \in Proc, NEW m \in Meta, Update(p, m) PROVE IInv'
  BY <1>4, UpdatePreserves
<1>5. ASSUME NEW p \in Proc, NEW t \in Target, Initialize(p, t) \/ Resume(p, t) PROVE IInv'
  BY <1>5, InitializePreserves, LoopPreserves
<1>6. ASSUME NEW p \in Proc, Migrate(p) \/ Stop(p) PROVE IInv'
  BY <1>6, BatchPreserves, LastBatchPreserves, LoopPreserves DEF Migrate
<1>7. CASE UNCHANGED vars
  BY <1>7 DEF IInv, vars, TypeOK, JobsInOrder, RowsAreWritten, NoneForgotten, NothingBehind,
              CountsAddUp, VersionsIdentify, Source, Live
<1>. QED BY <1>1, <1>2, <1>3, <1>4, <1>5, <1>6, <1>7 DEF Next

----------------------------------------------------------------------------
(* MetadataEvolution implements DocumentStore.                             *)

LEMMA InitImplements == Init => Documents!Init
BY DEF Init, Documents!Init, Documents!Nothing, Doc, Known, IsCurrent, Live, NoRow, NoRecord

\* What a live row means, and what is known about it.
LEMMA DocFacts ==
  ASSUME IInv
  PROVE  /\ \A i \in Id : /\ row[i] \in Row /\ row[i].version \in Nat
                          /\ Live(i) => Doc[i] = Meaning[row[i].schema][row[i].meta]
                                        /\ Doc[i] \in Sense /\ Doc[i] # None
                          /\ ~ Live(i) => Doc[i] = None
         /\ \A p \in Proc :
              /\ seen[p].id # None => seen[p].id \in Id /\ seen[p] \in Record
              /\ IsCurrent(p) =>
                   /\ Known[p] = [id |-> seen[p].id, sense |-> Doc[seen[p].id]]
                   /\ Live(seen[p].id)
              /\ ~ IsCurrent(p) => Known[p] = Documents!Nothing
         /\ Known \in [Proc -> Documents!Known]
<1> USE EvolutionAssumption, TransformAssumption
<1>1. ASSUME NEW i \in Id
      PROVE  /\ row[i] \in Row /\ row[i].version \in Nat
             /\ Live(i) => Doc[i] = Meaning[row[i].schema][row[i].meta]
                           /\ Doc[i] \in Sense /\ Doc[i] # None
             /\ ~ Live(i) => Doc[i] = None
  <2>1. row[i] \in Row /\ row[i].version \in Nat /\ row[i].schema \in Schema
    BY DEF IInv, TypeOK, Row
  <2>2. Live(i) => row[i].meta \in Meta
    BY DEF IInv, RowsAreWritten
  <2>3. Live(i) => Meaning[row[i].schema][row[i].meta] \in Sense
    BY <2>1, <2>2
  <2>. QED BY <2>1, <2>3 DEF Doc
<1>2. ASSUME NEW p \in Proc
      PROVE  /\ seen[p].id # None => seen[p].id \in Id /\ seen[p] \in Record
             /\ IsCurrent(p) =>
                  /\ Known[p] = [id |-> seen[p].id, sense |-> Doc[seen[p].id]]
                  /\ Live(seen[p].id)
             /\ ~ IsCurrent(p) => Known[p] = Documents!Nothing
             /\ Known[p] \in Documents!Known
  <2>1. seen[p].id # None => seen[p].id \in Id /\ seen[p] \in Record
    BY DEF IInv, TypeOK, NoRecord, Record
  <2>2. IsCurrent(p) =>
          /\ Live(seen[p].id) /\ seen[p].id \in Id
          /\ row[seen[p].id].schema = seen[p].schema
          /\ row[seen[p].id].meta = seen[p].meta
    BY <2>1 DEF IsCurrent, IInv, VersionsIdentify
  <2>3. IsCurrent(p) => Known[p] = [id |-> seen[p].id, sense |-> Doc[seen[p].id]]
    BY <1>1, <2>2 DEF Known
  <2>4. ~ IsCurrent(p) => Known[p] = Documents!Nothing
    BY DEF Known, Documents!Nothing
  <2>5. Known[p] \in Documents!Known
    <3>1. CASE IsCurrent(p)
      <4>1. Doc[seen[p].id] \in Sense
        BY <1>1, <2>2, <3>1
      <4>. QED BY <2>2, <2>3, <3>1, <4>1 DEF Documents!Known
    <3>2. CASE ~ IsCurrent(p)
      BY <2>4, <3>2 DEF Documents!Known
    <3>. QED BY <3>1, <3>2
  <2>. QED BY <2>1, <2>2, <2>3, <2>4, <2>5
<1>. QED BY <1>1, <1>2 DEF Known

\* A step that changes no row, or only publishes one, and reads none is no step.
LEMMA StuttersWhen ==
  ASSUME UNCHANGED seen,
         \A i \in Id : /\ Live(i)' <=> Live(i)
                       /\ row'[i].schema = row[i].schema
                       /\ row'[i].version = row[i].version
                       /\ row'[i].meta = row[i].meta,
         \A p \in Proc : seen[p].id # None => seen[p].id \in Id
  PROVE  UNCHANGED Documents!vars
<1>1. Doc' = Doc
  BY DEF Doc
<1>2. \A p \in Proc : IsCurrent(p)' <=> IsCurrent(p)
  BY DEF IsCurrent
<1>3. Known' = Known
  BY <1>2 DEF Known
<1>. QED BY <1>1, <1>3 DEF Documents!vars

\* Everybody else's knowledge survives a change of one row.
LEMMA OthersStillKnow ==
  ASSUME NEW i \in Id, UNCHANGED seen, \A j \in Id : j # i => row'[j] = row[j],
         NEW p \in Proc, seen[p].id # None => seen[p].id \in Id, seen[p].id # i
  PROVE  Known'[p] = Known[p] /\ (IsCurrent(p)' <=> IsCurrent(p))
<1>1. IsCurrent(p)' <=> IsCurrent(p)
  BY DEF IsCurrent, Live
<1>. QED BY <1>1 DEF Known

\* Creating, editing and retiring: whoever knew the document knows it no more.
LEMMA ForgetsWhen ==
  ASSUME IInv, NEW i \in Id, UNCHANGED seen,
         \A j \in Id : j # i => row'[j] = row[j],
         \A p \in Proc : seen[p].id = i => ~ IsCurrent(p)'
  PROVE  Documents!Forgets(i)
<1> SUFFICES ASSUME NEW p \in Proc
             PROVE  \/ Known'[p] = Documents!Nothing
                    \/ Known'[p] = Known[p] /\ Known[p].id # i
  BY DEF Documents!Forgets
<1>1. CASE seen[p].id = i
  BY <1>1 DEF Known, Documents!Nothing
<1>2. CASE seen[p].id # i
  <2>1. Known'[p] = Known[p]
    BY <1>2, DocFacts, OthersStillKnow
  <2>2. Known[p].id # i
    BY <1>2, EvolutionAssumption DEF Known
  <2>. QED BY <2>1, <2>2
<1>. QED BY <1>1, <1>2

LEMMA FinalizeImplements ==
  ASSUME IInv, NEW i \in Id, NEW s \in Schema, NEW m \in Meta, Finalize(i, s, m)
  PROVE  Documents!Create(i, Meaning[s][m])
<1>1. /\ ~ Live(i) /\ Live(i)' /\ UNCHANGED seen
      /\ row'[i].schema = s /\ row'[i].meta = m
      /\ \A j \in Id : j # i => row'[j] = row[j]
  BY DEF Finalize, Live, IInv, TypeOK
<1>2. Doc[i] = None
  BY <1>1 DEF Doc
<1>3. Doc' = [Doc EXCEPT ![i] = Meaning[s][m]]
  BY <1>1 DEF Doc, Live
<1>4. \A p \in Proc : seen[p].id # i
  BY EvolutionAssumption DEF IInv, RowsAreWritten, Finalize
<1>5. Documents!Forgets(i)
  BY <1>1, <1>4, ForgetsWhen
<1>. QED BY <1>2, <1>3, <1>5 DEF Documents!Create

LEMMA UpdateImplements ==
  ASSUME IInv, NEW p \in Proc, NEW m \in Meta, Update(p, m)
  PROVE  Documents!Edit(p, Meaning[latest][m])
<1> DEFINE i == seen[p].id
<1>1. i # None /\ i \in Id /\ IsCurrent(p) /\ row[i] \in Row /\ row[i].version \in Nat
  BY DocFacts DEF Update, CanUpdate, IsCurrent, Live
<1>2. /\ UNCHANGED seen /\ Live(i) /\ Live(i)'
      /\ row'[i].schema = latest /\ row'[i].meta = m
      /\ row'[i].version = row[i].version + 1
      /\ \A j \in Id : j # i => row'[j] = row[j]
  BY <1>1 DEF Update, CanUpdate, Live, IInv, TypeOK, Row
<1>3. Known[p].id = i /\ Doc[i] = Known[p].sense
  BY <1>1, DocFacts
<1>4. Doc' = [Doc EXCEPT ![i] = Meaning[latest][m]]
  BY <1>1, <1>2 DEF Doc, Live
<1>5. ASSUME NEW q \in Proc, seen[q].id = i PROVE ~ IsCurrent(q)'
  <2>1. seen[q].version \in Nat /\ row[i].version >= seen[q].version
    <3>1. seen[q] \in Record
      BY <1>1, <1>5, DocFacts
    <3>2. seen[q].version \in Nat
      BY <3>1, EvolutionAssumption DEF Record
    <3>. QED BY <1>1, <1>2, <1>5, <3>2 DEF IInv, VersionsIdentify
  <2>. QED BY <1>1, <1>2, <1>5, <2>1 DEF IsCurrent
<1>6. Documents!Forgets(i)
  BY <1>1, <1>2, <1>5, ForgetsWhen
<1>. QED BY <1>1, <1>3, <1>4, <1>6 DEF Documents!Edit

LEMMA DeleteImplements ==
  ASSUME IInv, NEW i \in Id, Delete(i)
  PROVE  Documents!Retire(i)
<1>1. /\ UNCHANGED seen /\ Live(i) /\ ~ Live(i)'
      /\ \A j \in Id : j # i => row'[j] = row[j]
  BY DEF Delete, CanDelete, Live, IInv, TypeOK, Row
<1>2. Doc[i] # None
  BY <1>1, DocFacts
<1>3. Doc' = [Doc EXCEPT ![i] = None]
  BY <1>1 DEF Doc, Live
<1>4. Documents!Forgets(i)
  BY <1>1, ForgetsWhen DEF IsCurrent
<1>. QED BY <1>2, <1>3, <1>4 DEF Documents!Retire

LEMMA StatImplements ==
  ASSUME IInv, NEW p \in Proc, NEW i \in Id, Stat(p, i)
  PROVE  Documents!Read(p, i)
<1>1. /\ UNCHANGED row /\ Live(i)
      /\ seen'[p] = [id |-> i, schema |-> row[i].schema,
                     version |-> row[i].version, meta |-> row[i].meta]
      /\ \A q \in Proc : q # p => seen'[q] = seen[q]
  BY DEF Stat, Live, IInv, TypeOK
<1>2. Doc' = Doc /\ Doc[i] # None /\ Doc[i] = Meaning[row[i].schema][row[i].meta]
  BY <1>1, DocFacts DEF Doc, Live
<1>3. IsCurrent(p)'
  BY <1>1, EvolutionAssumption DEF IsCurrent, Live
<1>4. \A q \in Proc : q # p => (IsCurrent(q)' <=> IsCurrent(q))
  BY <1>1 DEF IsCurrent, Live
<1>5. Known' = [Known EXCEPT ![p] = [id |-> i, sense |-> Doc[i]]]
  <2>1. Known'[p] = [id |-> i, sense |-> Doc[i]]
    BY <1>1, <1>2, <1>3 DEF Known
  <2>2. \A q \in Proc : q # p => Known'[q] = Known[q]
    BY <1>1, <1>4 DEF Known
  <2>3. /\ Known = [q \in Proc |-> Known[q]]
        /\ Known' = [q \in Proc |-> Known'[q]]
    BY DEF Known
  <2>. QED BY <2>1, <2>2, <2>3
<1>. QED BY <1>2, <1>5 DEF Documents!Read

\* A batch changes how documents are written and not what they mean; who read
\* one of them has to read it again.
LEMMA BatchImplements ==
  ASSUME IInv, NEW p \in Proc, NEW l \in Id, Batch(p, l)
  PROVE  Documents!Disturb
<1> DEFINE t == running[p]
           page == {i \in Ahead(t) : i <= l}
<1>1. /\ t \in Target /\ t = latest /\ UNCHANGED seen
      /\ page \subseteq Source(t)
      /\ \A i \in page : /\ row'[i].state = row[i].state
                         /\ row'[i].schema = latest
                         /\ row[i].schema = latest - 1
                         /\ row'[i].version = row[i].version + 1
                         /\ row'[i].meta = Transform[row[i].schema][row[i].meta]
      /\ \A i \in Id \ page : row'[i] = row[i]
  BY BatchFacts DEF Batch
<1>. HIDE DEF page
<1>2. \A i \in Id : Live(i)' <=> Live(i)
  BY <1>1 DEF Live
<1>3. ASSUME NEW i \in page
      PROVE  Meaning[row'[i].schema][row'[i].meta] = Meaning[row[i].schema][row[i].meta]
  <2>1. i \in Id /\ row[i].meta \in Meta /\ row[i].schema \in Schema
    BY <1>1, DocFacts DEF Source, IInv, RowsAreWritten, Row
  <2>2. row[i].schema \in Schema \ {MaxSchema} /\ row'[i].schema = row[i].schema + 1
    <3>1. row[i].schema = latest - 1 /\ row'[i].schema = latest /\ latest \in Target
      BY <1>1
    <3>2. latest \in 2 .. MaxSchema /\ MaxSchema \in Nat
      BY <3>1, EvolutionAssumption DEF Target
    <3>. QED BY <3>1, <3>2 DEF Schema
  <2>. QED BY <1>1, <2>1, <2>2, TransformAssumption
<1>4. Doc' = Doc
  BY <1>1, <1>2, <1>3 DEF Doc
<1>5. ASSUME NEW q \in Proc PROVE Known'[q] \in {Known[q], Documents!Nothing}
  <2>1. CASE IsCurrent(q)'
    <3>1. seen[q].id \in Id /\ Live(seen[q].id) /\ seen[q].id # None
      BY <1>1, <1>2, <2>1, DocFacts DEF IsCurrent
    <3>2. row[seen[q].id].version \in Nat /\ seen[q].version \in Nat
          /\ row[seen[q].id].version >= seen[q].version
      <4>1. seen[q] \in Record /\ row[seen[q].id].version \in Nat
        BY <3>1, DocFacts
      <4>2. seen[q].version \in Nat
        BY <4>1, EvolutionAssumption DEF Record
      <4>. QED BY <3>1, <4>1, <4>2 DEF IInv, VersionsIdentify
    <3>3. seen[q].id \notin page
      BY <1>1, <2>1, <3>1, <3>2 DEF IsCurrent
    <3>4. IsCurrent(q)
      BY <1>1, <2>1, <3>1, <3>3 DEF IsCurrent
    <3>. QED BY <1>1, <2>1, <3>4 DEF Known
  <2>2. CASE ~ IsCurrent(q)'
    BY <2>2 DEF Known, Documents!Nothing
  <2>. QED BY <2>1, <2>2
<1>. QED BY <1>4, <1>5 DEF Documents!Disturb

LEMMA KnownIsTyped == IInv => Known \in [Proc -> Documents!Known]
BY DocFacts

LEMMA StepImplements == IInv /\ IInv' /\ [Next]_vars => [Documents!Next]_(Documents!vars)
<1> SUFFICES ASSUME IInv, IInv', [Next]_vars
             PROVE  Documents!Next \/ UNCHANGED Documents!vars
  OBVIOUS
<1>a. (Known \in [Proc -> Documents!Known])'
  BY KnownIsTyped, PTL
<1>b. \A p \in Proc : seen[p].id # None => seen[p].id \in Id
  BY DocFacts
<1>c. ASSUME NEW s \in Schema, NEW m \in Meta PROVE Meaning[s][m] \in Sense
  BY TransformAssumption
<1>1. ASSUME NEW i \in Id, NEW s \in Schema, NEW m \in Meta, Finalize(i, s, m)
      PROVE  Documents!Next
  BY <1>a, <1>c, <1>1, FinalizeImplements DEF Documents!Next
<1>2. ASSUME NEW i \in Id, Publish(i)
      PROVE  UNCHANGED Documents!vars
  <2>1. \A j \in Id : /\ Live(j)' <=> Live(j)
                      /\ row'[j].schema = row[j].schema
                      /\ row'[j].version = row[j].version
                      /\ row'[j].meta = row[j].meta
    BY <1>2 DEF Publish, IInv, TypeOK, Row, Live
  <2>. QED BY <1>b, <1>2, <2>1, StuttersWhen DEF Publish
<1>3. ASSUME NEW i \in Id, Delete(i)
      PROVE  Documents!Next
  BY <1>a, <1>3, DeleteImplements DEF Documents!Next
<1>4. ASSUME NEW p \in Proc, NEW i \in Id, Stat(p, i)
      PROVE  Documents!Next
  BY <1>a, <1>4, StatImplements DEF Documents!Next
<1>5. ASSUME NEW p \in Proc, NEW m \in Meta, Update(p, m)
      PROVE  Documents!Next
  <2>1. Meaning[latest][m] \in Sense
    BY <1>c DEF IInv, TypeOK
  <2>. QED BY <1>a, <1>5, <2>1, UpdateImplements DEF Documents!Next
<1>6. ASSUME NEW p \in Proc, NEW l \in Id, Batch(p, l)
      PROVE  Documents!Next
  BY <1>a, <1>6, BatchImplements DEF Documents!Next
<1>7. ASSUME UNCHANGED <<row, seen>>
      PROVE  UNCHANGED Documents!vars
  BY <1>b, <1>7, StuttersWhen DEF Live
<1>8. ASSUME NEW p \in Proc, NEW t \in Target, Initialize(p, t) \/ Resume(p, t)
      PROVE  UNCHANGED Documents!vars
  BY <1>7, <1>8 DEF Initialize, Resume
<1>9. ASSUME NEW p \in Proc, LastBatch(p) \/ Stop(p)
      PROVE  UNCHANGED Documents!vars
  BY <1>7, <1>9 DEF LastBatch, Stop
<1>10. CASE UNCHANGED vars
  BY <1>7, <1>10 DEF vars
<1>. QED BY <1>1, <1>2, <1>3, <1>4, <1>5, <1>6, <1>8, <1>9, <1>10 DEF Next, Migrate

----------------------------------------------------------------------------
(* Migrations go forward.                                                  *)

\* What a step may do to the job of version t and to the rows it has to do.
GoesForward(t) ==
  /\ job[t].state = "complete" => job'[t] = job[t] /\ Source(t) = {}
  /\ job[t].state = "running" =>
       /\ \A i \in Source(t)' :
            /\ i \in Source(t)
            /\ row'[i].version = row[i].version
            /\ row'[i].meta = row[i].meta
       /\ \A i \in Source(t) \ Source(t)' :
            /\ row'[i].schema = t
            /\ row'[i].version = row[i].version + 1
            /\ row'[i].meta = Transform[t - 1][row[i].meta]
            /\ i <= job'[t].last
       /\ \/ job'[t] = job[t] /\ Source(t)' = Source(t)
          \/ job'[t].state = "running" /\ Source(t)' # Source(t) /\ Source(t)' # {}
          \/ job'[t].state = "complete" /\ Source(t)' = {}

\* A complete job has nothing left, in a state in which no row is forgotten.
LEMMA CompleteIsDone ==
  ASSUME IInv, NEW t \in Target, job[t].state = "complete"
  PROVE  Source(t) = {}
<1>1. t <= latest /\ latest \in Schema /\ t \in Schema
  BY EvolutionAssumption DEF IInv, JobsInOrder, TypeOK, Target, Schema
<1>2. ASSUME NEW i \in Source(t)
      PROVE  FALSE
  <2>1. Live(i) /\ i \in Id /\ row[i].schema = t - 1
    BY DEF Source
  <2>2. row[i].schema = latest - 1 /\ job[latest].state = "running"
    BY <1>1, <2>1 DEF IInv, NoneForgotten, Schema
  <2>3. t = latest
    BY <1>1, <2>1, <2>2 DEF Schema
  <2>. QED BY <2>2, <2>3
<1>. QED BY <1>2

\* While a migration runs no row of its source version is touched by others.
LEMMA OthersLeaveSource ==
  ASSUME IInv, [Next]_vars, NEW t \in Target, job[t].state = "running"
  PROVE  \/ \E p \in Proc : running[p] = t /\ Migrate(p)
         \/ /\ job'[t] = job[t] /\ Source(t)' = Source(t)
            /\ \A i \in Source(t) :
                 row'[i].version = row[i].version /\ row'[i].meta = row[i].meta
<1> DEFINE Left == /\ job'[t] = job[t] /\ Source(t)' = Source(t)
                   /\ \A i \in Source(t) : /\ row'[i].version = row[i].version
                                           /\ row'[i].meta = row[i].meta
<1>0. /\ row \in [Id -> Row] /\ t = latest /\ t - 1 # latest
      /\ \A i \in Source(t) : i \in Id /\ Live(i) /\ row[i].schema = t - 1
      /\ \A i \in Id : Live(i) /\ row[i].schema = t - 1 => i \in Source(t)
      /\ Active
  BY EvolutionAssumption DEF IInv, TypeOK, JobsInOrder, Source, Target, Schema, Active
<1>1. ASSUME NEW i \in Id, row'[i].state # row[i].state \/ row'[i].schema # row[i].schema,
             \A j \in Id \ {i} : row'[j] = row[j], ~ Live(i),
             row'[i].schema = latest \/ row'[i].state \notin {"publishing", "ready"},
             job' = job
      PROVE  Left
  BY <1>0, <1>1 DEF Source, Live
<1>2. ASSUME NEW i \in Id, NEW s \in Schema, NEW m \in Meta, Finalize(i, s, m)
      PROVE  Left
  <2>1. /\ row[i].state = "absent" /\ job' = job
        /\ row'[i].state = "publishing" /\ row'[i].schema = latest
        /\ \A j \in Id \ {i} : row'[j] = row[j]
    BY <1>0, <1>2 DEF Finalize
  <2>2. ~ Live(i)
    BY <2>1 DEF Live
  <2>. QED BY <1>1, <2>1, <2>2
<1>3. ASSUME NEW i \in Id, Publish(i)
      PROVE  Left
  <2>1. /\ job' = job /\ Live(i) /\ row'[i].state = "ready"
        /\ row'[i].schema = row[i].schema /\ row'[i].version = row[i].version
        /\ row'[i].meta = row[i].meta
        /\ \A j \in Id \ {i} : row'[j] = row[j]
    BY <1>0, <1>3 DEF Publish, Live, Row
  <2>2. /\ \A j \in Id : Live(j)' <=> Live(j)
        /\ \A j \in Id : /\ row'[j].schema = row[j].schema
                         /\ row'[j].version = row[j].version
                         /\ row'[j].meta = row[j].meta
    BY <2>1 DEF Live
  <2>. QED BY <1>0, <2>1, <2>2 DEF Source
<1>4. ASSUME NEW p \in Proc, NEW m \in Meta, Update(p, m)
      PROVE  Left
  <2> DEFINE i == seen[p].id
  <2>1. /\ job' = job /\ i \in Id /\ row[i].schema = latest
        /\ row'[i].state = row[i].state /\ row'[i].schema = row[i].schema
        /\ \A j \in Id \ {i} : row'[j] = row[j]
    BY <1>0, <1>4 DEF Update, CanUpdate, IInv, TypeOK, Record, NoRecord, Row
  <2>2. \A j \in Id : (Live(j)' <=> Live(j)) /\ row'[j].schema = row[j].schema
    BY <2>1 DEF Live
  <2>3. i \notin Source(t)
    BY <1>0, <2>1
  <2> HIDE DEF i
  <2>. QED BY <1>0, <2>1, <2>2, <2>3 DEF Source
<1>5. ASSUME NEW i \in Id, Delete(i)
      PROVE  Left
  BY <1>0, <1>5 DEF Delete, CanDelete
<1>6. ASSUME NEW p \in Proc, NEW i \in Id, Stat(p, i)
      PROVE  Left
  BY <1>6 DEF Stat, Source, Live
<1>7. ASSUME NEW p \in Proc, NEW u \in Target, Initialize(p, u)
      PROVE  Left
  BY <1>0, <1>7 DEF Initialize, CanInitialize
<1>8. ASSUME NEW p \in Proc, NEW u \in Target, Resume(p, u) \/ Stop(p)
      PROVE  Left
  BY <1>8 DEF Resume, Stop, Source, Live
<1>9. ASSUME NEW p \in Proc, Stop(p)
      PROVE  Left
  BY <1>9 DEF Stop, Source, Live
<1>10. ASSUME NEW p \in Proc, Migrate(p)
       PROVE  running[p] = t
  BY <1>0, <1>10 DEF Migrate, Batch, LastBatch, IInv, TypeOK, JobsInOrder
<1>11. CASE UNCHANGED vars
  BY <1>11 DEF vars, Source, Live
<1>. QED BY <1>2, <1>3, <1>4, <1>5, <1>6, <1>7, <1>8, <1>9, <1>10, <1>11 DEF Next

\* A batch does the rows of its page, all of them before its checkpoint.
LEMMA BatchGoesForward ==
  ASSUME IInv, NEW p \in Proc, NEW l \in Id, Batch(p, l), NEW t, t = running[p]
  PROVE  GoesForward(t)
<1> DEFINE page == {i \in Ahead(t) : i <= l}
<1>1. /\ t \in Target /\ t = latest /\ job[t].state = "running" /\ page \subseteq Source(t)
      /\ \A i \in page : /\ row'[i].state = row[i].state
                         /\ row'[i].schema = latest
                         /\ row[i].schema = latest - 1
                         /\ row'[i].version = row[i].version + 1
                         /\ row'[i].meta = Transform[row[i].schema][row[i].meta]
      /\ \A i \in Id \ page : row'[i] = row[i]
  BY BatchFacts
<1>2. /\ l \in page /\ \A i \in page : i <= l
      /\ job'[t].last = l
      /\ job'[t].state = IF Source(t) \subseteq page THEN "complete" ELSE "running"
  <2>1. l \in page /\ \A i \in page : i <= l
    BY DEF Batch
  <2>2. job' = [job EXCEPT
          ![t].migrated = @ + Cardinality(page),
          ![t].last = l,
          ![t].state = IF Source(t) \subseteq page THEN "complete" ELSE @]
    BY DEF Batch
  <2>3. job \in [Target -> Job]
    BY DEF IInv, TypeOK
  <2> HIDE DEF page
  <2>4. job'[t].last = l /\ job'[t].state = IF Source(t) \subseteq page THEN "complete" ELSE job[t].state
    BY <1>1, <2>2, <2>3 DEF Job
  <2>. QED BY <1>1, <2>1, <2>4
<1>3. t - 1 # latest
  BY <1>1, EvolutionAssumption DEF Target
<1>4. Source(t)' = Source(t) \ page
  <2> HIDE DEF page
  <2>1. \A i \in page : i \notin Source(t)'
    BY <1>1, <1>3 DEF Source
  <2>2. \A i \in Id \ page : i \in Source(t)' <=> i \in Source(t)
    BY <1>1 DEF Source, Live
  <2>3. Source(t) \subseteq Id /\ Source(t)' \subseteq Id
    BY DEF Source
  <2>. QED BY <2>1, <2>2, <2>3
<1> HIDE DEF page
<1>5. \A i \in Source(t)' : i \in Source(t) /\ row'[i] = row[i]
  BY <1>1, <1>4 DEF Source
<1>6. \A i \in Source(t) \ Source(t)' :
        /\ row'[i].schema = t
        /\ row'[i].version = row[i].version + 1
        /\ row'[i].meta = Transform[t - 1][row[i].meta]
        /\ i <= job'[t].last
  BY <1>1, <1>2, <1>4
<1>7. \/ job'[t].state = "running" /\ Source(t)' # Source(t) /\ Source(t)' # {}
      \/ job'[t].state = "complete" /\ Source(t)' = {}
  BY <1>1, <1>2, <1>4
<1>. QED BY <1>1, <1>5, <1>6, <1>7 DEF GoesForward

LEMMA LastBatchGoesForward ==
  ASSUME IInv, NEW p \in Proc, LastBatch(p), NEW t, t = running[p]
  PROVE  GoesForward(t)
<1>1. /\ t \in Target /\ row' = row /\ Source(t) = {} /\ job[t].state = "running"
      /\ job'[t].state = "complete"
  BY DEF LastBatch, IInv, TypeOK, Job
<1>2. Source(t)' = Source(t)
  BY <1>1 DEF Source, Live
<1>. QED BY <1>1, <1>2 DEF GoesForward

\* Jobs that are complete stay as they are.
LEMMA CompleteIsFinal ==
  ASSUME IInv, [Next]_vars, NEW t \in Target, job[t].state = "complete"
  PROVE  job'[t] = job[t]
<1>1. ASSUME NEW p \in Proc, NEW u \in Target, Initialize(p, u)
      PROVE  job'[t] = job[t]
  BY <1>1 DEF Initialize, CanInitialize, IInv, TypeOK
<1>2. ASSUME NEW p \in Proc, Migrate(p)
      PROVE  job'[t] = job[t]
  BY <1>2 DEF Migrate, Batch, LastBatch, IInv, TypeOK
<1>3. ASSUME NEW i \in Id,
             Publish(i) \/ Delete(i) \/ \E s \in Schema, m \in Meta : Finalize(i, s, m)
      PROVE  job'[t] = job[t]
  BY <1>3 DEF Finalize, Publish, Delete
<1>4. ASSUME NEW p \in Proc,
             \/ \E i \in Id : Stat(p, i)
             \/ \E m \in Meta : Update(p, m)
             \/ \E u \in Target : Resume(p, u)
             \/ Stop(p)
      PROVE  job'[t] = job[t]
  BY <1>4 DEF Stat, Update, Resume, Stop
<1>. QED BY <1>1, <1>2, <1>3, <1>4 DEF Next, vars

LEMMA StepGoesForward ==
  ASSUME IInv, [Next]_vars, NEW t \in Target
  PROVE  GoesForward(t)
<1>1. CASE job[t].state = "complete"
  BY <1>1, CompleteIsFinal, CompleteIsDone DEF GoesForward
<1>2. CASE job[t].state = "running"
  <2>1. CASE \E p \in Proc : running[p] = t /\ Migrate(p)
    BY <2>1, BatchGoesForward, LastBatchGoesForward DEF Migrate
  <2>2. CASE /\ job'[t] = job[t] /\ Source(t)' = Source(t)
             /\ \A i \in Source(t) :
                  row'[i].version = row[i].version /\ row'[i].meta = row[i].meta
    BY <1>2, <2>2 DEF GoesForward
  <2>. QED BY <1>2, <2>1, <2>2, OthersLeaveSource
<1>3. CASE job[t].state \notin {"running", "complete"}
  BY <1>3 DEF GoesForward
<1>. QED BY <1>1, <1>2, <1>3

----------------------------------------------------------------------------
(* The theorems.                                                           *)

\* The invariant holds for any processes, blobs and schema versions
\* (migrations, with the operations of Store that race it).
THEOREM InvariantHolds == Spec => []IInv
BY InitEstablishesIInv, StepPreservesIInv, PTL DEF Spec

\* Types, and versions that never pass the limit of int64
\* (Store.update_metadata, the CHECKs of layout).
THEOREM TypeCorrect == Spec => []TypeOK
<1>1. IInv => TypeOK
  BY DEF IInv
<1>. QED BY <1>1, InvariantHolds, PTL

\* No batch meets rows behind its checkpoint: a page never has to go back
\* (migrations._batch).
THEOREM NothingIsBehind == Spec => []NothingBehind
<1>1. IInv => NothingBehind
  BY DEF IInv
<1>. QED BY <1>1, InvariantHolds, PTL

\* The progress counts of every job are exact, whatever was imported, deleted
\* or interrupted meanwhile (migrations._batch).
THEOREM CountsAreExact == Spec => []CountsAddUp
<1>1. IInv => CountsAddUp
  BY DEF IInv
<1>. QED BY <1>1, InvariantHolds, PTL

\* No live row stays in a version that no running job will bring up to date
\* (migrations._initialize).
THEOREM NothingIsForgotten == Spec => []NoneForgotten
<1>1. IInv => NoneForgotten
  BY DEF IInv
<1>. QED BY <1>1, InvariantHolds, PTL

\* A version that still matches stands for the content its reader saw
\* (Store.update_metadata).
THEOREM VersionsAreExact == Spec => []VersionsIdentify
<1>1. IInv => VersionsIdentify
  BY DEF IInv
<1>. QED BY <1>1, InvariantHolds, PTL

\* Migrating does nothing to what documents mean, and nobody edits one without
\* having read what it replaces.
THEOREM DocumentsAreKept == Spec => KeepsDocuments
<1>1. Spec => Documents!Init
  BY InitImplements DEF Spec
<1>. QED BY <1>1, InvariantHolds, StepImplements, PTL DEF Spec, KeepsDocuments, Documents!Spec

\* A running migration is never set back: its rows are transformed once each,
\* behind a checkpoint that goes forward, and by nobody else
\* (migrations._batch, beside every operation of Store).
THEOREM MigrationsAdvance == Spec => MigrationsGoForward
<1>1. IInv /\ [Next]_vars => [\A t \in Target : GoesForward(t)]_vars
  BY StepGoesForward
<1>. QED BY <1>1, InvariantHolds, PTL DEF Spec, MigrationsGoForward, GoesForward
=============================================================================
