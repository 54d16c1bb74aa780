------------------------ MODULE BlobLifecycleProofs ------------------------
(***************************************************************************)
(* The invariant of BlobLifecycleInv is inductive, and the safety          *)
(* properties of BlobLifecycle follow from it, for all constants.          *)
(***************************************************************************)
EXTENDS BlobLifecycleInv, BlobCatalogProofs

LEMMA IdleFacts ==
  /\ Idle \in Task /\ NoView \in View
  /\ Idle.pc = "idle" /\ Idle.jobs = {} /\ Idle.key = None /\ Idle.id = None
  /\ NoView.pc = "none"
BY VersionAssumption DEF Idle, NoView, Task, View, Pc

LEMMA InitEstablishesIInv == Init => IInv
<1> SUFFICES ASSUME Init PROVE IInv
  OBVIOUS
<1> USE EmptyIsSound, IdleFacts DEF Init
<1>1. TypeOK
  BY DEF TypeOK
<1>2. CommittedIsSound /\ WorkIsSound /\ ReferencesAreLive
  BY DEF CommittedIsSound, WorkIsSound, Kept, ReferencesAreLive, RefsHold, EmptyCatalog
<1>3. ExclusiveIsAlone /\ ReadersAreServed /\ UploadsAreNew
  BY DEF ExclusiveIsAlone, ReadersAreServed, UploadsAreNew
<1>4. CallsAreOrderly
  BY ProcAssumption
  DEF CallsAreOrderly, SessionIsOrderly, TaskIsOrderly, InOwnTransaction,
      Maintaining, Uploading, Sweeping
<1>5. DoneIsFinal
  BY DEF DoneIsFinal, Gone, EmptyCatalog
<1>. QED BY <1>1, <1>2, <1>3, <1>4, <1>5 DEF IInv

----------------------------------------------------------------------------
(* Sessions.                                                               *)

\* A lease is granted: nothing is held or done by the process yet.
LEMMA OpenPreserves ==
  ASSUME IInv, NEW p \in Proc, OpenShared(p) \/ OpenExclusive(p)
  PROVE  IInv'
<1> USE DEF IInv, OpenShared, OpenExclusive, store
<1>1. TypeOK'
  BY DEF TypeOK
<1>2. CommittedIsSound' /\ WorkIsSound' /\ ReferencesAreLive'
  BY DEF CommittedIsSound, WorkIsSound, Kept, ReferencesAreLive, RefsHold
<1>3. ExclusiveIsAlone' /\ UploadsAreNew'
  BY DEF ExclusiveIsAlone, UploadsAreNew, TypeOK
<1>4. CallsAreOrderly'
  BY DEF CallsAreOrderly, SessionIsOrderly, TaskIsOrderly, TypeOK,
         InOwnTransaction, Maintaining, Uploading, Sweeping
<1>5. ReadersAreServed' /\ DoneIsFinal'
  BY DEF ReadersAreServed, DoneIsFinal, Gone, Awaited
<1>. QED BY <1>1, <1>2, <1>3, <1>4, <1>5

\* A process leaves, in whatever state: its transaction is undone.
LEMMA LeavePreserves ==
  ASSUME IInv, NEW p \in Proc, mode[p] # "closed", Leave(p), Abandon(task[p].key)
  PROVE  IInv'
<1> USE DEF IInv
<1>a. /\ task' = [task EXCEPT ![p] = Idle]
      /\ view' = [view EXCEPT ![p] = NoView]
      /\ mode' = [mode EXCEPT ![p] = "closed"]
      /\ broken' = [broken EXCEPT ![p] = FALSE]
      /\ UNCHANGED <<db, objects>>
  BY DEF Leave
<1>b. \/ writer' = None /\ work' = EmptyCatalog /\ failed' = FALSE
      \/ writer # p /\ UNCHANGED <<writer, work, failed>>
  BY DEF Leave, Release
<1>c. /\ \A q \in Proc : /\ q # p => task'[q] = task[q] /\ view'[q] = view[q]
                                     /\ mode'[q] = mode[q] /\ broken'[q] = broken[q]
                         /\ q = p => task'[q] = Idle /\ view'[q] = NoView
                                     /\ mode'[q] = "closed" /\ ~ broken'[q]
  BY <1>a DEF TypeOK
<1>d. writer' # p /\ (writer' = writer \/ writer' = None)
  BY <1>b, ProcAssumption
<1>1. TypeOK'
  BY <1>a, <1>b, EmptyIsSound, IdleFacts DEF TypeOK, Abandon
<1>2. CommittedIsSound' /\ WorkIsSound' /\ ReferencesAreLive'
  BY <1>a, <1>b DEF CommittedIsSound, WorkIsSound, Kept, ReferencesAreLive, RefsHold
<1>3. ExclusiveIsAlone' /\ UploadsAreNew'
  BY <1>a, <1>c DEF ExclusiveIsAlone, UploadsAreNew, Abandon, TypeOK
<1>4. CallsAreOrderly'
  <2> SUFFICES ASSUME NEW q \in Proc
               PROVE  SessionIsOrderly(q)' /\ TaskIsOrderly(q)'
    BY DEF CallsAreOrderly
  <2>1. CASE q = p
    BY <1>c, <1>d, <2>1, IdleFacts
    DEF SessionIsOrderly, TaskIsOrderly, InOwnTransaction, Maintaining,
        Uploading, Sweeping
  <2>2. CASE q # p
    <3>1. SessionIsOrderly(q) /\ TaskIsOrderly(q)
      BY DEF CallsAreOrderly
    <3>2. writer # p => UNCHANGED <<writer, work, failed>>
      BY DEF Leave
    <3>3. SessionIsOrderly(q)'
      BY <1>b, <1>c, <2>2, <3>1, <3>2, ProcAssumption
      DEF SessionIsOrderly, InOwnTransaction, Maintaining
    <3>4. TaskIsOrderly(q)'
      BY <1>a, <1>c, <2>2, <3>1, <3>2
      DEF TaskIsOrderly, SessionIsOrderly, InOwnTransaction
    <3>. QED BY <3>3, <3>4
  <2>. QED BY <2>1, <2>2
<1>5. ReadersAreServed'
  BY <1>a, <1>c, IdleFacts DEF ReadersAreServed
<1>6. DoneIsFinal'
  <2> SUFFICES ASSUME ~ LateLanding PROVE DoneIsFinal'
    BY DEF DoneIsFinal
  <2>1. \A k \in Key : flying'[k] # None => flying[k] # None /\ k # task[p].key
    BY NoneAssumption DEF Abandon, TypeOK
  <2>2. \A k \in Key : flying'[k] # None => Awaited(k)'
    BY <1>c, <2>1 DEF DoneIsFinal, Awaited
  <2>3. Gone(db, objects, flying)' /\ (writer' # None /\ ~ failed' => Gone(work, objects, flying)')
    BY <1>a, <1>b, <2>1 DEF DoneIsFinal, Gone
  <2>4. \A q \in Proc : task'[q].pc = "swept" => objects'[task'[q].key] = None
    BY <1>a, <1>c, IdleFacts DEF DoneIsFinal
  <2>. QED BY <2>2, <2>3, <2>4 DEF DoneIsFinal
<1>. QED BY <1>1, <1>2, <1>3, <1>4, <1>5, <1>6

LEMMA ClosePreserves ==
  ASSUME IInv, NEW p \in Proc, Close(p)
  PROVE  IInv'
<1>1. task[p] = Idle
  BY DEF Close, IInv, CallsAreOrderly, TaskIsOrderly
<1>2. Abandon(task[p].key)
  BY <1>1, IdleFacts DEF Close, Abandon
<1>. QED BY <1>2, LeavePreserves DEF Close

LEMMA CrashPreserves ==
  ASSUME IInv, NEW p \in Proc, Crash(p)
  PROVE  IInv'
BY LeavePreserves DEF Crash

----------------------------------------------------------------------------
(* The end of a transaction.                                               *)

\* A call ends with an exception, its transaction (if it had one) undone or,
\* if the session is quarantined, perhaps still open.
LEMMA RaisePreserves ==
  ASSUME IInv, NEW p \in Proc, mode[p] # "closed", task[p].pc # "upload",
         view[p].pc # "reading",
         Return(p),
         UNCHANGED <<db, mode, view, objects, flying>>,
         \/ writer' = None /\ work' = EmptyCatalog /\ failed' = FALSE
         \/ UNCHANGED <<writer, work, failed>>
         \/ writer = None /\ writer' = p /\ work' = db /\ failed' = FALSE,
         \/ writer = p \/ writer' = writer \/ writer' = p,
         \/ broken' = broken /\ writer' # p
         \/ broken' = [broken EXCEPT ![p] = TRUE]
  PROVE  IInv'
<1> USE DEF IInv
<1>a. task' = [task EXCEPT ![p] = Idle]
  BY DEF Return
<1>b. \A q \in Proc : /\ q # p => task'[q] = task[q] /\ broken'[q] = broken[q]
                      /\ q = p => task'[q] = Idle
  BY <1>a DEF TypeOK
<1>c. broken'[p] \/ writer' # p
  BY DEF TypeOK
<1>1. TypeOK'
  BY <1>a, EmptyIsSound, IdleFacts DEF TypeOK
<1>2. CommittedIsSound' /\ ReferencesAreLive'
  BY DEF CommittedIsSound, Kept, ReferencesAreLive, RefsHold
<1>3. WorkIsSound'
  BY ExtendsIsReflexive DEF CommittedIsSound, WorkIsSound, TypeOK
<1>4. ExclusiveIsAlone' /\ UploadsAreNew'
  BY DEF ExclusiveIsAlone, UploadsAreNew
<1>5. CallsAreOrderly'
  <2> SUFFICES ASSUME NEW q \in Proc
               PROVE  SessionIsOrderly(q)' /\ TaskIsOrderly(q)'
    BY DEF CallsAreOrderly
  <2>0. SessionIsOrderly(q) /\ TaskIsOrderly(q)
    BY DEF CallsAreOrderly
  <2>1. CASE q = p
    BY <1>b, <1>c, <2>0, <2>1, IdleFacts
    DEF SessionIsOrderly, TaskIsOrderly, InOwnTransaction, Maintaining,
        Uploading, Sweeping
  <2>2. CASE q # p
    <3>1. writer' = q => writer = q
      BY <2>2, ProcAssumption
    <3>2. writer = q => UNCHANGED <<writer, work, failed>>
      BY <2>2, ProcAssumption
    <3>3. SessionIsOrderly(q)'
      BY <1>b, <2>0, <2>2, <3>1, <3>2 DEF SessionIsOrderly
    <3>4. TaskIsOrderly(q)'
      BY <1>b, <2>0, <2>2, <3>2 DEF TaskIsOrderly, SessionIsOrderly, InOwnTransaction
    <3>. QED BY <3>3, <3>4
  <2>. QED BY <2>1, <2>2
<1>6. ReadersAreServed'
  BY DEF ReadersAreServed
<1>7. DoneIsFinal'
  <2> SUFFICES ASSUME ~ LateLanding PROVE DoneIsFinal'
    BY DEF DoneIsFinal
  <2>1. \A k \in Key : flying'[k] # None => Awaited(k)'
    BY <1>b DEF DoneIsFinal, Awaited
  <2>2. /\ Gone(db, objects, flying)'
        /\ writer' # None /\ ~ failed' => Gone(work, objects, flying)'
    BY DEF DoneIsFinal, Gone
  <2>3. \A q \in Proc : task'[q].pc = "swept" => objects'[task'[q].key] = None
    BY <1>b, IdleFacts DEF DoneIsFinal
  <2>. QED BY <2>1, <2>2, <2>3 DEF DoneIsFinal
<1>. QED BY <1>1, <1>2, <1>3, <1>4, <1>5, <1>6, <1>7

LEMMA RollbackPreserves ==
  ASSUME IInv, NEW p \in Proc, Rollback(p) \/ RollbackFails(p)
  PROVE  IInv'
<1>1. /\ mode[p] # "closed"
      /\ task[p].pc \in InOwnTransaction
      /\ view[p].pc # "reading"
  BY DEF IInv, CallsAreOrderly, SessionIsOrderly, Rollback, RollbackFails
<1>2. CASE Rollback(p)
  BY <1>1, <1>2, RaisePreserves, ProcAssumption
  DEF Rollback, Release, InOwnTransaction, session, store
<1>3. CASE RollbackFails(p)
  BY <1>1, <1>3, RaisePreserves, ProcAssumption
  DEF RollbackFails, PerhapsRelease, Release, Quarantine, InOwnTransaction, store
<1>. QED BY <1>2, <1>3

LEMMA BeginFailsPreserves ==
  ASSUME IInv, NEW p \in Proc, BeginFails(p)
  PROVE  IInv'
BY RaisePreserves DEF BeginFails, Begin, Quarantine, store

LEMMA GiveUpPreserves ==
  ASSUME IInv, NEW p \in Proc, GiveUp(p)
  PROVE  IInv'
<1>1. /\ mode[p] # "closed"
      /\ view[p].pc # "reading"
      /\ writer # p
  BY DEF IInv, CallsAreOrderly, SessionIsOrderly, GiveUp, InOwnTransaction
<1>. QED BY <1>1, RaisePreserves DEF GiveUp, session, store

\* The writer's catalog becomes the committed one, whether the call that wrote
\* it goes on or learns nothing but that its outcome is uncertain.
LEMMA TakesEffectPreserves ==
  ASSUME IInv, NEW p \in Proc, NEW t,
         writer = p, ~ broken[p], ~ failed, MayCommit(work),
         db' = work, Release,
         task' = [task EXCEPT ![p] = t],
         \/ t = Resume(task[p]) /\ broken' = broken
         \/ t = Idle /\ broken' = [broken EXCEPT ![p] = TRUE],
         UNCHANGED <<mode, view, objects, flying>>
  PROVE  IInv'
<1> USE DEF IInv
<1>a. /\ writer' = None /\ work' = EmptyCatalog /\ failed' = FALSE
      /\ mode[p] # "closed" /\ view[p].pc # "reading"
      /\ task[p].pc \in InOwnTransaction
  BY DEF Release, CallsAreOrderly, SessionIsOrderly
<1>b. Sound(work) /\ Extends(db, work) /\ Kept(work, objects)
  BY ProcAssumption DEF WorkIsSound
<1>c. \/ t = Idle
      \/ /\ broken' = broken
         /\ \/ /\ task[p].pc = "journaling" /\ task[p].id # None
               /\ t = [task[p] EXCEPT !.pc = "final"]
            \/ /\ task[p].pc = "recording"
               /\ t = [task[p] EXCEPT !.pc = "clean", !.key = None]
  BY DEF Resume
<1>d. t \in Task /\ t.pc \in {"idle", "final", "clean"}
  <2>1. task[p] \in Task
    BY DEF TypeOK
  <2>2. CASE t = Idle
    BY <2>2, IdleFacts
  <2>3. CASE t = [task[p] EXCEPT !.pc = "final"]
    BY <2>1, <2>3 DEF Task, Pc
  <2>4. CASE t = [task[p] EXCEPT !.pc = "clean", !.key = None]
    BY <2>1, <2>4 DEF Task, Pc
  <2>. QED BY <1>c, <2>2, <2>3, <2>4
<1>e. \A q \in Proc : /\ q # p => task'[q] = task[q] /\ broken'[q] = broken[q]
                      /\ q = p => task'[q] = t
  BY DEF TypeOK
<1>f. \A q \in Proc : q # p => task[q].pc \notin Maintaining
  BY <1>a DEF ExclusiveIsAlone, CallsAreOrderly, SessionIsOrderly
<1>1. TypeOK'
  BY <1>a, <1>d, EmptyIsSound DEF TypeOK
<1>2. CommittedIsSound' /\ WorkIsSound' /\ ReferencesAreLive'
  BY <1>a, <1>b, ProcAssumption
  DEF CommittedIsSound, WorkIsSound, Kept, MayCommit, ReferencesAreLive, RefsHold
<1>3. ExclusiveIsAlone' /\ UploadsAreNew'
  BY DEF ExclusiveIsAlone, UploadsAreNew
<1>4. CallsAreOrderly'
  <2> SUFFICES ASSUME NEW q \in Proc
               PROVE  SessionIsOrderly(q)' /\ TaskIsOrderly(q)'
    BY DEF CallsAreOrderly
  <2>0. SessionIsOrderly(q) /\ TaskIsOrderly(q)
    BY DEF CallsAreOrderly
  <2>1. CASE q = p
    <3>1. task'[p] = t /\ (broken'[p] => t = Idle)
      BY <1>c, <1>e DEF TypeOK
    <3>2. SessionIsOrderly(p)'
      BY <1>a, <1>c, <1>d, <2>0, <2>1, <3>1, IdleFacts, ProcAssumption
      DEF SessionIsOrderly, InOwnTransaction, Maintaining, TypeOK, Task
    <3>0. task[p] \in Task
      BY DEF TypeOK
    <3>3. CASE t = Idle
      BY <2>1, <3>1, <3>2, <3>3, IdleFacts DEF TaskIsOrderly, Uploading, Sweeping
    <3>4. CASE t = [task[p] EXCEPT !.pc = "final"] /\ task[p].pc = "journaling"
               /\ task[p].id # None
      <4>1. /\ t.pc = "final" /\ t.id = task[p].id /\ t.key = task[p].key
            /\ t.content = task[p].content /\ t.meta = task[p].meta
            /\ t.jobs = task[p].jobs
        BY <3>0, <3>4 DEF Task
      <4>. QED BY <2>0, <2>1, <3>1, <3>2, <3>4, <4>1, IdleFacts
               DEF TaskIsOrderly, Uploading, Sweeping
    <3>5. CASE t = [task[p] EXCEPT !.pc = "clean", !.key = None]
               /\ task[p].pc = "recording"
      <4>1. t.pc = "clean" /\ t.jobs = task[p].jobs
        BY <3>0, <3>5 DEF Task
      <4>2. \A k \in t.jobs : db'.gc[k] = "pending"
        BY <2>0, <2>1, <3>5, <4>1 DEF TaskIsOrderly
      <4>3. TaskIsOrderly(p)'
        BY <3>1, <4>1, <4>2 DEF TaskIsOrderly, Uploading, Sweeping
      <4>. QED BY <2>1, <3>2, <4>3
    <3>. QED BY <1>c, <2>1, <3>2, <3>3, <3>4, <3>5
  <2>2. CASE q # p
    <3>1. SessionIsOrderly(q)'
      BY <1>a, <1>e, <2>0, <2>2, ProcAssumption
      DEF SessionIsOrderly, InOwnTransaction
    <3>2. TaskIsOrderly(q)'
      BY <1>e, <1>f, <2>0, <2>2 DEF TaskIsOrderly, Maintaining, Sweeping
    <3>. QED BY <3>1, <3>2
  <2>. QED BY <2>1, <2>2
<1>5. ReadersAreServed'
  BY <1>b DEF ReadersAreServed, Extends
<1>6. DoneIsFinal'
  <2> SUFFICES ASSUME ~ LateLanding PROVE DoneIsFinal'
    BY DEF DoneIsFinal
  <2>1. \A k \in Key : flying'[k] # None => Awaited(k)'
    BY <1>a, <1>e DEF DoneIsFinal, Awaited, InOwnTransaction
  <2>2. /\ Gone(db, objects, flying)'
        /\ writer' # None /\ ~ failed' => Gone(work, objects, flying)'
    BY <1>a, ProcAssumption DEF DoneIsFinal, Gone
  <2>3. \A q \in Proc : task'[q].pc = "swept" => objects'[task'[q].key] = None
    BY <1>d, <1>e DEF DoneIsFinal
  <2>. QED BY <2>1, <2>2, <2>3 DEF DoneIsFinal
<1>. QED BY <1>1, <1>2, <1>3, <1>4, <1>5, <1>6

LEMMA CommitPreserves ==
  ASSUME IInv, NEW p \in Proc, Commit(p)
  PROVE  IInv'
BY TakesEffectPreserves DEF Commit, session, store

LEMMA CommitFailsPreserves ==
  ASSUME IInv, NEW p \in Proc, CommitFails(p)
  PROVE  IInv'
<1>1. /\ mode[p] # "closed"
      /\ task[p].pc \in InOwnTransaction
      /\ view[p].pc # "reading"
  BY DEF IInv, CallsAreOrderly, SessionIsOrderly, CommitFails
<1>2. CASE MayCommit(work) /\ db' = work /\ Release
  BY <1>2, TakesEffectPreserves DEF CommitFails, Quarantine, Return, store
<1>3. CASE UNCHANGED db /\ PerhapsRelease
  BY <1>1, <1>3, RaisePreserves
  DEF CommitFails, PerhapsRelease, Release, Quarantine, InOwnTransaction, store
<1>. QED BY <1>2, <1>3 DEF CommitFails

----------------------------------------------------------------------------
(* Transactions of the application.                                        *)

\* What the application references stays a row of ms_blobs, whatever is done to
\* it but a deletion.
LEMMA RowsStayReferable ==
  ASSUME NEW d \in Catalog, RefsHold(d), NEW i \in Id
  PROVE  /\ \A k \in Key, m \in Meta : RefsHold(Finalize(d, i, k, m))
         /\ \A m \in Meta : RefsHold(UpdateMetadata(d, i, m))
         /\ RefsHold(FinalizeRefused(d, i))
         /\ RefsHold(Publish(d, i))
         /\ RefsHold(DeleteRefused(d, i))
         /\ i \notin d.refs => RefsHold(Delete(d, i))
<1> USE CatalogFields DEF RefsHold
<1> DEFINE Keeps(e) == e.refs = d.refs /\ \A j \in Id : Exists(d, j) => Exists(e, j)
<1>0. \A e : Keeps(e) => RefsHold(e)
  OBVIOUS
<1>1. \A k \in Key, m \in Meta : Keeps(Finalize(d, i, k, m))
  BY DEF Finalize, Catalog, Exists
<1>2. \A m \in Meta : Keeps(UpdateMetadata(d, i, m))
  BY DEF UpdateMetadata, Catalog, Exists
<1>3. Keeps(FinalizeRefused(d, i)) /\ Keeps(Publish(d, i))
  BY DEF FinalizeRefused, Publish, Catalog, Exists
<1>4. Keeps(DeleteRefused(d, i))
  BY DEF DeleteRefused, Catalog, Exists
<1>5. i \notin d.refs => RefsHold(Delete(d, i))
  <2>1. /\ Delete(d, i).refs = d.refs
        /\ \A j \in Id : j # i /\ Exists(d, j) => Exists(Delete(d, i), j)
    BY DEF Delete, DeleteRefused, Catalog, Exists
  <2>. QED BY <2>1
<1> HIDE DEF Keeps, RefsHold
<1>. QED BY <1>0, <1>1, <1>2, <1>3, <1>4, <1>5

LEMMA JournalStaysReferable ==
  ASSUME NEW d \in Catalog, RefsHold(d), NEW k \in Key, NEW c
  PROVE  RefsHold(Journal(d, k, c))
BY DEF RefsHold, Journal, Exists, Catalog

LEMMA DiscardStaysReferable ==
  ASSUME NEW d \in Catalog, RefsHold(d), NEW k \in Key
  PROVE  RefsHold(Discard(d, k))
BY DEF RefsHold, Discard, Queue, Exists, Catalog

LEMMA RecordStaysReferable ==
  ASSUME NEW d \in Catalog, RefsHold(d), NEW k \in Key, NEW swept \in BOOLEAN
  PROVE  RefsHold(RecordSweep(d, k, swept))
BY DEF RefsHold, RecordSweep, Exists, Catalog

LEMMA BatchesStayReferable ==
  ASSUME NEW d \in Catalog, RefsHold(d)
  PROVE  /\ RefsHold(Supersede(d))
         /\ \A ks \in SUBSET Key : RefsHold(QueueOrphans(d, ks))
         /\ \A is \in SUBSET Id : \A f : CanBatch(d, is) => RefsHold(Batch(d, is, f))
<1>1. ASSUME NEW ks \in SUBSET Key
      PROVE  RefsHold(QueueOrphans(d, ks))
  <2>1. QueueOrphans(d, ks).refs = d.refs /\ QueueOrphans(d, ks).status = d.status
    BY DEF QueueOrphans, Catalog
  <2>. QED BY <2>1 DEF RefsHold, Exists
<1>2. ASSUME NEW is \in SUBSET Id, NEW f, CanBatch(d, is)
      PROVE  RefsHold(Batch(d, is, f))
  <2>1. Batch(d, is, f).refs = d.refs /\ Batch(d, is, f).status = d.status
    BY <1>2, BatchFields
  <2>. QED BY <2>1 DEF RefsHold, Exists
<1>3. RefsHold(Supersede(d))
  BY DEF RefsHold, Supersede, Exists, Catalog
<1>. QED BY <1>1, <1>2, <1>3

\* A call's transaction begins, with a catalog d that is as good as db.
LEMMA BeginPreserves ==
  ASSUME IInv, NEW p \in Proc, NEW d \in Catalog, NEW pc \in InOwnTransaction,
         Begin(p, d), Goto(p, pc), UNCHANGED <<session, store>>,
         mode[p] # "closed", ~ broken[p], view[p].pc # "reading",
         task[p].pc # "upload",
         pc \in Maintaining => mode[p] = "exclusive" /\ view[p].pc = "none",
         Sound(d), Extends(db, d), Kept(d, objects), RefsHold(d),
         ~ LateLanding => Gone(d, objects, flying),
         TaskIsOrderly(p)'
  PROVE  IInv'
<1> USE DEF IInv, Begin, session, store
<1>a. task' = [task EXCEPT ![p].pc = pc]
  BY DEF Goto
<1>b. \A q \in Proc : q # p => task'[q] = task[q]
  BY <1>a DEF TypeOK
<1>c. task'[p].pc = pc
  BY <1>a DEF TypeOK, Task
<1>1. TypeOK'
  <2>1. [task[p] EXCEPT !.pc = pc] \in Task
    <3>1. task[p] \in Task /\ pc \in Pc
      BY DEF TypeOK, Pc, InOwnTransaction
    <3>. HIDE DEF IInv, Begin, session, store
    <3>. QED BY <3>1 DEF Task
  <2>2. task' \in [Proc -> Task]
    BY <1>a, <2>1 DEF TypeOK
  <2>. QED BY <2>2 DEF TypeOK
<1>2. CommittedIsSound' /\ WorkIsSound' /\ ReferencesAreLive'
  BY DEF CommittedIsSound, WorkIsSound, Kept, ReferencesAreLive, RefsHold
<1>3. ExclusiveIsAlone' /\ UploadsAreNew'
  BY DEF ExclusiveIsAlone, UploadsAreNew
<1>4. CallsAreOrderly'
  <2> SUFFICES ASSUME NEW q \in Proc
               PROVE  SessionIsOrderly(q)' /\ TaskIsOrderly(q)'
    BY DEF CallsAreOrderly
  <2>0. SessionIsOrderly(q) /\ TaskIsOrderly(q)
    BY DEF CallsAreOrderly
  <2>1. CASE q = p
    BY <1>c, <2>1 DEF SessionIsOrderly, InOwnTransaction
  <2>2. CASE q # p
    <3>1. SessionIsOrderly(q)'
      BY <1>b, <2>0, <2>2, ProcAssumption DEF SessionIsOrderly
    <3>2. TaskIsOrderly(q)'
      BY <1>b, <2>0, <2>2, ProcAssumption
      DEF TaskIsOrderly, SessionIsOrderly, InOwnTransaction
    <3>. QED BY <3>1, <3>2
  <2>. QED BY <2>1, <2>2
<1>5. ReadersAreServed'
  BY DEF ReadersAreServed
<1>6. DoneIsFinal'
  <2> SUFFICES ASSUME ~ LateLanding PROVE DoneIsFinal'
    BY DEF DoneIsFinal
  <2>1. \A k \in Key : flying'[k] # None => Awaited(k)'
    BY <1>b DEF DoneIsFinal, Awaited
  <2>2. Gone(db, objects, flying)' /\ Gone(work, objects, flying)'
    BY DEF DoneIsFinal, Gone
  <2>3. \A q \in Proc : task'[q].pc = "swept" => objects'[task'[q].key] = None
    BY <1>b, <1>c DEF DoneIsFinal, InOwnTransaction
  <2>. QED BY <2>1, <2>2, <2>3 DEF DoneIsFinal
<1>. QED BY <1>1, <1>2, <1>3, <1>4, <1>5, <1>6

\* What the committed catalog gives a transaction that starts from it.
LEMMA BeginFromCommitted ==
  ASSUME IInv, NEW d \in Catalog, Follows(db, d)
  PROVE  /\ Sound(d) /\ Extends(db, d) /\ Kept(d, objects)
         /\ ~ LateLanding => Gone(d, objects, flying)
BY DEF IInv, CommittedIsSound, DoneIsFinal, Follows, Narrows, Kept, Gone

LEMMA BeginTxPreserves ==
  ASSUME IInv, NEW p \in Proc, BeginTx(p)
  PROVE  IInv'
<1>1. db \in Catalog /\ Follows(db, db) /\ RefsHold(db)
  BY ExtendsIsReflexive DEF IInv, TypeOK, CommittedIsSound, ReferencesAreLive, Follows
<1>2. TaskIsOrderly(p)'
  <2>1. task[p] = Idle
    BY DEF IInv, CallsAreOrderly, TaskIsOrderly, BeginTx, AtRest
  <2>2. task'[p] = [Idle EXCEPT !.pc = "tx"]
    BY <2>1 DEF BeginTx, Goto, IInv, TypeOK
  <2>3. task'[p].pc = "tx" /\ task'[p].jobs = {}
    BY <2>2, IdleFacts DEF Task
  <2>. QED BY <2>3 DEF TaskIsOrderly, Uploading, Sweeping
<1>. QED BY <1>1, <1>2, BeginFromCommitted, BeginPreserves
         DEF BeginTx, AtRest, InOwnTransaction, Maintaining

\* A step of the writer that changes nothing but its own catalog.
LEMMA ApplyPreserves ==
  ASSUME IInv, NEW p \in Proc, NEW d \in Catalog,
         (Apply(p, d) /\ Follows(work, d)) \/ Poison(p, d),
         ~ DeferredRefs => RefsHold(d)
  PROVE  IInv'
<1> USE DEF IInv, Apply, Poison, Within, session, store
<1>1. TypeOK'
  BY DEF TypeOK
<1>2. CommittedIsSound' /\ ReferencesAreLive' /\ ExclusiveIsAlone' /\ UploadsAreNew'
  BY DEF CommittedIsSound, Kept, ReferencesAreLive, RefsHold, ExclusiveIsAlone, UploadsAreNew
<1>3. WorkIsSound'
  BY ExtendsIsTransitive DEF WorkIsSound, TypeOK, Follows, Narrows, Kept
<1>4. CallsAreOrderly'
  <2> SUFFICES ASSUME NEW q \in Proc
               PROVE  SessionIsOrderly(q)' /\ TaskIsOrderly(q)'
    BY DEF CallsAreOrderly
  <2>0. SessionIsOrderly(q) /\ TaskIsOrderly(q)
    BY DEF CallsAreOrderly
  <2>1. SessionIsOrderly(q)'
    BY <2>0 DEF SessionIsOrderly
  <2>2. task[q].pc # "recording"
    BY <2>0 DEF SessionIsOrderly, InOwnTransaction
  <2>3. TaskIsOrderly(q)'
    BY <2>0, <2>2 DEF TaskIsOrderly
  <2>. QED BY <2>1, <2>3
<1>5. ReadersAreServed'
  BY DEF ReadersAreServed
<1>6. DoneIsFinal'
  BY ProcAssumption DEF DoneIsFinal, Gone, Awaited, Follows, Narrows
<1>. QED BY <1>1, <1>2, <1>3, <1>4, <1>5, <1>6

\* The application's rows are no concern of the invariant until they commit.
LEMMA RefsAreFree ==
  ASSUME NEW d \in Catalog, Sound(d), NEW r \in SUBSET Id
  PROVE  Follows(d, [d EXCEPT !.refs = r])
<1> DEFINE e == [d EXCEPT !.refs = r]
<1>1. /\ e \in Catalog
      /\ e.prepared = d.prepared /\ e.status = d.status /\ e.token = d.token
      /\ e.meta = d.meta /\ e.gc = d.gc /\ e.reason = d.reason
      /\ e.tokenSchema = d.tokenSchema
  BY DEF Catalog
<1> HIDE DEF e
<1>2. Sound(e)
  BY <1>1 DEF Sound, Exists
<1>3. Extends(d, e) /\ Narrows(d, e)
  BY <1>1 DEF Extends, Narrows
<1>. QED BY <1>1, <1>2, <1>3 DEF e, Follows

LEMMA TxStepPreserves ==
  ASSUME IInv, NEW p \in Proc, TxStep(p)
  PROVE  IInv'
<1>0. /\ work \in Catalog
      /\ Within(p) => Sound(work) /\ (~ DeferredRefs => RefsHold(work))
  BY ProcAssumption DEF IInv, TypeOK, WorkIsSound, ReferencesAreLive, Within
<1>1. ASSUME NEW i \in Id, NEW k \in Key, NEW m \in Meta, TxFinalize(p, i, k, m)
      PROVE  IInv'
  <2>1. FinalizeRefused(work, i) \in Catalog
    BY <1>0 DEF FinalizeRefused, Catalog, Status
  <2>2. Apply(p, Finalize(work, i, k, m)) => Follows(work, Finalize(work, i, k, m))
    BY <1>0, <1>1, FinalizeIsSound DEF TxFinalize, Apply
  <2>3. ~ DeferredRefs =>
          RefsHold(Finalize(work, i, k, m)) /\ RefsHold(FinalizeRefused(work, i))
    BY <1>0, <1>1, RowsStayReferable DEF TxFinalize, Apply, Poison
  <2>. QED BY <1>1, <2>1, <2>2, <2>3, ApplyPreserves DEF TxFinalize, Follows
<1>2. ASSUME NEW i \in Id, TxPublish(p, i)
      PROVE  IInv'
  <2>1. Follows(work, Publish(work, i))
    BY <1>0, <1>2, PublishIsSound DEF TxPublish, Apply
  <2>2. ~ DeferredRefs => RefsHold(Publish(work, i))
    <3>1. PICK k \in Key : k = work.token[i]
      BY <1>0, <1>2 DEF TxPublish, CanPublish, Complete, Catalog
    <3>. QED BY <1>0, <1>2, RowsStayReferable DEF TxPublish, Apply
  <2>. QED BY <1>2, <2>1, <2>2, ApplyPreserves DEF TxPublish, Follows
<1>3. ASSUME NEW i \in Id, TxLink(p, i) \/ TxUnlink(p, i)
      PROVE  IInv'
  <2>1. work.refs \cup {i} \in SUBSET Id /\ work.refs \ {i} \in SUBSET Id
    BY <1>0 DEF Catalog
  <2>2. CASE TxLink(p, i)
    <3>1. ~ DeferredRefs => RefsHold([work EXCEPT !.refs = work.refs \cup {i}])
      BY <1>0, <2>2 DEF TxLink, Apply, RefsHold, Exists, Catalog
    <3>. QED BY <1>0, <2>1, <2>2, <3>1, RefsAreFree, ApplyPreserves
             DEF TxLink, Apply, Follows
  <2>3. CASE TxUnlink(p, i)
    <3>1. ~ DeferredRefs => RefsHold([work EXCEPT !.refs = work.refs \ {i}])
      BY <1>0, <2>3 DEF TxUnlink, Apply, RefsHold, Exists, Catalog
    <3>. QED BY <1>0, <2>1, <2>3, <3>1, RefsAreFree, ApplyPreserves
             DEF TxUnlink, Apply, Follows
  <2>. QED BY <1>3, <2>2, <2>3
<1>4. ASSUME NEW i \in Id, NEW v \in 1 .. MaxVersion, TxDelete(p, i, v)
      PROVE  IInv'
  <2>0. Within(p) /\ Complete(work, i)
    BY <1>4 DEF TxDelete, CanDelete, Apply, Poison
  <2>1. work.token[i] \in Key
    BY <1>0, <2>0 DEF Complete, Catalog
  <2>2. DeleteRefused(work, i) \in Catalog
    BY <1>0, <2>1 DEF DeleteRefused, Catalog, Status, GcState, GcReason
  <2>3. Follows(work, Delete(work, i))
    BY <1>0, <2>0, DeleteIsSound
  <2>4. ~ DeferredRefs =>
          /\ RefsHold(DeleteRefused(work, i))
          /\ i \notin work.refs => RefsHold(Delete(work, i))
    BY <1>0, <2>0, <2>1, RowsStayReferable
  <2>. QED BY <1>4, <2>2, <2>3, <2>4, ApplyPreserves DEF TxDelete, Follows
<1>5. ASSUME NEW i \in Id, NEW v \in 1 .. MaxVersion, NEW m \in Meta,
             TxUpdate(p, i, v, m)
      PROVE  IInv'
  <2>1. Follows(work, UpdateMetadata(work, i, m))
    BY <1>0, <1>5, UpdateMetadataIsSound DEF TxUpdate, Apply
  <2>2. ~ DeferredRefs => RefsHold(UpdateMetadata(work, i, m))
    <3>1. PICK k \in Key : k = work.token[i]
      BY <1>0, <1>5 DEF TxUpdate, CanUpdate, Complete, Catalog
    <3>. QED BY <1>0, <1>5, RowsStayReferable DEF TxUpdate, Apply
  <2>. QED BY <1>5, <2>1, <2>2, ApplyPreserves DEF TxUpdate, Follows
<1>6. ASSUME NEW k \in Key, TxDiscard(p, k)
      PROVE  IInv'
  <2>1. Follows(work, Discard(work, k))
    BY <1>0, <1>6, DiscardIsSound DEF TxDiscard, Apply
  <2>2. ~ DeferredRefs => RefsHold(Discard(work, k))
    BY <1>0, <1>6, DiscardStaysReferable DEF TxDiscard, Apply
  <2>. QED BY <1>6, <2>1, <2>2, ApplyPreserves DEF TxDiscard, Follows
<1>7. CASE TxRefused(p)
  BY <1>0, <1>7, ApplyPreserves DEF TxRefused, Poison
<1>. QED BY <1>1, <1>2, <1>3, <1>4, <1>5, <1>6, <1>7 DEF TxStep

----------------------------------------------------------------------------
(* Calls between their transactions.                                       *)

\* A step of a call outside transactions: it moves p and perhaps the store,
\* as long as the store keeps what anyone else relies on.
LEMMA CallStepPreserves ==
  ASSUME IInv, NEW p \in Proc, TypeOK', UploadsAreNew', DoneIsFinal',
         UNCHANGED <<db, work, writer, failed, mode, broken, view>>,
         \A q \in Proc : q # p => task'[q] = task[q],
         writer # p, SessionIsOrderly(p)', TaskIsOrderly(p)',
         Kept(db, objects'),
         writer # None /\ ~ failed => Kept(work, objects'),
         \A q \in Proc : q # p /\ task[q].pc \in {"journal", "journaling"} =>
                           objects'[task[q].key] = objects[task[q].key],
         \A q \in Proc : view[q].pc = "reading" =>
                           objects'[view[q].key] = objects[view[q].key]
  PROVE  IInv'
<1> USE DEF IInv
<1>1. CommittedIsSound' /\ WorkIsSound' /\ ReferencesAreLive' /\ ExclusiveIsAlone'
  BY DEF CommittedIsSound, WorkIsSound, ReferencesAreLive, RefsHold, ExclusiveIsAlone
<1>2. CallsAreOrderly'
  <2> SUFFICES ASSUME NEW q \in Proc, q # p
               PROVE  SessionIsOrderly(q)' /\ TaskIsOrderly(q)'
    BY DEF CallsAreOrderly
  <2>1. SessionIsOrderly(q) /\ TaskIsOrderly(q)
    BY DEF CallsAreOrderly
  <2>. QED BY <2>1 DEF SessionIsOrderly, TaskIsOrderly
<1>3. ReadersAreServed'
  BY DEF ReadersAreServed
<1>. QED BY <1>1, <1>2, <1>3

LEMMA StartUploadPreserves ==
  ASSUME IInv, NEW p \in Proc, NEW i \in Id \cup {None}, NEW c \in Content,
         NEW m \in Meta \cup {None}, i # None => m \in Meta, StartUpload(p, i, c, m)
  PROVE  IInv'
<1> USE DEF IInv
<1>1. PICK k \in Key :
        /\ Fresh(k)
        /\ flying' = [flying EXCEPT ![k] = c]
        /\ task' = [task EXCEPT ![p] =
             [pc |-> "upload", id |-> i, key |-> k, content |-> c,
              meta |-> m, schema |-> db.latest, jobs |-> {}]]
  BY DEF StartUpload
<1>2. /\ AtRest(p) /\ writer = None
      /\ UNCHANGED <<db, work, writer, failed, mode, broken, view, objects>>
  BY DEF StartUpload, session
<1>3. \A q \in Proc : q # p => task'[q] = task[q]
  BY <1>1 DEF TypeOK
<1>4. /\ task'[p].pc = "upload" /\ task'[p].key = k /\ task'[p].content = c
      /\ task'[p].id = i /\ task'[p].meta = m /\ task'[p].jobs = {}
  BY <1>1 DEF TypeOK
<1>5. TypeOK'
  <2>1. db.latest \in 0 .. MaxSchema
    BY VersionAssumption, CatalogFields DEF TypeOK
  <2>2. [pc |-> "upload", id |-> i, key |-> k, content |-> c,
         meta |-> m, schema |-> db.latest, jobs |-> {}] \in Task
    BY <2>1 DEF Task, Pc
  <2>. QED BY <1>1, <1>2, <2>2 DEF TypeOK
<1>6. SessionIsOrderly(p)' /\ TaskIsOrderly(p)'
  BY <1>2, <1>4, ProcAssumption
  DEF AtRest, SessionIsOrderly, TaskIsOrderly, InOwnTransaction, Maintaining,
      Uploading, Sweeping
<1>7. DoneIsFinal'
  <2> SUFFICES ASSUME ~ LateLanding PROVE DoneIsFinal'
    BY DEF DoneIsFinal
  <2>1. \A l \in Key : flying'[l] # None => Awaited(l)'
    <3> SUFFICES ASSUME NEW l \in Key, flying'[l] # None PROVE Awaited(l)'
      OBVIOUS
    <3>1. CASE l = k
      BY <1>4, <3>1 DEF Awaited
    <3>2. CASE l # k
      <4>1. PICK q \in Proc : task[q].pc = "upload" /\ task[q].key = l
        BY <1>1, <3>2 DEF DoneIsFinal, Awaited, TypeOK
      <4>2. q # p
        BY <4>1, <1>2 DEF AtRest
      <4>. QED BY <4>1, <4>2, <1>3 DEF Awaited
    <3>. QED BY <3>1, <3>2
  <2>2. Gone(db, objects, flying)'
    BY <1>1, <1>2 DEF DoneIsFinal, Gone, Fresh, TypeOK
  <2>3. \A q \in Proc : task'[q].pc = "swept" => objects'[task'[q].key] = None
    BY <1>2, <1>3, <1>4 DEF DoneIsFinal
  <2>. QED BY <1>2, <2>1, <2>2, <2>3 DEF DoneIsFinal
<1>8. UploadsAreNew'
  BY <1>1, <1>2 DEF UploadsAreNew, Fresh, TypeOK
<1>. QED BY <1>8, <1>2, <1>3, <1>5, <1>6, <1>7, CallStepPreserves
         DEF AtRest, CommittedIsSound, WorkIsSound

\* Landing adds bytes and replaces none: nobody relied on their absence.
LEMMA LandPreserves ==
  ASSUME IInv, NEW k \in Key, Land(k)
  PROVE  IInv'
<1> USE DEF IInv, Land
<1>1. TypeOK'
  BY DEF TypeOK
<1>2. \A l \in Key : /\ objects[l] # None => objects'[l] = objects[l]
                     /\ l # k => objects'[l] = objects[l]
                     /\ flying'[l] # None => flying[l] # None
  BY DEF TypeOK
<1>3. /\ Kept(db, objects')
      /\ writer # None /\ ~ failed => Kept(work, objects')
  BY <1>2, NoneAssumption DEF CommittedIsSound, WorkIsSound, Kept, TypeOK, Catalog
<1>4. CommittedIsSound' /\ WorkIsSound' /\ ReferencesAreLive' /\ ExclusiveIsAlone'
  BY <1>3 DEF CommittedIsSound, WorkIsSound, ReferencesAreLive, RefsHold, ExclusiveIsAlone
<1>5. CallsAreOrderly'
  <2> SUFFICES ASSUME NEW q \in Proc
               PROVE  SessionIsOrderly(q)' /\ TaskIsOrderly(q)'
    BY DEF CallsAreOrderly
  <2>1. SessionIsOrderly(q) /\ TaskIsOrderly(q)
    BY DEF CallsAreOrderly
  <2>2. task[q].pc \in {"journal", "journaling"} =>
          objects'[task[q].key] = objects[task[q].key]
    BY <1>2, <2>1, NoneAssumption DEF TaskIsOrderly, Uploading
  <2>. QED BY <2>1, <2>2 DEF SessionIsOrderly, TaskIsOrderly
<1>6. ReadersAreServed'
  BY <1>2, NoneAssumption DEF ReadersAreServed, TypeOK, Catalog
<1>7. DoneIsFinal'
  <2> SUFFICES ASSUME ~ LateLanding PROVE DoneIsFinal'
    BY DEF DoneIsFinal
  <2>1. \A l \in Key : flying'[l] # None => Awaited(l)'
    BY <1>2 DEF DoneIsFinal, Awaited
  <2>2. /\ Gone(db, objects, flying)'
        /\ writer' # None /\ ~ failed' => Gone(work, objects, flying)'
    BY <1>2 DEF DoneIsFinal, Gone
  <2>3. ASSUME NEW q \in Proc, task[q].pc = "swept"
        PROVE  objects'[task[q].key] = None
    <3>1. task[q].key \in Key /\ objects[task[q].key] = None
      BY <2>3 DEF DoneIsFinal, CallsAreOrderly, TaskIsOrderly
    <3>2. mode[q] = "exclusive"
      BY <2>3 DEF CallsAreOrderly, SessionIsOrderly, Maintaining
    <3>3. PICK r \in Proc : task[r].pc = "upload" /\ task[r].key = k
      BY DEF DoneIsFinal, Awaited
    <3>4. mode[r] # "closed"
      BY <3>3 DEF CallsAreOrderly, SessionIsOrderly
    <3>5. r = q
      BY <3>2, <3>4 DEF ExclusiveIsAlone
    <3>. QED BY <2>3, <3>3, <3>5
  <2>. QED BY <2>1, <2>2, <2>3 DEF DoneIsFinal
<1>8. UploadsAreNew'
  BY DEF UploadsAreNew, TypeOK
<1>. QED BY <1>8, <1>1, <1>4, <1>5, <1>6, <1>7

LEMMA UploadReturnsPreserves ==
  ASSUME IInv, NEW p \in Proc, UploadReturns(p)
  PROVE  IInv'
<1> USE DEF IInv, UploadReturns, session, store
<1>0. SessionIsOrderly(p) /\ TaskIsOrderly(p) /\ task[p] \in Task
  BY DEF CallsAreOrderly, TypeOK
<1>1. \A q \in Proc : q # p => task'[q] = task[q]
  BY DEF Goto, TypeOK
<1>2. /\ task'[p].pc = "journal" /\ task'[p].key = task[p].key
      /\ task'[p].content = task[p].content /\ task'[p].id = task[p].id
      /\ task'[p].meta = task[p].meta /\ task'[p].jobs = task[p].jobs
      /\ task'[p] \in Task
  BY <1>0 DEF Goto, TypeOK, Task, Pc
<1>3. TypeOK'
  BY <1>1, <1>2 DEF Goto, TypeOK
<1>4. writer # p /\ SessionIsOrderly(p)' /\ TaskIsOrderly(p)'
  BY <1>0, <1>2
  DEF SessionIsOrderly, TaskIsOrderly, InOwnTransaction, Maintaining,
      Uploading, Sweeping
<1>5. DoneIsFinal'
  <2> SUFFICES ASSUME ~ LateLanding PROVE DoneIsFinal'
    BY DEF DoneIsFinal
  <2>1. \A l \in Key : flying'[l] # None => Awaited(l)'
    BY <1>0, <1>1, NoneAssumption
    DEF DoneIsFinal, Awaited, UploadsAreNew, TaskIsOrderly, Uploading
  <2>. QED BY <2>1, <1>1, <1>2 DEF DoneIsFinal, Gone
<1>. QED BY <1>1, <1>3, <1>4, <1>5, CallStepPreserves
         DEF CommittedIsSound, WorkIsSound, UploadsAreNew

LEMMA UploadFailsPreserves ==
  ASSUME IInv, NEW p \in Proc, UploadFails(p)
  PROVE  IInv'
<1> USE DEF IInv, UploadFails, session
<1>0. SessionIsOrderly(p)
  BY DEF CallsAreOrderly
<1>1. \A q \in Proc : /\ q # p => task'[q] = task[q]
                      /\ q = p => task'[q] = Idle
  BY DEF Return, TypeOK
<1>2. TypeOK' /\ UploadsAreNew'
  BY IdleFacts DEF TypeOK, UploadsAreNew, Return, Abandon
<1>3. writer # p /\ SessionIsOrderly(p)' /\ TaskIsOrderly(p)'
  BY <1>0, <1>1, IdleFacts
  DEF SessionIsOrderly, TaskIsOrderly, InOwnTransaction, Maintaining,
      Uploading, Sweeping
<1>4. DoneIsFinal'
  <2> SUFFICES ASSUME ~ LateLanding PROVE DoneIsFinal'
    BY DEF DoneIsFinal
  <2>1. \A l \in Key : flying'[l] # None => flying[l] # None /\ l # task[p].key
    BY NoneAssumption DEF Abandon, TypeOK
  <2>2. \A l \in Key : flying'[l] # None => Awaited(l)'
    BY <1>1, <2>1 DEF DoneIsFinal, Awaited
  <2>. QED BY <2>1, <2>2, <1>1, IdleFacts DEF DoneIsFinal, Gone
<1>. QED BY <1>1, <1>2, <1>3, <1>4, CallStepPreserves
         DEF CommittedIsSound, WorkIsSound

LEMMA JournalUploadPreserves ==
  ASSUME IInv, NEW p \in Proc, JournalUpload(p)
  PROVE  IInv'
<1> DEFINE k == task[p].key
           c == task[p].content
           d == Journal(db, k, c)
<1>0. SessionIsOrderly(p) /\ TaskIsOrderly(p) /\ task[p] \in Task
  BY DEF IInv, CallsAreOrderly, TypeOK
<1>1. k \in Key /\ c \in Content /\ objects[k] = c /\ db.gc[k] = "none"
      /\ db \in Catalog /\ Sound(db) /\ Unclaimed(db, k)
  BY <1>0 DEF JournalUpload, CanJournal, Unclaimed, TaskIsOrderly, Uploading, IInv, TypeOK,
              CommittedIsSound
<1> HIDE DEF k, c
<1>2. d \in Catalog /\ Sound(d) /\ Extends(db, d)
  BY <1>1, JournalIsSound
<1>r. RefsHold(d)
  BY <1>1, JournalStaysReferable DEF IInv, ReferencesAreLive
<1>3. Kept(d, objects) /\ (~ LateLanding => Gone(d, objects, flying))
  <2>1. d.gc = db.gc /\ \A l \in Key : d.prepared[l] = IF l = k THEN c ELSE db.prepared[l]
    BY <1>1 DEF Journal, Catalog
  <2>. QED BY <1>1, <2>1 DEF Kept, Gone, IInv, CommittedIsSound, DoneIsFinal
<1>4. TaskIsOrderly(p)'
  <2>1. /\ task'[p].pc = "journaling" /\ task'[p].key = task[p].key
        /\ task'[p].content = task[p].content /\ task'[p].id = task[p].id
        /\ task'[p].meta = task[p].meta /\ task'[p].jobs = task[p].jobs
    BY <1>0 DEF JournalUpload, Goto, IInv, TypeOK, Task
  <2>. QED BY <1>0, <2>1 DEF TaskIsOrderly, JournalUpload, Uploading, Sweeping, store
<1>5. /\ mode[p] # "closed" /\ ~ broken[p] /\ view[p].pc # "reading"
      /\ task[p].pc = "journal"
  BY <1>0 DEF JournalUpload, SessionIsOrderly
<1>6. Begin(p, d) /\ Goto(p, "journaling") /\ UNCHANGED <<session, store>>
  BY DEF JournalUpload, k, c
<1> HIDE DEF d
<1>. QED BY <1>2, <1>r, <1>3, <1>4, <1>5, <1>6, BeginPreserves
         DEF InOwnTransaction, Maintaining

LEMMA FinalizeImportPreserves ==
  ASSUME IInv, NEW p \in Proc, FinalizeImport(p)
  PROVE  IInv'
<1> DEFINE t == task[p]
           e == Finalize(db, t.id, t.key, t.meta)
           d == Publish(e, t.id)
<1>0. SessionIsOrderly(p) /\ TaskIsOrderly(p) /\ task[p] \in Task
  BY DEF IInv, CallsAreOrderly, TypeOK
<1>1. /\ t.id \in Id /\ t.key \in Key /\ t.meta \in Meta
      /\ db \in Catalog /\ Sound(db) /\ CanFinalize(db, t.id, t.key)
  BY <1>0 DEF FinalizeImport, TaskIsOrderly, Uploading, IInv, TypeOK, Task,
              CommittedIsSound
<1>2. Follows(db, e)
  BY <1>1, FinalizeIsSound
<1>3. CanPublish(e, t.id)
  BY <1>1, NoneAssumption DEF CanPublish, Complete, Exists, Finalize, Catalog
<1>4. d \in Catalog /\ Follows(e, d)
  BY <1>1, <1>2, <1>3, PublishIsSound DEF Follows
<1>5. Follows(db, d)
  <2>1. Extends(db, d)
    BY <1>1, <1>2, <1>4, ExtendsIsTransitive DEF Follows
  <2>2. Narrows(db, d)
    BY <1>2, <1>4 DEF Follows, Narrows
  <2>. QED BY <1>4, <2>1, <2>2 DEF Follows
<1>6. /\ mode[p] # "closed" /\ ~ broken[p] /\ view[p].pc # "reading"
      /\ task[p].pc = "final"
  BY <1>0 DEF FinalizeImport, SessionIsOrderly
<1>7. TaskIsOrderly(p)'
  <2>1. /\ task'[p].pc = "finalizing" /\ task'[p].key = task[p].key
        /\ task'[p].content = task[p].content /\ task'[p].id = task[p].id
        /\ task'[p].meta = task[p].meta /\ task'[p].jobs = task[p].jobs
    BY <1>0 DEF FinalizeImport, Goto, IInv, TypeOK, Task
  <2>. QED BY <1>0, <1>6, <2>1 DEF TaskIsOrderly, Uploading, Sweeping
<1>8. Begin(p, d) /\ Goto(p, "finalizing") /\ UNCHANGED <<session, store>>
  BY DEF FinalizeImport
<1>r. RefsHold(d)
  BY <1>1, <1>2, RowsStayReferable DEF IInv, ReferencesAreLive, Follows
<1> HIDE DEF d
<1>9. /\ Sound(d) /\ Extends(db, d) /\ Kept(d, objects)
      /\ ~ LateLanding => Gone(d, objects, flying)
  BY <1>4, <1>5, BeginFromCommitted
<1>. QED BY <1>4, <1>r, <1>6, <1>7, <1>8, <1>9, BeginPreserves
         DEF InOwnTransaction, Maintaining

LEMMA FinalizeFindsOtherPreserves ==
  ASSUME IInv, NEW p \in Proc, FinalizeFindsOther(p)
  PROVE  IInv'
<1>1. /\ mode[p] # "closed" /\ view[p].pc # "reading" /\ writer # p
  BY DEF IInv, CallsAreOrderly, SessionIsOrderly, FinalizeFindsOther, InOwnTransaction
<1>. QED BY <1>1, RaisePreserves DEF FinalizeFindsOther, session, store

LEMMA UploadStepPreserves ==
  ASSUME IInv, NEW p \in Proc, UploadStep(p)
  PROVE  IInv'
<1>1. ASSUME NEW c \in Content, StartPrepare(p, c)
      PROVE  IInv'
  BY <1>1, StartUploadPreserves DEF StartPrepare
<1>2. ASSUME NEW c \in Content, NEW i \in Id, NEW m \in Meta, StartImport(p, i, c, m)
      PROVE  IInv'
  BY <1>2, StartUploadPreserves DEF StartImport
<1>. QED BY <1>1, <1>2, UploadReturnsPreserves, UploadFailsPreserves,
            JournalUploadPreserves, FinalizeImportPreserves,
            FinalizeFindsOtherPreserves
         DEF UploadStep

----------------------------------------------------------------------------
(* Reading.                                                                *)

LEMMA ReadStepPreserves ==
  ASSUME IInv, NEW p \in Proc, ReadStep(p)
  PROVE  IInv'
<1> USE DEF IInv
<1>0. SessionIsOrderly(p) /\ TaskIsOrderly(p)
  BY DEF CallsAreOrderly
<1>1. UNCHANGED <<db, work, writer, failed, mode, broken, task, objects, flying>>
  BY DEF ReadStep, Stat, Fetch, EndView, store
<1>2. \A q \in Proc : q # p => view'[q] = view[q]
  BY DEF ReadStep, Stat, Fetch, EndView, TypeOK
<1> DEFINE Orderly ==
         /\ view'[p] \in View
         /\ view' = [view EXCEPT ![p] = view'[p]]
         /\ mode[p] = "closed" => view'[p].pc = "none"
         /\ broken[p] => view'[p].pc # "reading"
         /\ task[p].pc \in Maintaining => view'[p].pc = "none"
         /\ view'[p].pc = "reading" =>
              /\ task[p].pc = "idle" /\ writer # p
              /\ view'[p].key \in Key
              /\ db.prepared[view'[p].key] # None
              /\ objects[view'[p].key] = db.prepared[view'[p].key]
<1>3. Orderly
  <2>1. ASSUME NEW i \in Id, Stat(p, i) PROVE Orderly
    <3>1. /\ view' = [view EXCEPT ![p] =
               [pc |-> "reading", key |-> db.token[i], content |-> None]]
          /\ AtRest(p) /\ Exists(db, i)
      BY <2>1 DEF Stat, Exists
    <3>2. /\ db.token[i] \in Key /\ db.prepared[db.token[i]] # None
          /\ objects[db.token[i]] = db.prepared[db.token[i]]
      BY <3>1 DEF CommittedIsSound, Sound, Kept
    <3>3. view'[p] = [pc |-> "reading", key |-> db.token[i], content |-> None]
      BY <3>1 DEF TypeOK
    <3>4. view'[p] \in View
      BY <3>2, <3>3 DEF View
    <3>. QED BY <3>1, <3>2, <3>3, <3>4 DEF AtRest, Maintaining, TypeOK
  <2>2. CASE Fetch(p)
    <3>1. view[p] \in View /\ view[p].key \in Key /\ objects[view[p].key] \in Content
      BY <2>2 DEF Fetch, TypeOK, ReadersAreServed
    <3>2. view'[p] = [view[p] EXCEPT !.pc = "open", !.content = objects[view[p].key]]
          /\ view' = [view EXCEPT ![p] = view'[p]]
      BY <2>2 DEF Fetch, TypeOK
    <3>3. view'[p] \in View /\ view'[p].pc = "open"
      BY <3>1, <3>2 DEF View
    <3>. QED BY <1>0, <2>2, <3>2, <3>3 DEF Fetch, SessionIsOrderly, Maintaining
  <2>3. CASE EndView(p)
    <3>1. view'[p] = NoView /\ view' = [view EXCEPT ![p] = view'[p]]
      BY <2>3 DEF EndView, TypeOK
    <3>. QED BY <3>1, IdleFacts
  <2>. QED BY <2>1, <2>2, <2>3 DEF ReadStep
<1>4. TypeOK'
  BY <1>1, <1>3 DEF TypeOK
<1>5. /\ CommittedIsSound' /\ WorkIsSound' /\ ReferencesAreLive' /\ ExclusiveIsAlone'
      /\ UploadsAreNew' /\ DoneIsFinal'
  BY <1>1 DEF CommittedIsSound, WorkIsSound, ReferencesAreLive, RefsHold, ExclusiveIsAlone,
              UploadsAreNew, DoneIsFinal, Awaited
<1>6. CallsAreOrderly'
  <2> SUFFICES ASSUME NEW q \in Proc
               PROVE  SessionIsOrderly(q)' /\ TaskIsOrderly(q)'
    BY DEF CallsAreOrderly
  <2>1. SessionIsOrderly(q) /\ TaskIsOrderly(q)
    BY DEF CallsAreOrderly
  <2>2. TaskIsOrderly(q)'
    BY <1>1, <2>1 DEF TaskIsOrderly
  <2>3. SessionIsOrderly(q)'
    BY <1>1, <1>2, <1>3, <2>1 DEF SessionIsOrderly
  <2>. QED BY <2>2, <2>3
<1>7. ReadersAreServed'
  BY <1>1, <1>2, <1>3 DEF ReadersAreServed
<1>. QED BY <1>4, <1>5, <1>6, <1>7

----------------------------------------------------------------------------
(* Maintenance.                                                            *)

LEMMA QueueOrphanKeysPreserves ==
  ASSUME IInv, NEW p \in Proc, NEW ks \in SUBSET Key, QueueOrphanKeys(p, ks)
  PROVE  IInv'
<1> DEFINE d == QueueOrphans(db, ks)
<1>0. TaskIsOrderly(p) /\ Maintenance(p) /\ AtRest(p)
  BY DEF IInv, CallsAreOrderly, QueueOrphanKeys, Maintenance
<1>1. Follows(db, d)
  BY QueueOrphansIsSound DEF IInv, TypeOK, CommittedIsSound, QueueOrphanKeys
<1>2. TaskIsOrderly(p)'
  <2>1. task[p] = Idle
    BY <1>0 DEF TaskIsOrderly, AtRest
  <2>2. task'[p] = [Idle EXCEPT !.pc = "queueing"]
    BY <2>1 DEF QueueOrphanKeys, Goto, IInv, TypeOK
  <2>3. task'[p].pc = "queueing" /\ task'[p].jobs = {}
    BY <2>2, IdleFacts DEF Task
  <2>. QED BY <2>3 DEF TaskIsOrderly, Uploading, Sweeping
<1>3. Begin(p, d) /\ Goto(p, "queueing") /\ UNCHANGED <<session, store>>
  BY DEF QueueOrphanKeys
<1>r. RefsHold(d)
  BY BatchesStayReferable DEF IInv, TypeOK, ReferencesAreLive
<1> HIDE DEF d
<1>. QED BY <1>0, <1>1, <1>2, <1>3, <1>r, BeginFromCommitted, BeginPreserves
         DEF Maintenance, AtRest, InOwnTransaction, Follows

LEMMA SelectJobsPreserves ==
  ASSUME IInv, NEW p \in Proc, NEW ks \in SUBSET Key, SelectJobs(p, ks)
  PROVE  IInv'
<1> USE DEF IInv, SelectJobs, session, store
<1>0. SessionIsOrderly(p) /\ Maintenance(p) /\ AtRest(p)
  BY DEF CallsAreOrderly, Maintenance
<1>1. /\ task'[p].pc = "clean" /\ task'[p].jobs = ks /\ task'[p] \in Task
      /\ \A q \in Proc : q # p => task'[q] = task[q]
  BY IdleFacts DEF TypeOK, Task, Pc
<1>2. TypeOK' /\ UploadsAreNew'
  BY <1>1 DEF TypeOK, UploadsAreNew
<1>3. SessionIsOrderly(p)' /\ TaskIsOrderly(p)'
  BY <1>0, <1>1, ProcAssumption
  DEF Maintenance, AtRest, SessionIsOrderly, TaskIsOrderly, InOwnTransaction,
      Maintaining, Uploading, Sweeping, Pending
<1>4. DoneIsFinal'
  <2> SUFFICES ASSUME ~ LateLanding PROVE DoneIsFinal'
    BY DEF DoneIsFinal
  <2>1. \A l \in Key : flying'[l] # None => Awaited(l)'
    BY <1>0, <1>1 DEF DoneIsFinal, Awaited, AtRest
  <2>. QED BY <2>1, <1>1 DEF DoneIsFinal, Gone
<1>. QED BY <1>0, <1>1, <1>2, <1>3, <1>4, CallStepPreserves
         DEF AtRest, CommittedIsSound, WorkIsSound

\* The store was asked to delete an object; it may have complied.
LEMMA SweepPreserves ==
  ASSUME IInv, NEW p \in Proc, NEW k \in Key, SweepObject(p, k) \/ SweepFails(p, k)
  PROVE  IInv'
<1> USE DEF IInv
<1>0. /\ SessionIsOrderly(p) /\ TaskIsOrderly(p) /\ task[p] \in Task
      /\ task[p].pc = "clean" /\ k \in task[p].jobs
      /\ UNCHANGED <<db, work, writer, failed, mode, broken, view, flying>>
  BY DEF CallsAreOrderly, TypeOK, SweepObject, SweepFails, session
<1>1. PICK pc \in {"swept", "unswept"} :
        /\ task' = [task EXCEPT ![p].pc = pc, ![p].key = k, ![p].jobs = @ \ {k}]
        /\ pc = "swept" => objects' = [objects EXCEPT ![k] = None]
  BY DEF SweepObject, SweepFails
<1>2. \A l \in Key : (l # k => objects'[l] = objects[l])
                       /\ (objects'[l] = objects[l] \/ objects'[l] = None)
  BY DEF SweepObject, SweepFails, TypeOK
<1>3. /\ task'[p].pc = pc /\ task'[p].key = k
      /\ task'[p].jobs = task[p].jobs \ {k} /\ task'[p] \in Task
      /\ \A q \in Proc : q # p => task'[q] = task[q]
  <2>1. task'[p] = [task[p] EXCEPT !.pc = pc, !.key = k, !.jobs = @ \ {k}]
    BY <1>1 DEF TypeOK
  <2>. QED BY <1>0, <1>1, <2>1 DEF TypeOK, Task, Pc
<1>4. TypeOK' /\ UploadsAreNew'
  <2>1. objects' \in [Key -> Content \cup {None}]
    BY DEF SweepObject, SweepFails, TypeOK
  <2>. QED BY <1>0, <1>1, <1>2, <1>3, <2>1 DEF TypeOK, UploadsAreNew
<1>5. writer # p /\ SessionIsOrderly(p)' /\ TaskIsOrderly(p)'
  BY <1>0, <1>1, <1>3
  DEF SessionIsOrderly, TaskIsOrderly, InOwnTransaction, Maintaining,
      Uploading, Sweeping
<1>6. db.gc[k] = "pending"
  BY <1>0 DEF TaskIsOrderly, Sweeping
<1>7. \A q \in Proc : q # p => mode[q] = "closed"
  BY <1>0 DEF SessionIsOrderly, ExclusiveIsAlone, Maintaining
<1>8. Kept(db, objects')
  BY <1>2, <1>6 DEF CommittedIsSound, Kept
<1>9. writer # None /\ ~ failed => Kept(work, objects')
  BY <1>2, <1>6 DEF WorkIsSound, Kept, Extends
<1>10. DoneIsFinal'
  <2> SUFFICES ASSUME ~ LateLanding PROVE DoneIsFinal'
    BY DEF DoneIsFinal
  <2>1. \A l \in Key : flying'[l] # None => Awaited(l)'
    BY <1>0, <1>3 DEF DoneIsFinal, Awaited
  <2>2. /\ Gone(db, objects, flying)'
        /\ writer' # None /\ ~ failed' => Gone(work, objects, flying)'
    BY <1>0, <1>2 DEF DoneIsFinal, Gone
  <2>3. task'[p].pc = "swept" => objects'[task'[p].key] = None
    BY <1>1, <1>3 DEF TypeOK
  <2>4. \A q \in Proc : q # p => task[q].pc = "idle"
    BY <1>7 DEF CallsAreOrderly, SessionIsOrderly
  <2>. QED BY <1>3, <2>1, <2>2, <2>3, <2>4 DEF DoneIsFinal
<1>11. \A q \in Proc : q # p => task[q].pc = "idle" /\ view[q].pc = "none"
  BY <1>7 DEF CallsAreOrderly, SessionIsOrderly
<1>12. view[p].pc = "none"
  BY <1>0 DEF SessionIsOrderly, Maintaining
<1>. QED BY <1>0, <1>3, <1>4, <1>5, <1>8, <1>9, <1>10, <1>11, <1>12, CallStepPreserves

LEMMA RecordJobPreserves ==
  ASSUME IInv, NEW p \in Proc, RecordJob(p)
  PROVE  IInv'
<1> DEFINE k == task[p].key
           swept == task[p].pc = "swept"
           d == RecordSweep(db, k, swept)
<1>0. /\ SessionIsOrderly(p) /\ TaskIsOrderly(p) /\ task[p] \in Task
      /\ task[p].pc \in {"swept", "unswept"} /\ writer = None
  BY DEF IInv, CallsAreOrderly, TypeOK, RecordJob, Begin
<1>1. /\ k \in Key /\ k \notin task[p].jobs /\ swept \in BOOLEAN
      /\ db \in Catalog /\ Sound(db)
  BY <1>0 DEF TaskIsOrderly, IInv, TypeOK, CommittedIsSound
<1>2. Begin(p, d) /\ Goto(p, "recording") /\ UNCHANGED <<session, store>>
  BY DEF RecordJob
<1>3. ~ LateLanding /\ swept => objects[k] = None /\ flying[k] = None
  <2> SUFFICES ASSUME ~ LateLanding, swept PROVE objects[k] = None /\ flying[k] = None
    OBVIOUS
  <2>1. objects[k] = None
    BY DEF IInv, DoneIsFinal
  <2>2. mode[p] = "exclusive"
    BY <1>0 DEF SessionIsOrderly, Maintaining
  <2>3. \A q \in Proc : task[q].pc # "upload"
    BY <1>0, <2>2 DEF IInv, ExclusiveIsAlone, CallsAreOrderly, SessionIsOrderly
  <2>. QED BY <1>1, <2>1, <2>3 DEF IInv, DoneIsFinal, Awaited
<1> HIDE DEF k, swept
<1>4. /\ d \in Catalog /\ Sound(d) /\ Extends(db, d)
      /\ d.prepared = db.prepared
      /\ \A l \in Key : l # k => d.gc[l] = db.gc[l]
      /\ d.gc[k] # db.gc[k] => swept
      /\ d.gc[k] = "none" <=> db.gc[k] = "none"
  BY <1>1, RecordSweepIsSound
<1>r. RefsHold(d)
  BY <1>1, RecordStaysReferable DEF IInv, ReferencesAreLive
<1> HIDE DEF d
<1>5. Kept(d, objects)
  BY <1>4 DEF Kept, IInv, CommittedIsSound
<1>6. ~ LateLanding => Gone(d, objects, flying)
  BY <1>3, <1>4 DEF Gone, IInv, DoneIsFinal
<1>7. TaskIsOrderly(p)'
  <2>1. task'[p].pc = "recording" /\ task'[p].jobs = task[p].jobs
    BY <1>0, <1>2 DEF Goto, IInv, TypeOK, Task
  <2>2. db' = db /\ work' = d
    BY <1>2 DEF Begin
  <2>3. \A l \in task[p].jobs : l \in Key /\ l # k /\ db.gc[l] = "pending"
    BY <1>0, <1>1 DEF TaskIsOrderly, Sweeping, Task
  <2>. QED BY <1>4, <2>1, <2>2, <2>3 DEF TaskIsOrderly, Uploading, Sweeping
<1>8. /\ mode[p] = "exclusive" /\ ~ broken[p] /\ view[p].pc = "none"
  BY <1>0 DEF SessionIsOrderly, Maintaining
<1>. QED BY <1>0, <1>2, <1>r, <1>4, <1>5, <1>6, <1>7, <1>8, BeginPreserves
         DEF InOwnTransaction

LEMMA MaintenanceStepPreserves ==
  ASSUME IInv, NEW p \in Proc, MaintenanceStep(p)
  PROVE  IInv'
BY QueueOrphanKeysPreserves, SelectJobsPreserves, SweepPreserves, RecordJobPreserves
DEF MaintenanceStep

----------------------------------------------------------------------------
(* Migrations.                                                             *)

\* A migration's transaction leaves journal, jobs and objects as they were.
LEMMA EvolvingPreserves ==
  ASSUME IInv, NEW p \in Proc, NEW d, Follows(db, d), RefsHold(d),
         AtRest(p), Begin(p, d), Goto(p, "evolving"), UNCHANGED <<session, store>>
  PROVE  IInv'
<1>1. TaskIsOrderly(p)'
  <2>1. task[p] = Idle
    BY DEF IInv, CallsAreOrderly, TaskIsOrderly, AtRest
  <2>2. task'[p] = [Idle EXCEPT !.pc = "evolving"]
    BY <2>1 DEF Goto, IInv, TypeOK
  <2>3. task'[p].pc = "evolving" /\ task'[p].jobs = {}
    BY <2>2, IdleFacts DEF Task
  <2>. QED BY <2>3 DEF TaskIsOrderly, Uploading, Sweeping
<1>2. /\ d \in Catalog /\ Sound(d) /\ Extends(db, d) /\ Kept(d, objects)
      /\ ~ LateLanding => Gone(d, objects, flying)
  BY BeginFromCommitted DEF Follows
<1>. QED BY <1>1, <1>2, BeginPreserves DEF AtRest, InOwnTransaction, Maintaining

LEMMA EvolutionStepPreserves ==
  ASSUME IInv, NEW p \in Proc, EvolutionStep(p)
  PROVE  IInv'
<1>0. db \in Catalog /\ Sound(db) /\ RefsHold(db)
  BY DEF IInv, TypeOK, CommittedIsSound, ReferencesAreLive
<1>1. CASE StartMigration(p)
  <2>1. Follows(db, Supersede(db)) /\ RefsHold(Supersede(db))
    BY <1>0, <1>1, SupersedeIsSound, BatchesStayReferable DEF StartMigration
  <2>. QED BY <1>1, <2>1, EvolvingPreserves DEF StartMigration
<1>2. ASSUME NEW is \in SUBSET Id, NEW f \in [is -> Meta], MigrateBatch(p, is, f)
      PROVE  IInv'
  <2>1. Follows(db, Batch(db, is, f)) /\ RefsHold(Batch(db, is, f))
    BY <1>0, <1>2, BatchIsSound, BatchesStayReferable DEF MigrateBatch
  <2>. QED BY <1>2, <2>1, EvolvingPreserves DEF MigrateBatch
<1>. QED BY <1>1, <1>2 DEF EvolutionStep

----------------------------------------------------------------------------
(* The invariant, and what follows from it.                                *)

LEMMA NextPreservesIInv == IInv /\ [Next]_vars => IInv'
<1> SUFFICES ASSUME IInv, [Next]_vars PROVE IInv'
  OBVIOUS
<1>1. CASE UNCHANGED vars
  BY <1>1
  DEF vars, IInv, TypeOK, CommittedIsSound, WorkIsSound, ExclusiveIsAlone,
      CallsAreOrderly, SessionIsOrderly, TaskIsOrderly, ReadersAreServed,
      ReferencesAreLive, RefsHold, UploadsAreNew, DoneIsFinal, Awaited
<1>2. ASSUME NEW k \in Key, Land(k) PROVE IInv'
  BY <1>2, LandPreserves
<1>3. ASSUME NEW p \in Proc, SessionStep(p) PROVE IInv'
  BY <1>3, OpenPreserves, ClosePreserves, CrashPreserves DEF SessionStep
<1>4. ASSUME NEW p \in Proc, TransactionEnds(p) PROVE IInv'
  BY <1>4, CommitPreserves, CommitFailsPreserves, RollbackPreserves,
     BeginFailsPreserves, GiveUpPreserves DEF TransactionEnds
<1>5. ASSUME NEW p \in Proc, BeginTx(p) \/ TxStep(p) PROVE IInv'
  BY <1>5, BeginTxPreserves, TxStepPreserves
<1>6. ASSUME NEW p \in Proc, UploadStep(p) \/ ReadStep(p) \/ MaintenanceStep(p)
      PROVE  IInv'
  BY <1>6, UploadStepPreserves, ReadStepPreserves, MaintenanceStepPreserves
<1>7. ASSUME NEW p \in Proc, EvolutionStep(p) PROVE IInv'
  BY <1>7, EvolutionStepPreserves
<1>. QED BY <1>1, <1>2, <1>3, <1>4, <1>5, <1>6, <1>7 DEF Next

\* The invariant of BlobLifecycleInv holds of every behaviour: no interleaving
\* of calls, failed commits, crashes and late uploads leaves the catalog and
\* the store out of step (Store, _Lifecycle and _Maintenance together).
THEOREM InvariantHolds == Spec => []IInv
<1>1. Init => IInv
  BY InitEstablishesIInv
<1>2. IInv /\ [Next]_vars => IInv'
  BY NextPreservesIInv
<1>. QED BY <1>1, <1>2, PTL DEF Spec

\* Every variable keeps its type, in particular the metadata version stays
\* within its range however updates and retirements interleave.
THEOREM TypeCorrect == Spec => []TypeOK
<1>1. IInv => TypeOK
  BY DEF IInv
<1>. QED BY <1>1, InvariantHolds, PTL

\* A visible blob always has its metadata, its journal entry and exactly the
\* bytes of its upload: cleanup never removes what a committed row names.
THEOREM BlobsAreNeverDangling == Spec => []NoDangling
<1>1. IInv => NoDangling
  <2> SUFFICES ASSUME IInv, NEW i \in Id, Exists(db, i)
               PROVE  /\ Complete(db, i)
                      /\ db.prepared[db.token[i]] # None
                      /\ db.gc[db.token[i]] = "none"
                      /\ objects[db.token[i]] = db.prepared[db.token[i]]
    BY DEF NoDangling
  <2>1. /\ db.token[i] \in Key /\ db.meta[i] \in Meta
        /\ db.prepared[db.token[i]] # None /\ db.gc[db.token[i]] = "none"
    BY DEF IInv, CommittedIsSound, Sound
  <2>2. objects[db.token[i]] = db.prepared[db.token[i]]
    BY <2>1 DEF IInv, CommittedIsSound, Kept
  <2>. QED BY <2>1, <2>2, NoneAssumption DEF Complete
<1>. QED BY <1>1, InvariantHolds, PTL

\* A materialization that has read a ready record finds the recorded bytes,
\* although it reads them after its transaction and others go on meanwhile.
THEOREM ReadsAreStable == Spec => []StableReads
<1>1. IInv => StableReads
  BY DEF IInv, ReadersAreServed, StableReads
<1>. QED BY <1>1, InvariantHolds, PTL

\* A key queued as an orphan never has a journal row, before or after: the
\* two-sided check of queue_orphans and ms_fresh_object_key suffices.
THEOREM OrphansAreUnknown == Spec => []OrphansStayUnknown
<1>1. IInv => OrphansStayUnknown
  BY DEF IInv, CommittedIsSound, Sound, OrphansStayUnknown
<1>. QED BY <1>1, InvariantHolds, PTL

\* With a store that drops uploads their caller gave up, a cleanup job marked
\* done has no object left, whatever was retried or crashed on the way.
THEOREM DoneJobsAreGone == Spec => [](~ LateLanding => DoneMeansGone)
<1>1. IInv => (~ LateLanding => DoneMeansGone)
  BY DEF IInv, DoneIsFinal, Gone, DoneMeansGone
<1>. QED BY <1>1, InvariantHolds, PTL

\* Objects change when an upload lands or a job is swept, and at no other time.
LEMMA WhoChangesObjects ==
  ASSUME IInv, [Next]_vars
  PROVE  \/ objects' = objects
         \/ \E k \in Key : Land(k)
         \/ \E p \in Proc, k \in Key : SweepObject(p, k) \/ SweepFails(p, k)
<1>1. ASSUME NEW p \in Proc, SessionStep(p) \/ TransactionEnds(p)
      PROVE  objects' = objects
  BY <1>1 DEF SessionStep, TransactionEnds, OpenShared, OpenExclusive,
     Close, Crash, Leave, Commit, CommitFails, Rollback, RollbackFails,
     BeginFails, GiveUp, session, store
<1>2. ASSUME NEW p \in Proc, BeginTx(p) \/ TxStep(p)
      PROVE  objects' = objects
  BY <1>2 DEF BeginTx, TxStep, TxFinalize, TxPublish, TxLink, TxUnlink,
     TxDelete, TxUpdate, TxDiscard, TxRefused, Apply, Poison, session, store
<1>3. ASSUME NEW p \in Proc, UploadStep(p) \/ ReadStep(p)
      PROVE  objects' = objects
  BY <1>3 DEF UploadStep, ReadStep, StartPrepare, StartImport, StartUpload,
     UploadReturns, UploadFails, JournalUpload, FinalizeImport,
     FinalizeFindsOther, Stat, Fetch, EndView, session, store
<1>4. ASSUME NEW p \in Proc, RecordJob(p)
             \/ \E ks \in SUBSET Key : QueueOrphanKeys(p, ks) \/ SelectJobs(p, ks)
      PROVE  objects' = objects
  BY <1>4 DEF RecordJob, QueueOrphanKeys, SelectJobs, session, store
<1>5. ASSUME NEW p \in Proc, EvolutionStep(p)
      PROVE  objects' = objects
  BY <1>5 DEF EvolutionStep, StartMigration, MigrateBatch, store
<1>. QED BY <1>1, <1>2, <1>3, <1>4, <1>5 DEF Next, MaintenanceStep, vars

LEMMA SweptKeysWereQueued ==
  ASSUME IInv, [Next]_vars, NEW k \in Key, objects[k] # None, objects'[k] = None
  PROVE  /\ db.gc[k] = "pending"
         /\ \A p, q \in Proc : mode[p] = "exclusive" /\ mode[q] # "closed" => p = q
         /\ \E p \in Proc : mode[p] = "exclusive"
<1>1. \E p \in Proc : SweepObject(p, k) \/ SweepFails(p, k)
  <2>1. objects' # objects
    OBVIOUS
  <2>2. ASSUME NEW l \in Key, Land(l) PROVE FALSE
    BY <2>2 DEF Land, IInv, TypeOK
  <2>3. ASSUME NEW p \in Proc, NEW l \in Key, SweepObject(p, l) \/ SweepFails(p, l)
        PROVE  l = k
    BY <2>3 DEF SweepObject, SweepFails, IInv, TypeOK
  <2>. QED BY <2>1, <2>2, <2>3, WhoChangesObjects
<1>2. PICK p \in Proc : task[p].pc = "clean" /\ k \in task[p].jobs
  BY <1>1 DEF SweepObject, SweepFails
<1>3. SessionIsOrderly(p) /\ TaskIsOrderly(p)
  BY DEF IInv, CallsAreOrderly
<1>. QED BY <1>2, <1>3
         DEF SessionIsOrderly, TaskIsOrderly, Maintaining, Sweeping, IInv,
             ExclusiveIsAlone

\* Bytes disappear only under an exclusive lease and for a job that a committed
\* transaction queued: cleanup acts on what its first transaction validated.
THEOREM OnlyQueuedKeysAreSwept == Spec => SweptOnlyWhenQueued
<1>1. IInv /\ [Next]_vars =>
        [\A k \in Key : objects[k] # None /\ objects'[k] = None =>
           /\ db.gc[k] = "pending"
           /\ \A p, q \in Proc : mode[p] = "exclusive" /\ mode[q] # "closed" => p = q
           /\ \E p \in Proc : mode[p] = "exclusive"]_vars
  BY SweptKeysWereQueued
<1>. QED BY <1>1, InvariantHolds, PTL DEF Spec, SweptOnlyWhenQueued

----------------------------------------------------------------------------
(* Calls take only so many steps.                                          *)

\* A step of p moves p's call forward, if it is in one, and nobody else's.
Advances(p) ==
  /\ \A q \in Proc : q # p => task'[q] = task[q]
  /\ \/ task[p].pc \in {"idle", "tx"}
     \/ task'[p] = task[p]
     \/ Forward(task[p], task'[p])

\* A call that returns or raises.
LEMMA ReturningAdvances ==
  ASSUME IInv, NEW p \in Proc, task' = [task EXCEPT ![p] = Idle]
  PROVE  Advances(p)
BY DEF IInv, TypeOK, Advances, Forward

\* A call at a later stage, with the jobs it had.
LEMMA StageAdvances ==
  ASSUME IInv, NEW p \in Proc, NEW pc, Goto(p, pc), Stage[pc] > Stage[task[p].pc]
  PROVE  Advances(p)
<1>0. task \in [Proc -> Task]
  BY DEF IInv, TypeOK
<1>1. /\ \A q \in Proc : q # p => task'[q] = task[q]
      /\ task'[p].pc = pc /\ task'[p].jobs = task[p].jobs
  BY <1>0 DEF Goto, Task
<1>. QED BY <1>1 DEF Advances, Forward

LEMMA StagesFollow ==
  /\ Stage["journal"] > Stage["upload"] /\ Stage["journaling"] > Stage["journal"]
  /\ Stage["final"] > Stage["journaling"] /\ Stage["finalizing"] > Stage["final"]
  /\ Stage["recording"] > Stage["swept"] /\ Stage["recording"] > Stage["unswept"]
  /\ Stage["clean"] > Stage["recording"]
BY DEF Stage

LEMMA EndsAdvance ==
  ASSUME IInv, NEW p \in Proc, SessionStep(p) \/ TransactionEnds(p)
  PROVE  task' = task \/ Advances(p)
<1>1. CASE SessionStep(p)
  <2>1. task' = task \/ task' = [task EXCEPT ![p] = Idle]
    BY <1>1 DEF SessionStep, OpenShared, OpenExclusive, Close, Crash, Leave
  <2>. QED BY <2>1, ReturningAdvances
<1>2. CASE Commit(p)
  <2> DEFINE t == task[p]
  <2>1. t \in Task /\ task \in [Proc -> Task]
    BY DEF IInv, TypeOK
  <2>2. /\ task'[p] = Resume(t)
        /\ \A q \in Proc : q # p => task'[q] = task[q]
    BY <1>2, <2>1 DEF Commit
  <2>3. CASE t.pc = "journaling" /\ t.id # None
    <3>1. Resume(t) = [t EXCEPT !.pc = "final"]
      BY <2>3 DEF Resume
    <3>2. Resume(t).pc = "final" /\ Resume(t).jobs = t.jobs
      BY <2>1, <3>1 DEF Task
    <3>. QED BY <2>2, <2>3, <3>2, StagesFollow DEF Advances, Forward
  <2>4. CASE t.pc = "recording" /\ t.jobs # {}
    <3>1. Resume(t) = [t EXCEPT !.pc = "clean", !.key = None]
      BY <2>4 DEF Resume
    <3>2. Resume(t).pc = "clean" /\ Resume(t).jobs = t.jobs
      BY <2>1, <3>1 DEF Task
    <3>. QED BY <2>2, <2>4, <3>2, StagesFollow DEF Advances, Forward
  <2>5. CASE ~ (t.pc = "journaling" /\ t.id # None) /\ ~ (t.pc = "recording" /\ t.jobs # {})
    <3>1. Resume(t) = Idle
      BY <2>5 DEF Resume
    <3>. QED BY <2>2, <3>1 DEF Advances, Forward
  <2>. QED BY <2>3, <2>4, <2>5
<1>3. CASE \/ CommitFails(p) \/ Rollback(p) \/ RollbackFails(p)
           \/ BeginFails(p) \/ GiveUp(p)
  BY <1>3, ReturningAdvances
  DEF CommitFails, Rollback, RollbackFails, BeginFails, GiveUp, Quarantine, Return
<1>. QED BY <1>1, <1>2, <1>3 DEF TransactionEnds

LEMMA UploadsAdvance ==
  ASSUME IInv, NEW p \in Proc, UploadStep(p)
  PROVE  Advances(p)
<1>0. task \in [Proc -> Task]
  BY DEF IInv, TypeOK
<1>1. ASSUME NEW i \in Id \cup {None}, NEW c \in Content, NEW m \in Meta \cup {None},
             StartUpload(p, i, c, m)
      PROVE  Advances(p)
  BY <1>0, <1>1 DEF StartUpload, AtRest, Advances
<1>2. CASE UploadFails(p) \/ FinalizeFindsOther(p)
  BY <1>2, ReturningAdvances DEF UploadFails, FinalizeFindsOther, Return
<1>3. CASE UploadReturns(p)
  BY <1>3, StageAdvances, StagesFollow DEF UploadReturns
<1>4. CASE JournalUpload(p)
  BY <1>4, StageAdvances, StagesFollow DEF JournalUpload
<1>5. CASE FinalizeImport(p)
  BY <1>5, StageAdvances, StagesFollow DEF FinalizeImport
<1>. QED BY <1>1, <1>2, <1>3, <1>4, <1>5 DEF UploadStep, StartPrepare, StartImport

\* A cleanup takes each object up once.
LEMMA MaintenanceAdvances ==
  ASSUME IInv, NEW p \in Proc, MaintenanceStep(p)
  PROVE  Advances(p)
<1>0. task \in [Proc -> Task]
  BY DEF IInv, TypeOK
<1>1. ASSUME NEW ks \in SUBSET Key, QueueOrphanKeys(p, ks) \/ SelectJobs(p, ks)
      PROVE  Advances(p)
  BY <1>0, <1>1 DEF QueueOrphanKeys, SelectJobs, Maintenance, AtRest, Goto, Advances
<1>2. ASSUME NEW k \in Key, SweepObject(p, k) \/ SweepFails(p, k)
      PROVE  Advances(p)
  <2>1. /\ k \in task[p].jobs
        /\ \A q \in Proc : q # p => task'[q] = task[q]
        /\ task'[p].jobs = task[p].jobs \ {k}
    BY <1>0, <1>2 DEF SweepObject, SweepFails, Task
  <2>. QED BY <2>1 DEF Advances, Forward
<1>3. CASE RecordJob(p)
  BY <1>3, StageAdvances, StagesFollow DEF RecordJob
<1>. QED BY <1>1, <1>2, <1>3 DEF MaintenanceStep

\* No failure and no interference sends a call back to what it has done.
THEOREM CallsAdvance == Spec => CallsGoForward
<1> DEFINE Ahead == \A p \in Proc :
       task[p].pc \notin {"idle", "tx"} /\ task'[p] # task[p] =>
         Forward(task[p], task'[p])
<1>1. IInv /\ [Next]_vars => Ahead
  <2>1. SUFFICES ASSUME IInv, [Next]_vars PROVE Ahead
    OBVIOUS
  <2>2. ASSUME NEW p \in Proc, BeginTx(p) \/ TxStep(p)
        PROVE  task' = task \/ Advances(p)
    <3>1. CASE BeginTx(p)
      BY <3>1 DEF BeginTx, AtRest, Goto, IInv, TypeOK, Advances
    <3>2. CASE TxStep(p)
      BY <3>2 DEF TxStep, TxFinalize, TxPublish, TxLink, TxUnlink, TxDelete, TxUpdate,
                  TxDiscard, TxRefused, Apply, Poison
    <3>. QED BY <2>2, <3>1, <3>2
  <2>3. ASSUME NEW p \in Proc, ReadStep(p)
        PROVE  task' = task
    BY <2>3 DEF ReadStep, Stat, Fetch, EndView
  <2>m. ASSUME NEW p \in Proc, EvolutionStep(p)
        PROVE  Advances(p)
    <3>1. task' = [task EXCEPT ![p].pc = "evolving"] /\ task[p].pc = "idle"
      BY <2>m DEF EvolutionStep, StartMigration, MigrateBatch, AtRest, Goto
    <3>. QED BY <2>1, <3>1 DEF IInv, TypeOK, Advances
  <2>4. ASSUME NEW k \in Key, Land(k)
        PROVE  task' = task
    BY <2>4 DEF Land
  <2>5. task' = task \/ \E p \in Proc : Advances(p)
    BY <2>1, <2>2, <2>3, <2>4, <2>m, EndsAdvance, UploadsAdvance, MaintenanceAdvances
    DEF Next, vars
  <2>. QED BY <2>5 DEF Advances
<1>2. IInv /\ [Next]_vars => [Ahead]_vars
  BY <1>1
<1>. QED BY <1>2, InvariantHolds, PTL DEF Spec, CallsGoForward

----------------------------------------------------------------------------
(* Ids, tokens and calls over time.                                        *)

Recorded == {"journaling", "final", "finalizing"}

LEMMA InitEstablishesHInv == Init => HInv
<1> SUFFICES ASSUME Init PROVE HInv
  OBVIOUS
<1>1. RowsAreOrderly(db) /\ writer = None
  BY EmptyIsOrderly DEF Init
<1>2. \A p \in Proc : UploadIsRecorded(p)
  BY IdleFacts DEF Init, UploadIsRecorded
<1>3. UploadsAreWelcome
  BY IdleFacts DEF Init, UploadsAreWelcome, Claiming
<1>. QED BY <1>1, <1>2, <1>3, InitEstablishesIInv DEF HInv, HistoryIsKept

\* Who is in a transaction of its own is the writer.
LEMMA WriterIsOne ==
  ASSUME IInv, NEW p \in Proc, task[p].pc \in {"journaling", "finalizing"}
  PROVE  writer = p /\ writer # None
BY ProcAssumption DEF IInv, CallsAreOrderly, SessionIsOrderly, InOwnTransaction

\* Steps that write neither the catalog nor the journaled upload of a call.
LEMMA HistoryStands ==
  ASSUME HInv, IInv', db' = db,
         writer' = None \/ UNCHANGED <<writer, work, failed>>,
         \A q \in Proc : task'[q] = task[q] \/ task'[q].pc \notin Recorded
  PROVE  HistoryIsKept'
<1>1. HistoryIsKept
  BY DEF HInv
<1>2. ASSUME NEW q \in Proc
      PROVE  UploadIsRecorded(q)'
  <2>1. CASE task'[q].pc \notin Recorded
    BY <2>1 DEF UploadIsRecorded, Recorded
  <2>2. CASE task'[q] = task[q] /\ task'[q].pc = "final"
    BY <1>1, <2>2 DEF UploadIsRecorded, HistoryIsKept
  <2>3. CASE task'[q] = task[q] /\ task'[q].pc \in {"journaling", "finalizing"}
    <3>1. writer' # None
      BY <2>3, ProcAssumption
      DEF IInv, CallsAreOrderly, SessionIsOrderly, InOwnTransaction
    <3>. QED BY <1>1, <2>3, <3>1 DEF UploadIsRecorded, HistoryIsKept
  <2>. QED BY <2>1, <2>2, <2>3 DEF Recorded
<1>. QED BY <1>1, <1>2 DEF HistoryIsKept

\* A transaction begins with what is committed, or with what its statements made
\* of that.
LEMMA HistoryBegins ==
  ASSUME HInv, NEW p \in Proc, NEW d, Begin(p, d), Onward(db, d),
         \A q \in Proc : q # p => task'[q] = task[q],
         UploadIsRecorded(p)'
  PROVE  HistoryIsKept'
<1>1. HistoryIsKept /\ IInv /\ writer = None /\ work' = d /\ db' = db
  BY DEF HInv, Begin
<1>2. ASSUME NEW q \in Proc, q # p
      PROVE  UploadIsRecorded(q)'
  <2>1. task'[q] = task[q] /\ task[q].pc \notin {"journaling", "finalizing"}
    BY <1>1, <1>2, WriterIsOne
  <2>. QED BY <1>1, <2>1 DEF UploadIsRecorded, HistoryIsKept
<1>. QED BY <1>1, <1>2 DEF HistoryIsKept, Onward

\* What is committed comes of what was.
LEMMA HistoryCommits ==
  ASSUME HInv, NEW p \in Proc, writer = p, ~ failed, db' = work, writer' = None,
         \A q \in Proc : q # p => task'[q] = task[q],
         \/ task'[p].pc \notin Recorded
         \/ task[p].pc = "journaling" /\ task'[p] = [task[p] EXCEPT !.pc = "final"]
  PROVE  HistoryIsKept'
<1>1. HistoryIsKept /\ IInv /\ writer # None
  BY ProcAssumption DEF HInv
<1>2. ASSUME NEW q \in Proc, q # p
      PROVE  UploadIsRecorded(q)'
  <2>1. task'[q] = task[q] /\ task[q].pc \notin {"journaling", "finalizing"}
    BY <1>1, <1>2, WriterIsOne
  <2>2. ASSUME task[q].pc = "final"
        PROVE  /\ work.prepared[task[q].key] = task[q].content
               /\ work.tokenSchema[task[q].key] = task[q].schema
    <3>1. /\ task[q].key \in Key /\ task[q].content \in Content
          /\ db.prepared[task[q].key] = task[q].content
          /\ db.tokenSchema[task[q].key] = task[q].schema
      BY <1>1, <2>2 DEF IInv, CallsAreOrderly, TaskIsOrderly, Uploading,
                        HistoryIsKept, UploadIsRecorded
    <3>. QED BY <1>1, <3>1, NoneAssumption DEF IInv, WorkIsSound, Extends
  <2>. QED BY <2>1, <2>2 DEF UploadIsRecorded
<1>3. UploadIsRecorded(p)'
  <2>1. CASE task'[p].pc \notin Recorded
    BY <2>1 DEF UploadIsRecorded, Recorded
  <2>2. CASE task[p].pc = "journaling" /\ task'[p] = [task[p] EXCEPT !.pc = "final"]
    <3>1. /\ task'[p].pc = "final" /\ task'[p].key = task[p].key
          /\ task'[p].content = task[p].content /\ task'[p].schema = task[p].schema
      BY <1>1, <2>2 DEF IInv, TypeOK, Task
    <3>. QED BY <1>1, <2>2, <3>1 DEF HistoryIsKept, UploadIsRecorded
  <2>. QED BY <2>1, <2>2
<1>. QED BY <1>1, <1>2, <1>3 DEF HistoryIsKept

LEMMA SessionsKeepHistory ==
  ASSUME HInv, IInv', NEW p \in Proc, SessionStep(p)
  PROVE  HistoryIsKept'
<1>1. CASE OpenShared(p) \/ OpenExclusive(p)
  BY <1>1, HistoryStands DEF OpenShared, OpenExclusive
<1>2. CASE Leave(p)
  <2>1. /\ db' = db
        /\ writer' = None \/ UNCHANGED <<writer, work, failed>>
        /\ task' = [task EXCEPT ![p] = Idle]
    BY <1>2 DEF Leave, Release
  <2>2. \A q \in Proc : task'[q] = task[q] \/ task'[q].pc \notin Recorded
    BY <2>1, IdleFacts DEF HInv, IInv, TypeOK, Recorded
  <2>. QED BY <2>1, <2>2, HistoryStands DEF Leave
<1>. QED BY <1>1, <1>2 DEF SessionStep, Close, Crash

\* A call that ends, or a transaction that is undone, records nothing new.
LEMMA EndsKeepHistory ==
  ASSUME HInv, IInv', NEW p \in Proc, TransactionEnds(p)
  PROVE  HistoryIsKept'
<1> DEFINE Others == \A q \in Proc : q # p => task'[q] = task[q]
           Ended == task' = [task EXCEPT ![p] = Idle]
<1>0. ASSUME Ended
      PROVE  Others /\ task'[p].pc \notin Recorded
             /\ \A q \in Proc : task'[q] = task[q] \/ task'[q].pc \notin Recorded
  BY <1>0, IdleFacts DEF HInv, IInv, TypeOK, Recorded
<1>1. CASE Commit(p)
  <2>1. /\ writer = p /\ ~ failed /\ db' = work /\ writer' = None
        /\ task' = [task EXCEPT ![p] = Resume(task[p])]
    BY <1>1 DEF Commit, Release
  <2>2. Others /\ task'[p] = Resume(task[p])
    BY <2>1 DEF HInv, IInv, TypeOK
  <2>3. \/ Resume(task[p]).pc \notin Recorded
        \/ task[p].pc = "journaling" /\ Resume(task[p]) = [task[p] EXCEPT !.pc = "final"]
    <3>1. task[p] \in Task
      BY DEF HInv, IInv, TypeOK
    <3>2. [task[p] EXCEPT !.pc = "clean", !.key = None].pc = "clean"
      BY <3>1 DEF Task
    <3>. QED BY <3>2, IdleFacts DEF Resume, Recorded
  <2>. QED BY <2>1, <2>2, <2>3, HistoryCommits
<1>2. CASE CommitFails(p)
  <2>1. /\ writer = p /\ ~ failed /\ Ended
        /\ \/ db' = work /\ writer' = None
           \/ db' = db /\ (writer' = None \/ UNCHANGED <<writer, work, failed>>)
    BY <1>2 DEF CommitFails, Quarantine, Return, PerhapsRelease, Release
  <2>2. CASE db' = work /\ writer' = None
    BY <1>0, <2>1, <2>2, HistoryCommits
  <2>3. CASE db' = db /\ (writer' = None \/ UNCHANGED <<writer, work, failed>>)
    BY <1>0, <2>1, <2>3, HistoryStands
  <2>. QED BY <2>1, <2>2, <2>3
<1>3. CASE Rollback(p) \/ RollbackFails(p) \/ GiveUp(p)
  <2>1. /\ Ended /\ db' = db
        /\ writer' = None \/ UNCHANGED <<writer, work, failed>>
    BY <1>3 DEF Rollback, RollbackFails, GiveUp, Quarantine, Return,
                PerhapsRelease, Release
  <2>. QED BY <1>0, <2>1, HistoryStands
<1>4. CASE BeginFails(p)
  <2>1. /\ Ended
        /\ Begin(p, db) \/ UNCHANGED <<db, work, writer, failed>>
    BY <1>4 DEF BeginFails, Quarantine, Return
  <2>2. Onward(db, db)
    BY SucceedsItself DEF HInv, IInv, TypeOK, HistoryIsKept
  <2>3. UploadIsRecorded(p)'
    BY <1>0, <2>1 DEF UploadIsRecorded, Recorded
  <2>4. CASE Begin(p, db)
    BY <1>0, <2>1, <2>2, <2>3, <2>4, HistoryBegins
  <2>5. CASE UNCHANGED <<db, work, writer, failed>>
    BY <1>0, <2>1, <2>5, HistoryStands
  <2>. QED BY <2>1, <2>4, <2>5
<1>. QED BY <1>1, <1>2, <1>3, <1>4 DEF TransactionEnds

\* One operation of a transaction in progress.
LEMMA TxKeepsHistory ==
  ASSUME HInv, NEW p \in Proc, BeginTx(p) \/ TxStep(p)
  PROVE  HistoryIsKept'
<1>1. CASE BeginTx(p)
  <2>1. Onward(db, db)
    BY SucceedsItself DEF HInv, IInv, TypeOK, HistoryIsKept
  <2>2. /\ \A q \in Proc : q # p => task'[q] = task[q]
        /\ task'[p].pc = "tx"
    BY <1>1 DEF BeginTx, Goto, HInv, IInv, TypeOK, Task
  <2>3. UploadIsRecorded(p)'
    BY <2>2 DEF UploadIsRecorded
  <2>. QED BY <1>1, <2>1, <2>2, <2>3, HistoryBegins DEF BeginTx
<1>2. CASE TxStep(p)
  <2>1. /\ writer = p /\ ~ failed /\ task[p].pc = "tx" /\ writer # None
        /\ UNCHANGED <<db, writer, task>>
    BY <1>2, ProcAssumption
    DEF TxStep, TxFinalize, TxPublish, TxLink, TxUnlink, TxDelete, TxUpdate,
        TxDiscard, TxRefused, Apply, Poison, Within
  <2>2. \A q \in Proc : task[q].pc \notin {"journaling", "finalizing"}
    BY <2>1, WriterIsOne DEF HInv
  <2>3. \A q \in Proc : UploadIsRecorded(q)'
    BY <2>1, <2>2 DEF UploadIsRecorded, HInv, HistoryIsKept
  <2>4. /\ db \in Catalog /\ work \in Catalog /\ Sound(work) /\ Onward(db, work)
    BY <2>1 DEF HInv, IInv, TypeOK, WorkIsSound, HistoryIsKept, Onward
  <2>5. failed' \/ Onward(db, work')
    <3>1. ASSUME NEW i \in Id, NEW k \in Key, NEW m \in Meta, TxFinalize(p, i, k, m)
          PROVE  failed' \/ Onward(db, work')
      BY <2>4, <3>1, FinalizeGoesOnward DEF TxFinalize, Apply, Poison
    <3>2. ASSUME NEW i \in Id, TxPublish(p, i)
          PROVE  Onward(db, work')
      BY <2>4, <3>2, PublishGoesOnward DEF TxPublish, Apply
    <3>3. ASSUME NEW i \in Id, TxLink(p, i) \/ TxUnlink(p, i)
          PROVE  Onward(db, work')
      <4>1. /\ work'.status = work.status /\ work'.token = work.token
            /\ work'.meta = work.meta /\ work'.version = work.version
            /\ work'.reason = work.reason /\ work'.rowSchema = work.rowSchema
            /\ work'.latest = work.latest /\ work'.migrating = work.migrating
        BY <2>4, <3>3 DEF TxLink, TxUnlink, Apply, Catalog
      <4>. QED BY <2>4, <4>1, SameRowsGoOnward
    <3>4. ASSUME NEW i \in Id, NEW v \in 1 .. MaxVersion, TxDelete(p, i, v)
          PROVE  failed' \/ Onward(db, work')
      BY <2>4, <3>4, DeleteGoesOnward DEF TxDelete, CanDelete, Apply, Poison
    <3>5. ASSUME NEW i \in Id, NEW v \in 1 .. MaxVersion, NEW m \in Meta,
                 TxUpdate(p, i, v, m)
          PROVE  Onward(db, work')
      BY <2>4, <3>5, UpdateMetadataGoesOnward DEF TxUpdate, Apply
    <3>6. ASSUME NEW k \in Key, TxDiscard(p, k)
          PROVE  Onward(db, work')
      BY <2>4, <3>6, QueueGoesOnward DEF TxDiscard, Apply
    <3>7. CASE TxRefused(p)
      BY <3>7 DEF TxRefused, Poison
    <3>. QED BY <1>2, <3>1, <3>2, <3>3, <3>4, <3>5, <3>6, <3>7 DEF TxStep
  <2>. QED BY <2>1, <2>3, <2>5 DEF HInv, HistoryIsKept, Onward
<1>. QED BY <1>1, <1>2

\* An upload is journaled under the key and with the payload of its call, and
\* the last transaction of an import makes the blob it was asked for.
LEMMA UploadsKeepHistory ==
  ASSUME HInv, IInv', NEW p \in Proc, UploadStep(p)
  PROVE  HistoryIsKept'
<1> DEFINE t == task[p]
<1>0. /\ db \in Catalog /\ Sound(db) /\ RowsAreOrderly(db) /\ Onward(db, db)
      /\ t \in Task /\ TaskIsOrderly(p) /\ UploadIsRecorded(p)
  BY SucceedsItself DEF HInv, IInv, TypeOK, CommittedIsSound, HistoryIsKept, CallsAreOrderly
<1>1. ASSUME NEW i \in Id \cup {None}, NEW c \in Content, NEW m \in Meta \cup {None},
             StartUpload(p, i, c, m)
      PROVE  HistoryIsKept'
  <2>1. /\ UNCHANGED <<db, work, writer, failed>>
        /\ \A q \in Proc : task'[q] = task[q] \/ task'[q].pc \notin Recorded
    BY <1>1 DEF StartUpload, HInv, IInv, TypeOK, Recorded
  <2>. QED BY <2>1, HistoryStands
<1>2. CASE UploadReturns(p) \/ UploadFails(p) \/ FinalizeFindsOther(p)
  <2>1. /\ UNCHANGED <<db, work, writer, failed>>
        /\ \/ task' = [task EXCEPT ![p].pc = "journal"]
           \/ task' = [task EXCEPT ![p] = Idle]
    BY <1>2 DEF UploadReturns, UploadFails, FinalizeFindsOther, Goto, Return
  <2>2. \A q \in Proc : task'[q] = task[q] \/ task'[q].pc \notin Recorded
    BY <2>1, IdleFacts DEF HInv, IInv, TypeOK, Task, Recorded
  <2>. QED BY <2>1, <2>2, HistoryStands
<1>3. CASE JournalUpload(p)
  <2> DEFINE d == Journal(db, t.key, t.content)
  <2>1. /\ t.pc = "journal" /\ Begin(p, d) /\ t.schema = db.latest
        /\ task' = [task EXCEPT ![p].pc = "journaling"]
    BY <1>3 DEF JournalUpload, CanJournal, Goto
  <2>2. t.key \in Key /\ t.content \in Content
    BY <1>0, <2>1 DEF TaskIsOrderly, Uploading
  <2>3. Onward(db, d)
    BY <1>0, <2>2, JournalGoesOnward
  <2>4. d.prepared[t.key] = t.content /\ d.tokenSchema[t.key] = t.schema
    BY <1>0, <2>1, <2>2, CatalogFields DEF Journal, Catalog
  <2>5. /\ \A q \in Proc : q # p => task'[q] = task[q]
        /\ task'[p].pc = "journaling" /\ task'[p].key = t.key
        /\ task'[p].content = t.content /\ task'[p].schema = t.schema
    BY <2>1 DEF HInv, IInv, TypeOK, Task
  <2>6. UploadIsRecorded(p)'
    BY <2>1, <2>4, <2>5 DEF UploadIsRecorded, Begin
  <2> HIDE DEF d
  <2>. QED BY <2>1, <2>3, <2>5, <2>6, HistoryBegins
<1>4. CASE FinalizeImport(p)
  <2> DEFINE e == Finalize(db, t.id, t.key, t.meta)
             d == Publish(e, t.id)
  <2>1. /\ t.pc = "final" /\ Begin(p, d) /\ CanFinalize(db, t.id, t.key)
        /\ task' = [task EXCEPT ![p].pc = "finalizing"]
    BY <1>4 DEF FinalizeImport, Goto
  <2>2. /\ t.key \in Key /\ t.id \in Id /\ t.meta \in Meta
        /\ db.prepared[t.key] = t.content /\ db.tokenSchema[t.key] = t.schema
    BY <1>0, <2>1 DEF TaskIsOrderly, Uploading, UploadIsRecorded, Task
  <2>11. db.latest = t.schema
    BY <2>1, <2>2 DEF CanFinalize
  <2>3. e \in Catalog /\ Onward(db, e)
    BY <1>0, <2>1, <2>2, FinalizeIsSound, FinalizeGoesOnward DEF Follows
  <2>4. /\ e.status[t.id] = "publishing" /\ e.token[t.id] = t.key
        /\ e.meta[t.id] = t.meta /\ e.prepared = db.prepared
        /\ e.rowSchema[t.id] = t.schema /\ e.tokenSchema = db.tokenSchema
        /\ e.latest = t.schema
    BY <1>0, <2>2, <2>11, CatalogFields DEF Finalize, Catalog
  <2>5. CanPublish(e, t.id)
    BY <2>2, <2>4, NoneAssumption DEF CanPublish, Complete, Exists
  <2>6. /\ d.status[t.id] = "ready" /\ d.token = e.token /\ d.meta = e.meta
        /\ d.prepared = e.prepared /\ d.rowSchema = e.rowSchema
        /\ d.tokenSchema = e.tokenSchema /\ d.latest = e.latest
    <3> HIDE DEF e
    <3>. QED BY <2>2, <2>3, CatalogFields DEF Publish, Catalog
  <2>7. Onward(db, d)
    <3> HIDE DEF e
    <3>. QED BY <1>0, <2>2, <2>3, <2>5, PublishGoesOnward
  <2>8. /\ \A q \in Proc : q # p => task'[q] = task[q]
        /\ task'[p].pc = "finalizing" /\ task'[p].key = t.key
        /\ task'[p].content = t.content /\ task'[p].id = t.id
        /\ task'[p].meta = t.meta /\ task'[p].schema = t.schema
    BY <2>1 DEF HInv, IInv, TypeOK, Task
  <2>9. work' = d
    BY <2>1 DEF Begin
  <2> HIDE DEF d, e
  <2>10. UploadIsRecorded(p)'
    BY <2>2, <2>4, <2>6, <2>8, <2>9 DEF UploadIsRecorded
  <2>. QED BY <2>1, <2>7, <2>8, <2>10, HistoryBegins
<1>. QED BY <1>1, <1>2, <1>3, <1>4 DEF UploadStep, StartPrepare, StartImport

LEMMA MaintenanceKeepsHistory ==
  ASSUME HInv, IInv', NEW p \in Proc, MaintenanceStep(p)
  PROVE  HistoryIsKept'
<1>0. /\ db \in Catalog /\ Sound(db) /\ Onward(db, db) /\ TaskIsOrderly(p)
  BY SucceedsItself DEF HInv, IInv, TypeOK, CommittedIsSound, HistoryIsKept, CallsAreOrderly
<1>1. ASSUME NEW d, NEW pc \in {"queueing", "recording"}, Begin(p, d), Goto(p, pc),
             Onward(db, d)
      PROVE  HistoryIsKept'
  <2>1. /\ \A q \in Proc : q # p => task'[q] = task[q]
        /\ task'[p].pc = pc
    BY <1>1 DEF Goto, HInv, IInv, TypeOK, Task
  <2>2. UploadIsRecorded(p)'
    BY <2>1 DEF UploadIsRecorded
  <2>. QED BY <1>1, <2>1, <2>2, HistoryBegins
<1>2. ASSUME NEW ks \in SUBSET Key, QueueOrphanKeys(p, ks)
      PROVE  HistoryIsKept'
  BY <1>0, <1>1, <1>2, QueueGoesOnward DEF QueueOrphanKeys
<1>3. CASE RecordJob(p)
  <2>1. task[p].key \in Key /\ (task[p].pc = "swept") \in BOOLEAN
    BY <1>0, <1>3 DEF RecordJob, TaskIsOrderly
  <2>2. Onward(db, RecordSweep(db, task[p].key, task[p].pc = "swept"))
    BY <1>0, <2>1, QueueGoesOnward
  <2>. QED BY <1>1, <1>3, <2>2 DEF RecordJob
<1>4. ASSUME UNCHANGED <<db, work, writer, failed>>,
             NEW t, task' = [task EXCEPT ![p] = t],
             t.pc \in {"clean", "swept", "unswept"}
      PROVE  HistoryIsKept'
  <2>1. \A q \in Proc : task'[q] = task[q] \/ task'[q].pc \notin Recorded
    BY <1>4 DEF HInv, IInv, TypeOK, Recorded
  <2>. QED BY <1>4, <2>1, HistoryStands
<1>5. ASSUME NEW ks \in SUBSET Key, SelectJobs(p, ks)
      PROVE  HistoryIsKept'
  <2>1. [Idle EXCEPT !.pc = "clean", !.jobs = ks].pc = "clean"
    BY IdleFacts DEF Idle
  <2>. QED BY <1>4, <1>5, <2>1 DEF SelectJobs
<1>6. ASSUME NEW k \in Key, SweepObject(p, k) \/ SweepFails(p, k)
      PROVE  HistoryIsKept'
  <2>1. PICK pc \in {"swept", "unswept"} :
          task' = [task EXCEPT ![p] =
                     [task[p] EXCEPT !.pc = pc, !.key = k, !.jobs = @ \ {k}]]
    BY <1>6 DEF SweepObject, SweepFails
  <2>2. [task[p] EXCEPT !.pc = pc, !.key = k, !.jobs = @ \ {k}].pc = pc
    BY DEF HInv, IInv, TypeOK, Task
  <2>. QED BY <1>4, <1>6, <2>1, <2>2 DEF SweepObject, SweepFails
<1>. QED BY <1>2, <1>3, <1>5, <1>6 DEF MaintenanceStep

\* A migration's transaction finds no upload being recorded.
LEMMA EvolutionKeepsHistory ==
  ASSUME HInv, NEW p \in Proc, EvolutionStep(p)
  PROVE  HistoryIsKept'
<1>0. /\ db \in Catalog /\ Sound(db) /\ Onward(db, db)
  BY SucceedsItself DEF HInv, IInv, TypeOK, CommittedIsSound, HistoryIsKept
<1>1. ASSUME NEW d, Begin(p, d), Goto(p, "evolving"), Onward(db, d)
      PROVE  HistoryIsKept'
  <2>1. /\ \A q \in Proc : q # p => task'[q] = task[q]
        /\ task'[p].pc = "evolving"
    BY <1>1 DEF Goto, HInv, IInv, TypeOK, Task
  <2>2. UploadIsRecorded(p)'
    BY <2>1 DEF UploadIsRecorded
  <2>. QED BY <1>1, <2>1, <2>2, HistoryBegins
<1>2. CASE StartMigration(p)
  BY <1>0, <1>1, <1>2, SupersedeGoesOnward DEF StartMigration
<1>3. ASSUME NEW is \in SUBSET Id, NEW f \in [is -> Meta], MigrateBatch(p, is, f)
      PROVE  HistoryIsKept'
  BY <1>0, <1>1, <1>3, BatchGoesOnward DEF MigrateBatch
<1>. QED BY <1>2, <1>3 DEF EvolutionStep

----------------------------------------------------------------------------
(* Uploads that have no journal row yet.                                   *)

\* Nobody starts an upload.
NoNewClaims ==
  \A q \in Proc : task'[q].pc \in Claiming =>
    /\ task[q].pc \in Claiming
    /\ task'[q].key = task[q].key
    /\ task[q].pc = "journaling" => task'[q].pc = "journaling"

\* Whoever waits for the end of an upload or of the lock is not disturbed.
WorkSpares(d) ==
  \A q \in Proc : task'[q].pc \in {"upload", "journal"} => Unclaimed(d, task[q].key)

\* A commit, a new transaction or an operation in one.
LEMMA ClaimsStand ==
  ASSUME HInv, NoNewClaims,
         db' = db \/ (writer # None /\ ~ failed /\ db' = work),
         writer' = None \/ failed' \/ UNCHANGED <<writer, work, failed>> \/ WorkSpares(work')
  PROVE  UploadsAreWelcome'
<1>1. ASSUME NEW q \in Proc, task'[q].pc \in {"upload", "journal"}
      PROVE  /\ Unclaimed(db', task'[q].key)
             /\ writer' # None /\ ~ failed' => Unclaimed(work', task'[q].key)
  <2>1. /\ task[q].pc \in {"upload", "journal"} /\ task'[q].key = task[q].key
    BY <1>1 DEF NoNewClaims, Claiming
  <2>2. /\ Unclaimed(db, task[q].key)
        /\ writer # None /\ ~ failed => Unclaimed(work, task[q].key)
    BY <2>1 DEF HInv, UploadsAreWelcome
  <2>3. Unclaimed(db', task'[q].key)
    BY <2>1, <2>2
  <2>4. ASSUME writer' # None, ~ failed'
        PROVE  Unclaimed(work', task'[q].key)
    BY <1>1, <2>1, <2>2, <2>4 DEF WorkSpares
  <2>. QED BY <2>3, <2>4
<1>2. ASSUME NEW p \in Proc, NEW q \in Proc, task'[p].pc \in Claiming,
             task'[q].pc \in Claiming, task'[p].key = task'[q].key
      PROVE  p = q
  BY <1>2 DEF NoNewClaims, HInv, UploadsAreWelcome
<1>. QED BY <1>1, <1>2 DEF UploadsAreWelcome, Unclaimed

\* No operation of an application's transaction takes a key without a row.
LEMMA OperationsSpare ==
  ASSUME NEW d \in Catalog, Sound(d), NEW l \in Key, Unclaimed(d, l)
  PROVE  /\ \A i \in Id, k \in Key, m \in Meta : Unclaimed(Finalize(d, i, k, m), l)
         /\ \A i \in Id : Unclaimed(Publish(d, i), l)
         /\ \A i \in Id, m \in Meta : Unclaimed(UpdateMetadata(d, i, m), l)
         /\ \A i \in Id : Complete(d, i) => Unclaimed(Delete(d, i), l)
         /\ \A k \in Key : d.prepared[k] # None => Unclaimed(Discard(d, k), l)
         /\ \A r \in SUBSET Id : Unclaimed([d EXCEPT !.refs = r], l)
         /\ \A k \in Key, c \in Content : k # l => Unclaimed(Journal(d, k, c), l)
<1>1. ASSUME NEW i \in Id, NEW k \in Key, NEW m \in Meta
      PROVE  Unclaimed(Finalize(d, i, k, m), l)
  BY DEF Finalize, Unclaimed, Catalog
<1>2. ASSUME NEW i \in Id
      PROVE  Unclaimed(Publish(d, i), l)
  BY DEF Publish, Unclaimed, Catalog
<1>3. ASSUME NEW i \in Id, NEW m \in Meta
      PROVE  Unclaimed(UpdateMetadata(d, i, m), l)
  BY DEF UpdateMetadata, Unclaimed, Catalog
<1>4. ASSUME NEW i \in Id, Complete(d, i)
      PROVE  Unclaimed(Delete(d, i), l)
  <2>1. d.token[i] \in Key /\ d.token[i] # l
    BY <1>4 DEF Complete, Sound, Unclaimed
  <2>2. /\ Delete(d, i).prepared = d.prepared
        /\ Delete(d, i).gc[l] = d.gc[l]
    BY <2>1 DEF Delete, DeleteRefused, Catalog
  <2>. QED BY <2>2 DEF Unclaimed
<1>5. ASSUME NEW k \in Key, d.prepared[k] # None
      PROVE  Unclaimed(Discard(d, k), l)
  <2>1. k # l
    BY <1>5 DEF Unclaimed
  <2>. QED BY <2>1 DEF Discard, Queue, Unclaimed, Catalog
<1>6. ASSUME NEW r \in SUBSET Id
      PROVE  Unclaimed([d EXCEPT !.refs = r], l)
  BY DEF Unclaimed, Catalog
<1>7. ASSUME NEW k \in Key, NEW c \in Content, k # l
      PROVE  Unclaimed(Journal(d, k, c), l)
  BY <1>7 DEF Journal, Unclaimed, Catalog
<1>. QED BY <1>1, <1>2, <1>3, <1>4, <1>5, <1>6, <1>7

\* A call that does not go on with its upload.
LEMMA OthersClaimsStand ==
  ASSUME HInv, NEW p \in Proc, NEW t, task' = [task EXCEPT ![p] = t],
         t.pc \notin Claiming
  PROVE  NoNewClaims
BY DEF NoNewClaims, HInv, IInv, TypeOK

LEMMA SessionsWelcomeUploads ==
  ASSUME HInv, NEW p \in Proc, SessionStep(p)
  PROVE  UploadsAreWelcome'
<1>1. CASE OpenShared(p) \/ OpenExclusive(p)
  <2>1. NoNewClaims /\ UNCHANGED <<db, writer, work, failed>>
    BY <1>1 DEF OpenShared, OpenExclusive, NoNewClaims
  <2>. QED BY <2>1, ClaimsStand
<1>2. CASE Leave(p)
  <2>1. /\ task' = [task EXCEPT ![p] = Idle] /\ db' = db
        /\ writer' = None \/ UNCHANGED <<writer, work, failed>>
    BY <1>2 DEF Leave, Release
  <2>2. NoNewClaims
    BY <2>1, IdleFacts, OthersClaimsStand DEF Claiming
  <2>. QED BY <2>1, <2>2, ClaimsStand
<1>. QED BY <1>1, <1>2 DEF SessionStep, Close, Crash

LEMMA EndsWelcomeUploads ==
  ASSUME HInv, NEW p \in Proc, TransactionEnds(p)
  PROVE  UploadsAreWelcome'
<1> DEFINE Ended == task' = [task EXCEPT ![p] = Idle]
<1>0. ASSUME Ended
      PROVE  NoNewClaims
  BY <1>0, IdleFacts, OthersClaimsStand DEF Claiming
<1>1. CASE Commit(p)
  <2>1. /\ writer # None /\ ~ failed /\ db' = work /\ writer' = None
        /\ task' = [task EXCEPT ![p] = Resume(task[p])]
    BY <1>1, ProcAssumption DEF Commit, Release
  <2>2. Resume(task[p]).pc \notin Claiming
    <3>1. task[p] \in Task
      BY DEF HInv, IInv, TypeOK
    <3>2. /\ [task[p] EXCEPT !.pc = "clean", !.key = None].pc = "clean"
          /\ [task[p] EXCEPT !.pc = "final"].pc = "final"
      BY <3>1 DEF Task
    <3>. QED BY <3>2, IdleFacts DEF Resume, Claiming
  <2>3. NoNewClaims
    BY <2>1, <2>2, OthersClaimsStand
  <2>. QED BY <2>1, <2>3, ClaimsStand
<1>2. CASE CommitFails(p)
  <2>1. /\ Ended
        /\ db' = db \/ (writer # None /\ ~ failed /\ db' = work)
        /\ writer' = None \/ UNCHANGED <<writer, work, failed>>
    BY <1>2, ProcAssumption DEF CommitFails, Quarantine, Return, PerhapsRelease, Release
  <2>. QED BY <1>0, <2>1, ClaimsStand
<1>3. CASE Rollback(p) \/ RollbackFails(p) \/ GiveUp(p)
  <2>1. /\ Ended /\ db' = db
        /\ writer' = None \/ UNCHANGED <<writer, work, failed>>
    BY <1>3 DEF Rollback, RollbackFails, GiveUp, Quarantine, Return,
                PerhapsRelease, Release
  <2>. QED BY <1>0, <2>1, ClaimsStand
<1>4. CASE BeginFails(p)
  <2>1. /\ Ended /\ db' = db
        /\ work' = db \/ UNCHANGED <<writer, work, failed>>
    BY <1>4 DEF BeginFails, Quarantine, Return, Begin
  <2>2. WorkSpares(db)
    BY <1>0, <2>1 DEF WorkSpares, NoNewClaims, Claiming, HInv, UploadsAreWelcome
  <2>. QED BY <1>0, <2>1, <2>2, ClaimsStand
<1>. QED BY <1>1, <1>2, <1>3, <1>4 DEF TransactionEnds

LEMMA TxWelcomesUploads ==
  ASSUME HInv, NEW p \in Proc, BeginTx(p) \/ TxStep(p)
  PROVE  UploadsAreWelcome'
<1>1. CASE BeginTx(p)
  <2>1. /\ db' = db /\ work' = db
        /\ task' = [task EXCEPT ![p] = [task[p] EXCEPT !.pc = "tx"]]
        /\ [task[p] EXCEPT !.pc = "tx"].pc = "tx"
    BY <1>1 DEF BeginTx, Begin, Goto, HInv, IInv, TypeOK, Task
  <2>2. NoNewClaims
    BY <2>1, OthersClaimsStand DEF Claiming
  <2>3. WorkSpares(db)
    BY <2>2 DEF WorkSpares, NoNewClaims, Claiming, HInv, UploadsAreWelcome
  <2>. QED BY <2>1, <2>2, <2>3, ClaimsStand
<1>2. CASE TxStep(p)
  <2>1. /\ writer = p /\ ~ failed /\ writer # None /\ UNCHANGED <<db, writer, task>>
    BY <1>2, ProcAssumption
    DEF TxStep, TxFinalize, TxPublish, TxLink, TxUnlink, TxDelete, TxUpdate,
        TxDiscard, TxRefused, Apply, Poison, Within
  <2>2. work \in Catalog /\ Sound(work)
    BY <2>1 DEF HInv, IInv, TypeOK, WorkIsSound
  <2>3. ASSUME NEW l \in Key, Unclaimed(work, l)
        PROVE  failed' \/ Unclaimed(work', l)
    <3>1. ASSUME NEW i \in Id, NEW k \in Key, NEW m \in Meta, TxFinalize(p, i, k, m)
          PROVE  failed' \/ Unclaimed(work', l)
      BY <2>2, <2>3, <3>1, OperationsSpare DEF TxFinalize, Apply, Poison
    <3>2. ASSUME NEW i \in Id, TxPublish(p, i)
          PROVE  Unclaimed(work', l)
      BY <2>2, <2>3, <3>2, OperationsSpare DEF TxPublish, Apply
    <3>3. ASSUME NEW i \in Id, TxLink(p, i) \/ TxUnlink(p, i)
          PROVE  Unclaimed(work', l)
      <4>1. work'.prepared = work.prepared /\ work'.gc = work.gc
        BY <2>2, <3>3 DEF TxLink, TxUnlink, Apply, Catalog
      <4>. QED BY <2>3, <4>1 DEF Unclaimed
    <3>4. ASSUME NEW i \in Id, NEW v \in 1 .. MaxVersion, TxDelete(p, i, v)
          PROVE  failed' \/ Unclaimed(work', l)
      BY <2>2, <2>3, <3>4, OperationsSpare DEF TxDelete, CanDelete, Apply, Poison
    <3>5. ASSUME NEW i \in Id, NEW v \in 1 .. MaxVersion, NEW m \in Meta,
                 TxUpdate(p, i, v, m)
          PROVE  Unclaimed(work', l)
      BY <2>2, <2>3, <3>5, OperationsSpare DEF TxUpdate, Apply
    <3>6. ASSUME NEW k \in Key, TxDiscard(p, k)
          PROVE  Unclaimed(work', l)
      BY <2>2, <2>3, <3>6, OperationsSpare DEF TxDiscard, CanDiscard, Apply
    <3>7. CASE TxRefused(p)
      BY <3>7 DEF TxRefused, Poison
    <3>. QED BY <1>2, <3>1, <3>2, <3>3, <3>4, <3>5, <3>6, <3>7 DEF TxStep
  <2>4. ASSUME ~ failed'
        PROVE  WorkSpares(work')
    <3>1. SUFFICES ASSUME NEW q \in Proc, task'[q].pc \in {"upload", "journal"}
                   PROVE  Unclaimed(work', task[q].key)
      BY DEF WorkSpares
    <3>2. task[q].key \in Key /\ Unclaimed(work, task[q].key)
      BY <2>1, <3>1
      DEF HInv, UploadsAreWelcome, IInv, CallsAreOrderly, TaskIsOrderly, Uploading
    <3>. QED BY <2>3, <2>4, <3>2
  <2>5. NoNewClaims
    BY <2>1 DEF NoNewClaims
  <2>. QED BY <2>1, <2>4, <2>5, ClaimsStand
<1>. QED BY <1>1, <1>2

\* A fresh key is nobody's, and the row a call writes is of its own key.
LEMMA UploadsWelcomeUploads ==
  ASSUME HInv, NEW p \in Proc, UploadStep(p)
  PROVE  UploadsAreWelcome'
<1> DEFINE t == task[p]
<1>0. /\ db \in Catalog /\ Sound(db) /\ t \in Task /\ TaskIsOrderly(p)
      /\ task \in [Proc -> Task] /\ UploadsAreWelcome
  BY DEF HInv, IInv, TypeOK, CommittedIsSound, CallsAreOrderly
<1>1. ASSUME NEW i \in Id \cup {None}, NEW c \in Content, NEW m \in Meta \cup {None},
             StartUpload(p, i, c, m)
      PROVE  UploadsAreWelcome'
  <2>1. PICK k \in Key : Fresh(k) /\
          task' = [task EXCEPT ![p] =
            [pc |-> "upload", id |-> i, key |-> k, content |-> c,
             meta |-> m, schema |-> db.latest, jobs |-> {}]]
    BY <1>1 DEF StartUpload
  <2>2. /\ UNCHANGED <<db, work, writer, failed>> /\ writer = None
        /\ Unclaimed(db, k) /\ \A q \in Proc : task[q].key # k
    BY <1>1, <2>1 DEF StartUpload, Fresh, Unclaimed
  <2>3. /\ task'[p].pc = "upload" /\ task'[p].key = k
        /\ \A q \in Proc : q # p => task'[q] = task[q]
    BY <1>0, <2>1
  <2>4. ASSUME NEW q \in Proc, task'[q].pc \in {"upload", "journal"}
        PROVE  Unclaimed(db, task'[q].key)
    BY <1>0, <2>2, <2>3, <2>4 DEF UploadsAreWelcome
  <2>5. ASSUME NEW a \in Proc, NEW b \in Proc, task'[a].pc \in Claiming,
               task'[b].pc \in Claiming, task'[a].key = task'[b].key
        PROVE  a = b
    BY <1>0, <2>2, <2>3, <2>5 DEF UploadsAreWelcome
  <2>. QED BY <2>2, <2>4, <2>5 DEF UploadsAreWelcome, Unclaimed
<1>2. CASE UploadFails(p) \/ FinalizeFindsOther(p)
  <2>1. /\ UNCHANGED <<db, work, writer, failed>>
        /\ task' = [task EXCEPT ![p] = Idle]
    BY <1>2 DEF UploadFails, FinalizeFindsOther, Return
  <2>2. NoNewClaims
    BY <2>1, IdleFacts, OthersClaimsStand DEF Claiming
  <2>. QED BY <2>1, <2>2, ClaimsStand
<1>3. CASE UploadReturns(p)
  <2>1. /\ UNCHANGED <<db, work, writer, failed>> /\ t.pc = "upload"
        /\ task' = [task EXCEPT ![p].pc = "journal"]
    BY <1>3 DEF UploadReturns, Goto
  <2>2. NoNewClaims
    BY <1>0, <2>1 DEF NoNewClaims, Claiming, Task
  <2>. QED BY <2>1, <2>2, ClaimsStand
<1>4. CASE JournalUpload(p)
  <2> DEFINE d == Journal(db, t.key, t.content)
  <2>1. /\ t.pc = "journal" /\ Begin(p, d)
        /\ task' = [task EXCEPT ![p].pc = "journaling"]
    BY <1>4 DEF JournalUpload, Goto
  <2>2. t.key \in Key /\ t.content \in Content
    BY <1>0, <2>1 DEF TaskIsOrderly, Uploading
  <2>3. /\ task'[p].pc = "journaling" /\ task'[p].key = t.key
        /\ \A q \in Proc : q # p => task'[q] = task[q]
    BY <1>0, <2>1 DEF Task
  <2>4. NoNewClaims
    BY <2>1, <2>3 DEF NoNewClaims, Claiming
  <2>5. ASSUME NEW q \in Proc, task'[q].pc \in {"upload", "journal"}
        PROVE  Unclaimed(d, task[q].key)
    <3>1. q # p /\ task[q].pc \in {"upload", "journal"}
      BY <2>3, <2>5
    <3>2. task[q].key \in Key /\ Unclaimed(db, task[q].key) /\ task[q].key # t.key
      BY <1>0, <2>1, <3>1
      DEF UploadsAreWelcome, Claiming, HInv, IInv, CallsAreOrderly, TaskIsOrderly, Uploading
    <3>. QED BY <1>0, <2>2, <3>2, OperationsSpare
  <2>6. WorkSpares(d)
    BY <2>5 DEF WorkSpares
  <2> HIDE DEF d
  <2>7. db' = db /\ work' = d
    BY <2>1 DEF Begin
  <2>. QED BY <2>4, <2>6, <2>7, ClaimsStand
<1>5. CASE FinalizeImport(p)
  <2> DEFINE e == Finalize(db, t.id, t.key, t.meta)
             d == Publish(e, t.id)
  <2>1. /\ t.pc = "final" /\ db' = db /\ work' = d
        /\ task' = [task EXCEPT ![p] = [t EXCEPT !.pc = "finalizing"]]
        /\ [t EXCEPT !.pc = "finalizing"].pc = "finalizing"
    BY <1>0, <1>5 DEF FinalizeImport, Goto, Begin, Task
  <2>2. NoNewClaims
    BY <2>1, OthersClaimsStand DEF Claiming
  <2>3. d.prepared = db.prepared /\ d.gc = db.gc
    BY <1>0 DEF Publish, Finalize, Catalog
  <2> HIDE DEF d
  <2>4. WorkSpares(d)
    BY <1>0, <2>2, <2>3 DEF WorkSpares, NoNewClaims, Claiming, UploadsAreWelcome, Unclaimed
  <2>. QED BY <2>1, <2>2, <2>4, ClaimsStand
<1>. QED BY <1>1, <1>2, <1>3, <1>4, <1>5 DEF UploadStep, StartPrepare, StartImport

\* While somebody maintains nobody uploads, so what has an object and no row is
\* an orphan.
LEMMA MaintenanceWelcomesUploads ==
  ASSUME HInv, NEW p \in Proc, MaintenanceStep(p)
  PROVE  UploadsAreWelcome'
<1>0. /\ task \in [Proc -> Task] /\ TaskIsOrderly(p) /\ SessionIsOrderly(p)
      /\ ExclusiveIsAlone
  BY DEF HInv, IInv, TypeOK, CallsAreOrderly
<1>1. mode[p] = "exclusive" /\ task[p].pc \notin Claiming
  BY <1>0
  DEF MaintenanceStep, QueueOrphanKeys, SelectJobs, SweepObject, SweepFails, RecordJob,
      Maintenance, AtRest, SessionIsOrderly, Maintaining, Claiming
<1>2. \A q \in Proc : q # p => task[q].pc = "idle"
  BY <1>0, <1>1 DEF ExclusiveIsAlone, HInv, IInv, CallsAreOrderly, SessionIsOrderly
<1>3. /\ \A q \in Proc : q # p => task'[q] = task[q]
      /\ task'[p].pc \notin Claiming
  <2>1. ASSUME NEW ks \in SUBSET Key, QueueOrphanKeys(p, ks)
        PROVE  /\ \A q \in Proc : q # p => task'[q] = task[q]
               /\ task'[p].pc = "queueing"
    BY <1>0, <2>1 DEF QueueOrphanKeys, Goto, Task
  <2>2. ASSUME NEW ks \in SUBSET Key, SelectJobs(p, ks)
        PROVE  /\ \A q \in Proc : q # p => task'[q] = task[q]
               /\ task'[p].pc = "clean"
    <3>1. [Idle EXCEPT !.pc = "clean", !.jobs = ks].pc = "clean"
      BY IdleFacts DEF Task
    <3>. QED BY <1>0, <2>2, <3>1 DEF SelectJobs
  <2>3. ASSUME NEW k \in Key, SweepObject(p, k) \/ SweepFails(p, k)
        PROVE  /\ \A q \in Proc : q # p => task'[q] = task[q]
               /\ task'[p].pc \in {"swept", "unswept"}
    BY <1>0, <2>3 DEF SweepObject, SweepFails, Task
  <2>4. ASSUME RecordJob(p)
        PROVE  /\ \A q \in Proc : q # p => task'[q] = task[q]
               /\ task'[p].pc = "recording"
    BY <1>0, <2>4 DEF RecordJob, Goto, Task
  <2>. QED BY <2>1, <2>2, <2>3, <2>4 DEF MaintenanceStep, Claiming
<1>4. NoNewClaims
  BY <1>3 DEF NoNewClaims
<1>5. WorkSpares(work')
  BY <1>2, <1>3 DEF WorkSpares, Claiming
<1>6. db' = db
  BY DEF MaintenanceStep, QueueOrphanKeys, SelectJobs, SweepObject, SweepFails, RecordJob,
         Begin
<1>. QED BY <1>4, <1>5, <1>6, ClaimsStand

\* A migration knows nothing of keys.
LEMMA EvolutionWelcomesUploads ==
  ASSUME HInv, NEW p \in Proc, EvolutionStep(p)
  PROVE  UploadsAreWelcome'
<1>0. db \in Catalog /\ task \in [Proc -> Task]
  BY DEF HInv, IInv, TypeOK
<1>1. PICK d : /\ Begin(p, d) /\ Goto(p, "evolving")
               /\ d.prepared = db.prepared /\ d.gc = db.gc
  <2>1. CASE StartMigration(p)
    <3>1. Supersede(db).prepared = db.prepared /\ Supersede(db).gc = db.gc
      BY <1>0 DEF Supersede, Catalog
    <3>. QED BY <2>1, <3>1 DEF StartMigration
  <2>2. ASSUME NEW is \in SUBSET Id, NEW f \in [is -> Meta], MigrateBatch(p, is, f)
        PROVE  \E d : /\ Begin(p, d) /\ Goto(p, "evolving")
                      /\ d.prepared = db.prepared /\ d.gc = db.gc
    BY <1>0, <2>2, BatchFields DEF MigrateBatch
  <2>. QED BY <2>1, <2>2 DEF EvolutionStep
<1>2. NoNewClaims
  <2>1. /\ task' = [task EXCEPT ![p] = [task[p] EXCEPT !.pc = "evolving"]]
        /\ [task[p] EXCEPT !.pc = "evolving"].pc = "evolving"
    BY <1>0, <1>1 DEF Goto, Task
  <2>. QED BY <2>1, OthersClaimsStand DEF Claiming
<1>3. WorkSpares(d)
  BY <1>1, <1>2 DEF WorkSpares, NoNewClaims, Claiming, HInv, UploadsAreWelcome, Unclaimed
<1>. QED BY <1>1, <1>2, <1>3, ClaimsStand DEF Begin

----------------------------------------------------------------------------

LEMMA NextPreservesHInv == HInv /\ [Next]_vars => HInv'
<1> SUFFICES ASSUME HInv, [Next]_vars PROVE HInv'
  OBVIOUS
<1>1. IInv'
  BY NextPreservesIInv DEF HInv
<1>2. ASSUME UNCHANGED <<db, work, writer, failed, task>>
      PROVE  HistoryIsKept' /\ UploadsAreWelcome'
  BY <1>1, <1>2, HistoryStands, ClaimsStand DEF NoNewClaims
<1>3. ASSUME NEW k \in Key, Land(k)
      PROVE  UNCHANGED <<db, work, writer, failed, task>>
  BY <1>3 DEF Land
<1>4. ASSUME NEW p \in Proc, ReadStep(p)
      PROVE  UNCHANGED <<db, work, writer, failed, task>>
  BY <1>4 DEF ReadStep, Stat, Fetch, EndView
<1>5. HistoryIsKept'
  BY <1>1, <1>2, <1>3, <1>4, SessionsKeepHistory, EndsKeepHistory, TxKeepsHistory,
     UploadsKeepHistory, MaintenanceKeepsHistory, EvolutionKeepsHistory DEF Next, vars
<1>6. UploadsAreWelcome'
  BY <1>2, <1>3, <1>4, SessionsWelcomeUploads, EndsWelcomeUploads, TxWelcomesUploads,
     UploadsWelcomeUploads, MaintenanceWelcomesUploads, EvolutionWelcomesUploads
  DEF Next, vars
<1>. QED BY <1>1, <1>5, <1>6 DEF HInv

\* The committed catalog changes when a transaction in which nothing failed
\* takes effect, and nothing else changes with it that a reader could see.
LEMMA WhoChangesTheCatalog ==
  ASSUME IInv, [Next]_vars
  PROVE  \/ db' = db
         \/ \E p \in Proc : /\ writer = p /\ ~ failed /\ db' = work
                            /\ UNCHANGED <<objects, view>>
<1>1. ASSUME NEW p \in Proc, Commit(p) \/ CommitFails(p)
      PROVE  \/ db' = db
             \/ writer = p /\ ~ failed /\ db' = work /\ UNCHANGED <<objects, view>>
  BY <1>1 DEF Commit, CommitFails, Quarantine, session, store
<1>2. ASSUME NEW p \in Proc,
             SessionStep(p) \/ Rollback(p) \/ RollbackFails(p) \/ BeginFails(p) \/ GiveUp(p)
      PROVE  db' = db
  BY <1>2 DEF SessionStep, OpenShared, OpenExclusive, Close, Crash, Leave, Rollback,
     RollbackFails, BeginFails, GiveUp, Begin
<1>3. ASSUME NEW p \in Proc, BeginTx(p) \/ TxStep(p)
      PROVE  db' = db
  BY <1>3 DEF BeginTx, TxStep, TxFinalize, TxPublish, TxLink, TxUnlink,
     TxDelete, TxUpdate, TxDiscard, TxRefused, Apply, Poison, Begin
<1>4. ASSUME NEW p \in Proc, UploadStep(p) \/ ReadStep(p)
      PROVE  db' = db
  BY <1>4 DEF UploadStep, ReadStep, StartPrepare, StartImport, StartUpload,
     UploadReturns, UploadFails, JournalUpload, FinalizeImport,
     FinalizeFindsOther, Stat, Fetch, EndView, Begin
<1>5. ASSUME NEW p \in Proc, MaintenanceStep(p)
      PROVE  db' = db
  BY <1>5 DEF MaintenanceStep, RecordJob, QueueOrphanKeys, SelectJobs, SweepObject,
     SweepFails, Begin
<1>6. ASSUME NEW k \in Key, Land(k)
      PROVE  db' = db
  BY <1>6 DEF Land
<1>7. ASSUME NEW p \in Proc, EvolutionStep(p)
      PROVE  db' = db
  BY <1>7 DEF EvolutionStep, StartMigration, MigrateBatch, Begin
<1>. QED BY <1>1, <1>2, <1>3, <1>4, <1>5, <1>6, <1>7 DEF Next, TransactionEnds, vars

\* What is about to be committed.
LEMMA CommitFacts ==
  ASSUME HInv, [Next]_vars, db' # db
  PROVE  /\ db' = work /\ writer # None /\ ~ failed /\ UNCHANGED <<objects, view>>
         /\ db \in Catalog /\ work \in Catalog
         /\ Sound(db) /\ Sound(work) /\ RowsAreOrderly(db) /\ Onward(db, work)
         /\ Kept(work, objects)
<1>1. IInv /\ HistoryIsKept
  BY DEF HInv
<1>2. db' = work /\ writer # None /\ ~ failed /\ UNCHANGED <<objects, view>>
  BY <1>1, WhoChangesTheCatalog, ProcAssumption
<1>. QED BY <1>1, <1>2 DEF IInv, TypeOK, CommittedIsSound, WorkIsSound, HistoryIsKept, Onward

\* The invariant and the history of ids, tokens and calls hold together
\* (Store, _Lifecycle and _Maintenance).
THEOREM HistoryHolds == Spec => []HInv
<1>1. Init => HInv
  BY InitEstablishesHInv
<1>2. HInv /\ [Next]_vars => HInv'
  BY NextPreservesHInv
<1>. QED BY <1>1, <1>2, PTL DEF Spec

LEMMA ResolveFacts ==
  ASSUME NEW d \in Catalog, NEW i \in Id, NEW k \in Key, NEW m \in Meta
  PROVE  /\ d.status[i] = "retired" \/ Exists(d, i) \/ d.status[i] = "absent"
         /\ d.status[i] = "retired" =>
              Resolve(d, i, k, m) = IF d.token[i] = k THEN "retired" ELSE "conflict"
         /\ Exists(d, i) =>
              Resolve(d, i, k, m) \in {d.status[i], "conflict"}
         /\ Exists(d, i) /\ d.token[i] # k => Resolve(d, i, k, m) = "conflict"
         /\ d.status[i] = "absent" =>
              /\ Resolve(d, i, k, m) \in {"conflict", "discarded", "unknown", "prepared"}
              /\ Resolve(d, i, k, m) = "discarded" => Revoked(d, k)
              /\ Revoked(d, k) => Resolve(d, i, k, m) \in {"conflict", "discarded"}
<1>1. d.status[i] = "retired" \/ Exists(d, i) \/ d.status[i] = "absent"
  BY CatalogFields DEF Status, Exists
<1>2. ASSUME d.status[i] = "retired"
      PROVE  Resolve(d, i, k, m) = IF d.token[i] = k THEN "retired" ELSE "conflict"
  BY <1>2 DEF Resolve, Exists
<1>3. ASSUME Exists(d, i)
      PROVE  Resolve(d, i, k, m) =
               IF d.token[i] = k /\ d.meta[i] = m /\ d.rowSchema[i] = d.tokenSchema[k]
                 THEN d.status[i] ELSE "conflict"
  BY <1>3 DEF Resolve, Exists
<1>4. ASSUME d.status[i] = "absent"
      PROVE  Resolve(d, i, k, m) = ResolveToken(d, k)
  BY <1>4 DEF Resolve, Exists
<1>5. /\ ResolveToken(d, k) \in {"conflict", "discarded", "unknown", "prepared"}
      /\ ResolveToken(d, k) = "discarded" => Revoked(d, k)
      /\ Revoked(d, k) => ResolveToken(d, k) \in {"conflict", "discarded"}
  BY DEF ResolveToken
<1>. QED BY <1>1, <1>2, <1>3, <1>4, <1>5

LEMMA AnswersStay ==
  ASSUME NEW d \in Catalog, NEW e \in Catalog, Sound(e), Onward(d, e),
         NEW i \in Id, NEW k \in Key, NEW m \in Meta
  PROVE  /\ Resolve(d, i, k, m) = "retired" => Resolve(e, i, k, m) = "retired"
         /\ Resolve(d, i, k, m) = "discarded" =>
              Resolve(e, i, k, m) \in {"discarded", "conflict"}
<1>1. ASSUME Resolve(d, i, k, m) = "retired"
      PROVE  Resolve(e, i, k, m) = "retired"
  <2>1. d.status[i] = "retired" /\ d.token[i] = k
    BY <1>1, ResolveFacts DEF Exists
  <2>2. e.status[i] = "retired" /\ e.token[i] = k
    BY <2>1 DEF Onward, Succeeds
  <2>. QED BY <2>2, ResolveFacts
<1>2. ASSUME Resolve(d, i, k, m) = "discarded"
      PROVE  Resolve(e, i, k, m) \in {"discarded", "conflict"}
  <2>1. d.status[i] = "absent" /\ Revoked(d, k)
    BY <1>2, ResolveFacts DEF Exists
  <2>2. Revoked(e, k) /\ e.reason[k] # "none" /\ d.reason[k] # "none"
    BY <2>1 DEF Revoked, Onward, Succeeds
  <2>3. ~ (Exists(e, i) /\ e.token[i] = k)
    BY <2>2 DEF Sound
  <2>4. ~ (e.status[i] = "retired" /\ e.token[i] = k)
    BY <2>1, <2>2 DEF Onward, Succeeds
  <2>. QED BY <2>2, <2>3, <2>4, ResolveFacts
<1>. QED BY <1>1, <1>2

\* Whoever asks `resolve` about a finished operation is told the same for ever:
\* ids are retired for good and revoked tokens stay revoked, in every commit.
THEOREM AnswersAreFinal == Spec => ResolvedForGood
<1> DEFINE Stays == \A i \in Id, k \in Key, m \in Meta :
       /\ Resolve(db, i, k, m) = "retired" => Resolve(db', i, k, m) = "retired"
       /\ Resolve(db, i, k, m) = "discarded" =>
            Resolve(db', i, k, m) \in {"discarded", "conflict"}
<1>1. HInv /\ [Next]_vars => Stays
  <2>1. SUFFICES ASSUME HInv, [Next]_vars PROVE Stays
    OBVIOUS
  <2>2. CASE db' = db
    BY <2>2
  <2>3. CASE db' # db
    BY <2>1, <2>3, CommitFacts, AnswersStay
  <2>. QED BY <2>2, <2>3
<1>2. HInv /\ [Next]_vars => [Stays]_vars
  BY <1>1
<1>. QED BY <1>2, HistoryHolds, PTL DEF Spec, ResolvedForGood

\* No other upload, row or cleanup job ever stands in the way of an upload that
\* succeeded, although its object has no row yet; only a migration does.
THEOREM UploadsGetJournaled == Spec => []UploadsAreJournaled
<1>1. HInv => UploadsAreJournaled
  BY DEF HInv, UploadsAreWelcome, Unclaimed, UploadsAreJournaled, CanJournal
<1>. QED BY <1>1, HistoryHolds, PTL

\* How an answer depends on what the catalog says of the id and the token.
LEMMA WhatAnAnswerSays ==
  ASSUME NEW d \in Catalog, Sound(d), NEW i \in Id, NEW k \in Key, NEW m \in Meta,
         NEW answer, answer = Resolve(d, i, k, m)
  PROVE  /\ answer = "retired" => d.status[i] = "retired" /\ d.token[i] = k
         /\ answer \in {"publishing", "ready", "pending_delete"} =>
              /\ Exists(d, i) /\ d.token[i] = k /\ d.meta[i] = m
              /\ d.status[i] = answer /\ d.rowSchema[i] = d.tokenSchema[k]
         /\ answer \in {"prepared", "discarded", "unknown"} =>
              d.status[i] = "absent" /\ ~ Bound(d, k)
         /\ answer = "prepared" => ~ Revoked(d, k) /\ d.prepared[k] # None
         /\ answer = "discarded" => Revoked(d, k)
         /\ answer = "unknown" => d.prepared[k] = None
<1>1. d.status[i] \in Status
  BY CatalogFields
<1>2. CASE d.status[i] = "retired"
  BY <1>2 DEF Resolve, Exists
<1>3. CASE Exists(d, i)
  <2>1. answer =
          IF d.token[i] = k /\ d.meta[i] = m /\ d.rowSchema[i] = d.tokenSchema[k]
            THEN d.status[i] ELSE "conflict"
    BY <1>3 DEF Resolve, Exists
  <2>. QED BY <1>3, <2>1 DEF Exists
<1>4. CASE d.status[i] = "absent"
  <2>1. answer = ResolveToken(d, k)
    BY <1>4 DEF Resolve, Exists
  <2>2. \/ Bound(d, k) /\ answer = "conflict"
        \/ ~ Bound(d, k) /\ Revoked(d, k) /\ answer = "discarded"
        \/ /\ ~ Bound(d, k) /\ ~ Revoked(d, k)
           /\ answer = IF d.prepared[k] = None THEN "unknown" ELSE "prepared"
    BY <2>1 DEF ResolveToken
  <2>. QED BY <1>4, <2>2
<1>. QED BY <1>1, <1>2, <1>3, <1>4 DEF Status, Exists

\* A journaled token is alive, revoked with its cleanup job, or a blob's.
LEMMA TokenFacts ==
  ASSUME NEW d \in Catalog, Sound(d), RowsAreOrderly(d), NEW k \in Key
  PROVE  /\ Bound(d, k) => ~ Revoked(d, k)
         /\ \A j \in Id : d.status[j] = "retired" /\ d.token[j] = k => Revoked(d, k)
         /\ d.prepared[k] # None /\ ~ Revoked(d, k) => d.gc[k] = "none"
<1>1. ASSUME Bound(d, k)
      PROVE  ~ Revoked(d, k)
  BY <1>1 DEF Bound, Revoked, Sound
<1>2. ASSUME NEW j \in Id, d.status[j] = "retired", d.token[j] = k
      PROVE  Revoked(d, k)
  BY <1>2 DEF RowsAreOrderly, TokensAreUsedOnce, Revoked
<1>3. ASSUME d.prepared[k] # None, ~ Revoked(d, k)
      PROVE  d.gc[k] = "none"
  <2>1. d.reason[k] \in GcReason
    BY CatalogFields
  <2>2. d.reason[k] # "orphan"
    BY <1>3 DEF Sound
  <2>. QED BY <1>3, <2>1, <2>2 DEF Revoked, GcReason, Sound
<1>. QED BY <1>1, <1>2, <1>3

\* Whatever was lost, retried, discarded, retired, swept and migrated before, a
\* caller may act on the answer of `resolve`, within what migrations leave open.
THEOREM AnswersAreGuidance == Spec => []AnswersLeadOn
<1>1. HInv => AnswersLeadOn
  <2> SUFFICES ASSUME HInv, NEW i \in Id, NEW k \in Key, NEW m \in Meta,
                      NEW answer, answer = Resolve(db, i, k, m)
               PROVE
        /\ answer = "prepared" =>
             /\ objects[k] = db.prepared[k]
             /\ db.tokenSchema[k] = db.latest => CanFinalize(db, i, k)
             /\ CanDiscard(db, k)
             /\ Resolve(Discard(db, k), i, k, m) = "discarded"
        /\ answer \in {"publishing", "ready"} =>
             /\ objects[k] = db.prepared[k]
             /\ CanPublish(db, i)
             /\ db.migrating \/ CanDelete(db, i, db.version[i])
        /\ answer = "ready" =>
             /\ db.tokenSchema[k] = db.latest =>
                  Retry(db, i, db.prepared[k], m, db.latest) = "existing"
             /\ \/ db.migrating
                \/ db.version[i] = MaxVersion
                \/ CanUpdate(db, i, db.version[i])
        /\ answer \in {"retired", "discarded", "unknown"} =>
             ~ Bound(db, k) /\ \A j \in Id : ~ CanFinalize(db, j, k)
        /\ answer # "pending_delete"
    BY DEF AnswersLeadOn
  <2>1. /\ db \in Catalog /\ Sound(db) /\ Kept(db, objects) /\ RowsAreOrderly(db)
    BY DEF HInv, IInv, TypeOK, CommittedIsSound, HistoryIsKept
  <2>0. /\ answer = "prepared" =>
             /\ db.status[i] = "absent" /\ ~ Bound(db, k)
             /\ ~ Revoked(db, k) /\ db.prepared[k] # None
        /\ answer = "unknown" => ~ Bound(db, k) /\ db.prepared[k] = None
    BY <2>1, WhatAnAnswerSays
  <2>2. ASSUME answer = "prepared"
        PROVE  /\ objects[k] = db.prepared[k]
               /\ db.tokenSchema[k] = db.latest => CanFinalize(db, i, k)
               /\ CanDiscard(db, k)
               /\ Resolve(Discard(db, k), i, k, m) = "discarded"
    <3>1. /\ db.status[i] = "absent" /\ ~ Bound(db, k) /\ ~ Revoked(db, k)
          /\ db.prepared[k] # None
      BY <2>0, <2>2
    <3>2. db.gc[k] = "none"
      BY <2>1, <3>1, TokenFacts
    <3>3. objects[k] = db.prepared[k]
      BY <2>1, <3>1, <3>2 DEF Kept
    <3>4. db.tokenSchema[k] = db.latest => CanFinalize(db, i, k)
      BY <3>1 DEF CanFinalize
    <3>5. CanDiscard(db, k)
      BY <2>1, <3>1, TokenFacts DEF CanDiscard
    <3> DEFINE e == Discard(db, k)
    <3>6. /\ e.status = db.status /\ e.token = db.token /\ e.reason[k] = "discarded"
      BY <2>1, <3>2 DEF Discard, Queue, Catalog
    <3> HIDE DEF e
    <3>7. e.status[i] = "absent" /\ Revoked(e, k) /\ ~ Bound(e, k)
      BY <3>1, <3>6 DEF Revoked, Bound, Exists
    <3>8. ResolveToken(e, k) = "discarded"
      BY <3>7 DEF ResolveToken
    <3>9. Resolve(e, i, k, m) = "discarded"
      BY <3>7, <3>8 DEF Resolve, Exists
    <3>. QED BY <3>3, <3>4, <3>5, <3>9 DEF e
  <2>3. ASSUME answer \in {"publishing", "ready"}
        PROVE  /\ objects[k] = db.prepared[k]
               /\ CanPublish(db, i)
               /\ db.migrating \/ CanDelete(db, i, db.version[i])
               /\ answer = "ready" =>
                    /\ db.tokenSchema[k] = db.latest =>
                         Retry(db, i, db.prepared[k], m, db.latest) = "existing"
                    /\ \/ db.migrating
                       \/ db.version[i] = MaxVersion
                       \/ CanUpdate(db, i, db.version[i])
    <3>1. /\ Exists(db, i) /\ db.token[i] = k /\ db.meta[i] = m
          /\ db.status[i] = answer /\ db.rowSchema[i] = db.tokenSchema[k]
      BY <2>1, <2>3, WhatAnAnswerSays
    <3>2. Complete(db, i)
      BY <3>1, NoneAssumption DEF Complete
    <3>3. objects[k] = db.prepared[k]
      BY <2>1, <3>1 DEF Sound, Kept
    <3>4. CanPublish(db, i) /\ (db.migrating \/ CanDelete(db, i, db.version[i]))
      BY <2>3, <3>1, <3>2 DEF CanPublish, CanDelete
    <3>5. ASSUME answer = "ready", db.tokenSchema[k] = db.latest
          PROVE  Retry(db, i, db.prepared[k], m, db.latest) = "existing"
      BY <3>1, <3>5, NoneAssumption DEF Retry
    <3>6. ASSUME answer = "ready", ~ db.migrating, db.version[i] # MaxVersion
          PROVE  CanUpdate(db, i, db.version[i])
      <4>1. db.rowSchema[i] = db.latest
        BY <2>1, <3>1, <3>6 DEF RowsAreOrderly, RowsFollowSchema
      <4>2. db.version[i] < MaxVersion
        BY <2>1, <3>6, CatalogFields, VersionAssumption
      <4>. QED BY <3>1, <3>2, <3>6, <4>1, <4>2 DEF CanUpdate
    <3>. QED BY <3>3, <3>4, <3>5, <3>6
  <2>4. ASSUME answer \in {"retired", "discarded", "unknown"}
        PROVE  ~ Bound(db, k) /\ \A j \in Id : ~ CanFinalize(db, j, k)
    <3>1. CASE answer = "unknown"
      BY <2>0, <3>1 DEF CanFinalize
    <3>2. CASE answer # "unknown"
      <4>1. Revoked(db, k)
        BY <2>1, <2>4, <3>2, WhatAnAnswerSays, TokenFacts
      <4>. QED BY <2>1, <4>1, TokenFacts DEF CanFinalize
    <3>. QED BY <3>1, <3>2
  <2>5. answer # "pending_delete"
    BY <2>1, WhatAnAnswerSays DEF Sound
  <2>. QED BY <2>2, <2>3, <2>4, <2>5
<1>. QED BY <1>1, HistoryHolds, PTL

\* The last commit of an import or put, reported or lost, leaves the blob that a
\* repeated call finds, and that `resolve` calls ready.
THEOREM LostImportsAreFound == Spec => LostImportIsRecognized
<1> DEFINE Found == \A p \in Proc :
       LET t == task[p] IN
       t.pc = "finalizing" /\ db' # db =>
         /\ t.schema = db'.latest
         /\ Retry(db', t.id, t.content, t.meta, t.schema) = "existing"
         /\ Resolve(db', t.id, t.key, t.meta) = "ready"
<1>1. HInv /\ [Next]_vars => Found
  <2>1. SUFFICES ASSUME HInv, [Next]_vars, NEW p \in Proc,
                        task[p].pc = "finalizing", db' # db
                 PROVE  /\ task[p].schema = db'.latest
                        /\ Retry(db', task[p].id, task[p].content, task[p].meta,
                                  task[p].schema) = "existing"
                        /\ Resolve(db', task[p].id, task[p].key, task[p].meta) = "ready"
    OBVIOUS
  <2>2. db' = work
    BY <2>1, CommitFacts
  <2>3. task[p].key \in Key /\ UploadIsRecorded(p)
    BY <2>1 DEF HInv, HistoryIsKept, IInv, CallsAreOrderly, TaskIsOrderly, Uploading
  <2>4. /\ work.status[task[p].id] = "ready" /\ work.token[task[p].id] = task[p].key
        /\ work.meta[task[p].id] = task[p].meta
        /\ work.prepared[task[p].key] = task[p].content
        /\ work.rowSchema[task[p].id] = task[p].schema
        /\ work.tokenSchema[task[p].key] = task[p].schema
        /\ work.latest = task[p].schema
        /\ task[p].key # None
    BY <2>1, <2>3, NoneAssumption DEF UploadIsRecorded
  <2>. QED BY <2>2, <2>4 DEF Retry, Resolve, Exists
<1>2. HInv /\ [Next]_vars => [Found]_vars
  BY <1>1
<1>. QED BY <1>2, HistoryHolds, PTL DEF Spec, LostImportIsRecognized

----------------------------------------------------------------------------
(* BlobLifecycle implements BlobStore.                                     *)

\* What id i names in catalog d beside the objects obj.
RowIn(d, obj, i) ==
  [state   |-> d.status[i],
   bytes   |-> IF Complete(d, i) THEN obj[d.token[i]] ELSE None,
   meta    |-> d.meta[i],
   version |-> d.version[i]]

LEMMA RowFacts ==
  ASSUME NEW d \in Catalog, Sound(d), RowsAreOrderly(d), NEW obj, Kept(d, obj),
         NEW i \in Id
  PROVE  /\ d.status[i] = "absent" \/ d.status[i] = "retired" \/ Exists(d, i)
         /\ d.status[i] = "absent" => RowIn(d, obj, i) = Promise!Nothing
         /\ d.status[i] = "retired" =>
              /\ RowIn(d, obj, i) = [state |-> "retired", bytes |-> None,
                                     meta |-> None, version |-> d.version[i]]
              /\ RowIn(d, obj, i) \in Promise!Retired
         /\ Exists(d, i) =>
              /\ Complete(d, i) /\ d.token[i] \in Key
              /\ obj[d.token[i]] = d.prepared[d.token[i]]
              /\ obj[d.token[i]] # None
              /\ RowIn(d, obj, i).bytes = obj[d.token[i]]
              /\ RowIn(d, obj, i) \in Promise!Live
<1>0. /\ d.version[i] \in 0 .. MaxVersion /\ MaxVersion \in Nat \ {0}
      /\ d.status[i] \in Status
  BY CatalogFields, VersionAssumption
<1>1. d.status[i] = "absent" \/ d.status[i] = "retired" \/ Exists(d, i)
  BY <1>0 DEF Status, Exists
<1>2. ASSUME d.status[i] = "absent"
      PROVE  RowIn(d, obj, i) = Promise!Nothing
  BY <1>2 DEF RowIn, RowsAreOrderly, Promise!Nothing, Complete, Exists
<1>3. ASSUME d.status[i] = "retired"
      PROVE  /\ RowIn(d, obj, i) = [state |-> "retired", bytes |-> None,
                                    meta |-> None, version |-> d.version[i]]
             /\ RowIn(d, obj, i) \in Promise!Retired
  <2>1. RowIn(d, obj, i) = [state |-> "retired", bytes |-> None,
                            meta |-> None, version |-> d.version[i]]
    BY <1>3 DEF RowIn, RowsAreOrderly, Complete, Exists
  <2>2. d.version[i] \in 1 .. MaxVersion
    BY <1>0, <1>3 DEF RowsAreOrderly
  <2>. QED BY <2>1, <2>2 DEF Promise!Retired
<1>4. ASSUME Exists(d, i)
      PROVE  /\ Complete(d, i) /\ d.token[i] \in Key
             /\ obj[d.token[i]] = d.prepared[d.token[i]]
             /\ obj[d.token[i]] # None
             /\ RowIn(d, obj, i).bytes = obj[d.token[i]]
             /\ RowIn(d, obj, i) \in Promise!Live
  <2>1. /\ d.token[i] \in Key /\ d.meta[i] \in Meta
        /\ d.prepared[d.token[i]] # None /\ d.gc[d.token[i]] = "none"
        /\ d.status[i] \in {"publishing", "ready"}
    BY <1>4 DEF Sound, Exists
  <2>2. Complete(d, i)
    BY <1>4, <2>1, NoneAssumption DEF Complete
  <2>3. obj[d.token[i]] = d.prepared[d.token[i]]
    BY <2>1 DEF Kept
  <2>4. d.prepared[d.token[i]] \in Content
    BY <2>1, CatalogFields
  <2>5. d.version[i] \in 1 .. MaxVersion
    BY <1>0, <2>1 DEF RowsAreOrderly
  <2>6. RowIn(d, obj, i) = [state |-> d.status[i], bytes |-> obj[d.token[i]],
                            meta |-> d.meta[i], version |-> d.version[i]]
    BY <2>2 DEF RowIn
  <2>. QED BY <2>1, <2>2, <2>3, <2>4, <2>5, <2>6 DEF Promise!Live
<1>. QED BY <1>1, <1>2, <1>3, <1>4

\* What a transaction may do to an id.
LEMMA OnwardEvolves ==
  ASSUME NEW d \in Catalog, Sound(d), RowsAreOrderly(d), NEW obj, Kept(d, obj),
         NEW e \in Catalog, Sound(e), Onward(d, e), Kept(e, obj), NEW i \in Id
  PROVE  Promise!Evolves(RowIn(d, obj, i), RowIn(e, obj, i))
<1> DEFINE b == RowIn(d, obj, i)
           c == RowIn(e, obj, i)
<1>0. RowsAreOrderly(e) /\ Succeeds(d, e)
  BY DEF Onward
<1>1. CASE d.status[i] = "absent"
  <2>1. b = Promise!Nothing
    BY <1>1, RowFacts
  <2>2. c = Promise!Nothing \/ c \in Promise!Retired \/ c \in Promise!Live
    BY <1>0, RowFacts
  <2> HIDE DEF b, c
  <2>. QED BY <2>1, <2>2 DEF Promise!Evolves, b, c
<1>2. CASE d.status[i] = "retired"
  <2>1. e.status[i] = "retired" /\ e.version[i] = d.version[i]
    BY <1>0, <1>2 DEF Succeeds
  <2>2. c = b
    BY <1>0, <1>2, <2>1, RowFacts
  <2> HIDE DEF b, c
  <2>. QED BY <2>2 DEF Promise!Evolves, b, c
<1>3. CASE Exists(d, i)
  <2>1. /\ Exists(e, i) \/ e.status[i] = "retired"
        /\ e.token[i] = d.token[i] /\ e.version[i] >= d.version[i]
        /\ Exists(e, i) => /\ d.status[i] = "ready" => e.status[i] = "ready"
                           /\ e.version[i] = d.version[i] => e.meta[i] = d.meta[i]
    BY <1>0, <1>3 DEF Succeeds
  <2>2. /\ b \in Promise!Live /\ b.bytes = obj[d.token[i]]
        /\ b.state = d.status[i] /\ b.meta = d.meta[i] /\ b.version = d.version[i]
        /\ c.state = e.status[i] /\ c.meta = e.meta[i] /\ c.version = e.version[i]
    BY <1>3, RowFacts DEF RowIn
  <2>3. CASE Exists(e, i)
    <3>1. c \in Promise!Live /\ c.bytes = obj[e.token[i]]
      BY <1>0, <2>3, RowFacts
    <3>2. c.version > b.version \/ <<c.version, c.meta>> = <<b.version, b.meta>>
      <4>1. e.version[i] \in Int /\ d.version[i] \in Int
        BY CatalogFields
      <4>. QED BY <2>1, <2>2, <2>3, <4>1
    <3> HIDE DEF b, c
    <3>. QED BY <2>1, <2>2, <2>3, <3>1, <3>2 DEF Promise!Evolves, b, c
  <2>4. CASE e.status[i] = "retired"
    <3>1. c \in Promise!Retired
      BY <1>0, <2>4, RowFacts
    <3> HIDE DEF b, c
    <3>. QED BY <2>1, <2>2, <3>1 DEF Promise!Evolves, b, c
  <2>. QED BY <2>1, <2>3, <2>4
<1>4. d.status[i] = "absent" \/ d.status[i] = "retired" \/ Exists(d, i)
  BY RowFacts
<1>. QED BY <1>1, <1>2, <1>3, <1>4

LEMMA NamedIsRows ==
  /\ Named = [i \in Id |-> RowIn(db, objects, i)]
  /\ Named' = [i \in Id |-> RowIn(db', objects', i)]
BY DEF Named, NamedBy, RowIn, Complete, Exists

\* The bytes of a blob, and those a reader is about to read, are left alone.
LEMMA BytesStay ==
  ASSUME IInv, [Next]_vars
  PROVE  /\ \A i \in Id : Exists(db, i) => objects'[db.token[i]] = objects[db.token[i]]
         /\ \A p \in Proc : view[p].pc = "reading" =>
              objects'[view[p].key] = objects[view[p].key]
<1>1. /\ \A i \in Id : Exists(db, i) =>
           /\ db.token[i] \in Key /\ db.gc[db.token[i]] = "none"
           /\ objects[db.token[i]] # None
      /\ \A p \in Proc : view[p].pc = "reading" =>
           view[p].key \in Key /\ objects[view[p].key] # None
  BY DEF IInv, CommittedIsSound, Sound, Kept, ReadersAreServed
<1>2. CASE objects' = objects
  BY <1>2
<1>3. ASSUME NEW k \in Key, Land(k)
      PROVE  \A l \in Key : objects[l] # None => objects'[l] = objects[l]
  BY <1>3 DEF Land, IInv, TypeOK
<1>4. ASSUME NEW p \in Proc, NEW k \in Key, SweepObject(p, k) \/ SweepFails(p, k)
      PROVE  /\ db.gc[k] = "pending"
             /\ \A l \in Key : l # k => objects'[l] = objects[l]
             /\ \A q \in Proc : view[q].pc # "reading"
  <2>1. SessionIsOrderly(p) /\ TaskIsOrderly(p) /\ task[p].pc = "clean" /\ k \in task[p].jobs
    BY <1>4 DEF IInv, CallsAreOrderly, SweepObject, SweepFails
  <2>2. db.gc[k] = "pending" /\ mode[p] = "exclusive" /\ view[p].pc = "none"
    BY <2>1 DEF TaskIsOrderly, SessionIsOrderly, Sweeping, Maintaining
  <2>3. \A q \in Proc : q # p => view[q].pc = "none"
    BY <2>2 DEF IInv, ExclusiveIsAlone, CallsAreOrderly, SessionIsOrderly
  <2>4. \A l \in Key : l # k => objects'[l] = objects[l]
    BY <1>4 DEF SweepObject, SweepFails, IInv, TypeOK
  <2>. QED BY <2>2, <2>3, <2>4
<1>. QED BY <1>1, <1>2, <1>3, <1>4, WhoChangesObjects

\* Views change when their process reads, and close when it leaves.
LEMMA WhoChangesViews ==
  ASSUME IInv, [Next]_vars
  PROVE  \/ view' = view
         \/ \E p \in Proc :
              /\ objects' = objects
              /\ ReadStep(p) \/ view' = [view EXCEPT ![p] = NoView]
<1>1. ASSUME NEW p \in Proc, SessionStep(p)
      PROVE  \/ view' = view
             \/ objects' = objects /\ view' = [view EXCEPT ![p] = NoView]
  BY <1>1 DEF SessionStep, OpenShared, OpenExclusive, Close, Crash, Leave, store
<1>2. ASSUME NEW p \in Proc, TransactionEnds(p)
      PROVE  view' = view
  BY <1>2 DEF TransactionEnds, Commit, CommitFails, Rollback, RollbackFails,
     BeginFails, GiveUp, Quarantine, session
<1>3. ASSUME NEW p \in Proc, BeginTx(p) \/ TxStep(p)
      PROVE  view' = view
  BY <1>3 DEF BeginTx, TxStep, TxFinalize, TxPublish, TxLink, TxUnlink,
     TxDelete, TxUpdate, TxDiscard, TxRefused, Apply, Poison, session
<1>4. ASSUME NEW p \in Proc, UploadStep(p) \/ MaintenanceStep(p)
      PROVE  view' = view
  BY <1>4 DEF UploadStep, StartPrepare, StartImport, StartUpload,
     UploadReturns, UploadFails, JournalUpload, FinalizeImport,
     FinalizeFindsOther, MaintenanceStep, RecordJob, QueueOrphanKeys, SelectJobs,
     SweepObject, SweepFails, session
<1>5. ASSUME NEW p \in Proc, ReadStep(p)
      PROVE  objects' = objects
  BY <1>5 DEF ReadStep, Stat, Fetch, EndView, store
<1>6. ASSUME NEW k \in Key, Land(k)
      PROVE  view' = view
  BY <1>6 DEF Land
<1>7. ASSUME NEW p \in Proc, EvolutionStep(p)
      PROVE  view' = view
  BY <1>7 DEF EvolutionStep, StartMigration, MigrateBatch, session
<1>. QED BY <1>1, <1>2, <1>3, <1>4, <1>5, <1>6, <1>7 DEF Next, vars

\* What a process with view v holds, beside the objects obj.
HeldIn(v, obj) ==
  IF v.pc = "none" THEN None ELSE IF v.pc = "reading" THEN obj[v.key] ELSE v.content

LEMMA HeldIsViews ==
  /\ TypeOK => Held = [p \in Proc |-> HeldIn(view[p], objects)]
  /\ TypeOK' => Held' = [p \in Proc |-> HeldIn(view'[p], objects')]
<1>1. ASSUME NEW v \in View, NEW obj
      PROVE  (CASE v.pc = "none" -> None
                [] v.pc = "reading" -> obj[v.key]
                [] v.pc = "open" -> v.content) = HeldIn(v, obj)
  BY DEF View, HeldIn
<1>2. TypeOK => \A p \in Proc : view[p] \in View
  BY DEF TypeOK
<1>3. TypeOK' => \A p \in Proc : view'[p] \in View
  BY DEF TypeOK
<1>. QED BY <1>1, <1>2, <1>3 DEF Held, HeldBy

LEMMA InitImplementsPromise == Init => Promise!Init
<1>1. SUFFICES ASSUME Init PROVE Promise!Init
  OBVIOUS
<1>2. Named = [i \in Id |-> Promise!Nothing]
  BY <1>1 DEF Init, EmptyCatalog, Named, NamedBy, Complete, Exists, Promise!Nothing
<1>3. Held = [p \in Proc |-> None]
  BY <1>1, IdleFacts DEF Init, Held, HeldBy
<1>. QED BY <1>2, <1>3 DEF Promise!Init

\* A commit is a transaction of the abstract store.
LEMMA CommitImplementsPromise ==
  ASSUME HInv, [Next]_vars, db' # db
  PROVE  Promise!Transact
<1>1. /\ db' = work /\ objects' = objects /\ view' = view
      /\ db \in Catalog /\ work \in Catalog
      /\ Sound(db) /\ Sound(work) /\ RowsAreOrderly(db) /\ Onward(db, work)
      /\ Kept(db, objects) /\ Kept(work, objects)
  BY CommitFacts DEF HInv, IInv, CommittedIsSound
<1>2. \A i \in Id : Promise!Evolves(RowIn(db, objects, i), RowIn(work, objects, i))
  BY <1>1, OnwardEvolves
<1>3. /\ \A i \in Id : Promise!Evolves(Named[i], Named'[i])
      /\ DOMAIN Named' = Id
  BY <1>1, <1>2, NamedIsRows
<1>4. Held' = Held
  BY <1>1 DEF Held, HeldBy
<1>. QED BY <1>3, <1>4 DEF Promise!Transact

LEMMA StepImplementsPromise ==
  ASSUME HInv, [Next]_vars
  PROVE  [Promise!Next]_(Promise!vars)
<1>0. IInv /\ TypeOK /\ TypeOK'
  BY NextPreservesIInv DEF HInv, IInv
<1>1. CASE db' # db
  BY <1>1, CommitImplementsPromise DEF Promise!Next
<1>2. CASE db' = db
  <2>1. Named' = Named
    <3>1. ASSUME NEW i \in Id
          PROVE  RowIn(db, objects', i) = RowIn(db, objects, i)
      BY <1>0, BytesStay DEF RowIn, Complete
    <3>. QED BY <1>2, <3>1, NamedIsRows
  <2>2. CASE view' = view
    <3>1. ASSUME NEW p \in Proc
          PROVE  HeldIn(view[p], objects') = HeldIn(view[p], objects)
      BY <1>0, BytesStay DEF HeldIn
    <3>2. Held' = Held
      BY <1>0, <2>2, <3>1, HeldIsViews
    <3>. QED BY <2>1, <3>2 DEF Promise!vars
  <2>3. ASSUME NEW p \in Proc, objects' = objects, view' = [view EXCEPT ![p] = NoView]
        PROVE  Promise!Next
    <3>1. Held' = [Held EXCEPT ![p] = None]
      BY <1>0, <2>3, HeldIsViews, IdleFacts DEF TypeOK, HeldIn
    <3>. QED BY <2>1, <3>1 DEF Promise!Next, Promise!Drop
  <2>4. ASSUME NEW p \in Proc, NEW i \in Id, Stat(p, i)
        PROVE  Promise!Next
    <3>1. /\ objects' = objects /\ db.status[i] = "ready" /\ Complete(db, i)
          /\ view' = [view EXCEPT ![p] = [pc |-> "reading", key |-> db.token[i],
                                          content |-> None]]
      BY <2>4 DEF Stat, store
    <3>2. Named[i].state = "ready" /\ Named[i].bytes = objects[db.token[i]]
      BY <3>1, NamedIsRows DEF RowIn
    <3>3. Held' = [Held EXCEPT ![p] = objects[db.token[i]]]
      BY <1>0, <3>1, HeldIsViews DEF TypeOK, HeldIn
    <3>. QED BY <2>1, <3>2, <3>3 DEF Promise!Next, Promise!Read
  <2>5. ASSUME NEW p \in Proc, Fetch(p)
        PROVE  UNCHANGED Promise!vars
    <3>1. /\ objects' = objects /\ view[p].pc = "reading" /\ view[p] \in View
          /\ view' = [view EXCEPT ![p] = [view[p] EXCEPT !.pc = "open",
                                            !.content = objects[view[p].key]]]
      BY <1>0, <2>5 DEF Fetch, store, TypeOK
    <3>2. HeldIn([view[p] EXCEPT !.pc = "open", !.content = objects[view[p].key]], objects)
            = HeldIn(view[p], objects)
      BY <3>1 DEF View, HeldIn
    <3>3. Held' = Held
      BY <1>0, <3>1, <3>2, HeldIsViews DEF TypeOK
    <3>. QED BY <2>1, <3>3 DEF Promise!vars
  <2>6. ASSUME NEW p \in Proc, EndView(p)
        PROVE  Promise!Next
    BY <2>3, <2>6 DEF EndView, store
  <2>. QED BY <1>0, <2>2, <2>3, <2>4, <2>5, <2>6, WhoChangesViews DEF ReadStep
<1>. QED BY <1>1, <1>2

\* To the applications the sessions, uploads, crashes, retries and cleanups are
\* those of the abstract store: every step is a transaction, a read, the end of
\* one, or nothing at all (Store, _Lifecycle and _Maintenance together).
THEOREM PromiseIsKept == Spec => KeepsItsPromise
<1>1. HInv /\ [Next]_vars => [Promise!Next]_(Promise!vars)
  BY StepImplementsPromise
<1>. QED BY <1>1, InitImplementsPromise, HistoryHolds, PTL
         DEF Spec, KeepsItsPromise, Promise!Spec
============================================================================
