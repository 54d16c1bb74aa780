-------------------------- MODULE BlobLifecycleInv -------------------------
(***************************************************************************)
(* The inductive invariant of BlobLifecycle: what makes NoDangling and its *)
(* companions survive every step.  TLC checks it on small instances, and   *)
(* BlobLifecycleProofs proves it for all.                                  *)
(***************************************************************************)
EXTENDS BlobLifecycle

Maintaining == {"queueing", "clean", "swept", "unswept", "recording"}
Sweeping == {"clean", "swept", "unswept", "recording"}
Uploading == {"upload", "journal", "journaling", "final", "finalizing"}

CommittedIsSound == Sound(db) /\ Kept(db, objects)

\* What would be committed is as good as what is.
WorkIsSound ==
  writer # None /\ ~ failed =>
    Sound(work) /\ Extends(db, work) /\ Kept(work, objects)

ExclusiveIsAlone ==
  \A p, q \in Proc : mode[p] = "exclusive" /\ mode[q] # "closed" => p = q

\* What a closed, a quarantined, a writing and a reading process is doing.
SessionIsOrderly(p) ==
  /\ mode[p] = "closed" =>
       task[p].pc = "idle" /\ view[p].pc = "none" /\ writer # p
  /\ broken[p] => task[p].pc = "idle" /\ view[p].pc # "reading"
  /\ writer = p /\ ~ broken[p] => task[p].pc \in InOwnTransaction
  /\ task[p].pc \in InOwnTransaction => writer = p /\ ~ broken[p]
  /\ view[p].pc = "reading" => task[p].pc = "idle" /\ writer # p
  /\ task[p].pc \in Maintaining =>
       mode[p] = "exclusive" /\ view[p].pc = "none"

\* What the fields of a task mean at each step of a call.
TaskIsOrderly(p) ==
  LET t == task[p] IN
  /\ t.pc = "idle" => t = Idle
  /\ t.pc \in Uploading =>
       /\ t.key \in Key
       /\ t.content \in Content
       /\ t.id # None => t.meta \in Meta
  /\ t.pc \in {"final", "finalizing"} => t.id # None
  /\ t.pc \in {"journal", "journaling"} => objects[t.key] = t.content
  /\ t.pc \in Sweeping => \A k \in t.jobs : db.gc[k] = "pending"
  /\ t.pc \in {"swept", "unswept"} => t.key \in Key /\ t.key \notin t.jobs
  /\ t.pc = "recording" => \A k \in t.jobs : work.gc[k] = "pending"
  /\ t.pc \notin Sweeping => t.jobs = {}

CallsAreOrderly ==
  \A p \in Proc : SessionIsOrderly(p) /\ TaskIsOrderly(p)

ReadersAreServed ==
  \A p \in Proc : view[p].pc = "reading" =>
    /\ view[p].key \in Key
    /\ db.prepared[view[p].key] # None
    /\ objects[view[p].key] = db.prepared[view[p].key]

\* The application's foreign keys hold in what is committed; immediate ones in
\* what is being written, too, or COMMIT would let a dangling one through.
ReferencesAreLive ==
  /\ RefsHold(db)
  /\ writer # None /\ ~ DeferredRefs => RefsHold(work)

Awaited(k) == \E p \in Proc : task[p].pc = "upload" /\ task[p].key = k

\* Nothing is uploaded to a key that has an object.
UploadsAreNew == \A k \in Key : flying[k] # None => objects[k] = None

\* Of a store that drops what its caller gave up.
DoneIsFinal ==
  ~ LateLanding =>
    /\ \A k \in Key : flying[k] # None => Awaited(k)
    /\ Gone(db, objects, flying)
    /\ writer # None /\ ~ failed => Gone(work, objects, flying)
    /\ \A p \in Proc : task[p].pc = "swept" => objects[task[p].key] = None

IInv ==
  /\ TypeOK
  /\ CommittedIsSound
  /\ WorkIsSound
  /\ ExclusiveIsAlone
  /\ CallsAreOrderly
  /\ ReadersAreServed
  /\ ReferencesAreLive
  /\ UploadsAreNew
  /\ DoneIsFinal

----------------------------------------------------------------------------
(* What becomes of ids and tokens over time, and of the call that last      *)
(* changed them: the strengthening that ResolvedForGood, the promise of     *)
(* BlobStore and LostImportIsRecognized rest on.                            *)

\* The upload a call is about is in the journal it is working with, and a last
\* transaction has made the blob that the call was asked for.
UploadIsRecorded(p) ==
  LET t == task[p] IN
  /\ t.pc = "journaling" =>
       work.prepared[t.key] = t.content /\ work.tokenSchema[t.key] = t.schema
  /\ t.pc = "final" =>
       db.prepared[t.key] = t.content /\ db.tokenSchema[t.key] = t.schema
  /\ t.pc = "finalizing" =>
       /\ work.status[t.id] = "ready"
       /\ work.token[t.id] = t.key
       /\ work.meta[t.id] = t.meta
       /\ work.rowSchema[t.id] = t.schema
       /\ work.latest = t.schema
       /\ work.prepared[t.key] = t.content
       /\ work.tokenSchema[t.key] = t.schema

HistoryIsKept ==
  /\ RowsAreOrderly(db)
  /\ writer # None /\ ~ failed => RowsAreOrderly(work) /\ Succeeds(db, work)
  /\ \A p \in Proc : UploadIsRecorded(p)

\* An upload without a journal row has its key for itself: no row, no job and
\* no other upload, in the catalog or in what is about to be committed.
Claiming == {"upload", "journal", "journaling"}

UploadsAreWelcome ==
  /\ \A p \in Proc : task[p].pc \in {"upload", "journal"} =>
       /\ Unclaimed(db, task[p].key)
       /\ writer # None /\ ~ failed => Unclaimed(work, task[p].key)
  /\ \A p, q \in Proc :
       task[p].pc \in Claiming /\ task[q].pc \in Claiming
         /\ task[p].key = task[q].key => p = q

HInv == IInv /\ HistoryIsKept /\ UploadsAreWelcome

----------------------------------------------------------------------------
(* How far a call is, the half of CallsReturn that needs no fairness.       *)

\* The steps of an upload, of queue_orphans, and of one round of a cleanup.
Stage == [upload   |-> 1, journal   |-> 2, journaling |-> 3, final |-> 4,
          finalizing |-> 5, queueing |-> 1, evolving |-> 1,
          swept |-> 1, unswept |-> 1, recording |-> 2, clean |-> 3]

\* A call ends, has one job less to do, or is at a later stage.
Forward(t, u) ==
  \/ u = Idle
  \/ u.jobs \subseteq t.jobs /\ u.jobs # t.jobs
  \/ u.jobs = t.jobs /\ Stage[u.pc] > Stage[t.pc]

\* No step, its own or another session's, sends a prepare, import, put,
\* queue_orphans or cleanup back to something it has done before: each takes only
\* so many steps, whatever fails and whoever interferes (Store, _Maintenance).
CallsGoForward ==
  [][\A p \in Proc :
       task[p].pc \notin {"idle", "tx"} /\ task'[p] # task[p] =>
         Forward(task[p], task'[p])]_vars
============================================================================
