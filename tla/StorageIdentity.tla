-------------------------- MODULE StorageIdentity ---------------------------
(***************************************************************************)
(* How storages get the identity that catalog rows name.                   *)
(*                                                                         *)
(* A local root holds one marker.  An S3 prefix holds one that names its   *)
(* coordinator, a local directory whose own marker names the prefix: only  *)
(* participants that share the directory share its access gates.  The two  *)
(* markers are written one after the other, and a put to S3 may fail, be   *)
(* reported as failed, or arrive long after its sender is gone.            *)
(***************************************************************************)

CONSTANTS Proc,     \* calls of LocalStorage(...) and S3Storage(...)
          Root,     \* local storage roots
          Prefix,   \* S3 locations: endpoint, bucket and prefix
          Dir,      \* canonical coordination directories
          Id,       \* storage ids
          Replica,  \* the id of the store that is being restored
          Torn,     \* a marker whose writer died
          None

Place == Root \cup Prefix
Local  == [at : Prefix, id : Id, by : Dir]   \* meldstore-s3.json
Remote == [id : Id, by : Dir]                \* meldstore-storage.json

ASSUME IdentityAssumption ==
  /\ Root \cap Prefix = {}
  /\ Replica \in Id
  /\ Torn \notin Local /\ None \notin Local /\ Torn # None
  /\ None \notin Remote /\ None \notin Id

VARIABLES root,     \* the marker of each local root
          made,     \* the coordination directories that exist
          local,    \* the marker in each of them
          remote,   \* the marker at each prefix
          flying,   \* puts of remote markers S3 has been asked for
          foreign,  \* the prefixes that hold something of somebody else's
          gate,     \* who initializes in each directory
          call      \* what each process is doing

vars == <<root, made, local, remote, flying, foreign, gate, call>>

Pc == {"idle", "reading", "starting", "gated", "checking", "empty", "marked", "sent", "open"}
Idle == [pc |-> "idle", at |-> None, dir |-> None, id |-> None]

TypeOK ==
  /\ root \in [Root -> Id \cup {None}]
  /\ made \subseteq Dir
  /\ local \in [Dir -> Local \cup {None, Torn}]
  /\ remote \in [Prefix -> Remote \cup {None}]
  /\ flying \subseteq Local
  /\ foreign \subseteq Prefix
  /\ gate \in [Dir -> Proc \cup {None}]
  /\ call \in [Proc -> [pc : Pc, at : Place \cup {None}, dir : Dir \cup {None},
                        id : Id \cup {None}]]

Init ==
  /\ root = [r \in Root |-> None]
  /\ made = {}
  /\ local = [d \in Dir |-> None]
  /\ remote = [l \in Prefix |-> None]
  /\ flying = {}
  /\ foreign \in SUBSET Prefix
  /\ gate = [d \in Dir |-> None]
  /\ call = [p \in Proc |-> Idle]

At(p, pc) == call[p].pc = pc

\* uuid4: an id that is nowhere yet.
NewIds ==
  {i \in Id \ {Replica} :
     /\ \A r \in Root : root[r] # i
     /\ \A d \in Dir : local[d] \in Local => local[d].id # i
     /\ \A l \in Prefix : remote[l] # None => remote[l].id # i
     /\ \A m \in flying : m.id # i
     /\ \A p \in Proc : call[p].id # i}

----------------------------------------------------------------------------
(* LocalStorage(root)                                                      *)

\* A create-only put of a new id; that there is one already is no error.
PutLocal(p, r) ==
  /\ At(p, "idle")
  /\ root' \in IF root[r] = None THEN {[root EXCEPT ![r] = i] : i \in NewIds} ELSE {root}
  /\ call' = [call EXCEPT ![p] = [Idle EXCEPT !.pc = "reading", !.at = r]]
  /\ UNCHANGED <<made, local, remote, flying, foreign, gate>>

ReadLocal(p) ==
  /\ At(p, "reading")
  /\ call' = [call EXCEPT ![p].pc = "open", ![p].id = root[call[p].at]]
  /\ UNCHANGED <<root, made, local, remote, flying, foreign, gate>>

----------------------------------------------------------------------------
(* S3Storage(prefix, coordination_directory)                               *)

\* A restore insists on a new directory and brings the id.
Start(p, l, d, fresh) ==
  /\ At(p, "idle")
  /\ fresh => d \notin made
  /\ made' = made \cup {d}
  /\ call' = [call EXCEPT ![p] = [pc |-> "starting", at |-> l, dir |-> d,
                                  id |-> IF fresh THEN Replica ELSE None]]
  /\ UNCHANGED <<root, local, remote, flying, foreign, gate>>

TakeGate(p) ==
  /\ At(p, "starting")
  /\ gate[call[p].dir] = None
  /\ gate' = [gate EXCEPT ![call[p].dir] = p]
  /\ call' = [call EXCEPT ![p].pc = "gated"]
  /\ UNCHANGED <<root, made, local, remote, flying, foreign>>

\* The marker is of this directory, not a copy, and of this location.
FindMarker(p) ==
  LET m == local[call[p].dir] IN
  /\ At(p, "gated")
  /\ m \in Local
  /\ m.at = call[p].at
  /\ m.by = call[p].dir
  /\ call' = [call EXCEPT ![p].pc = "checking", ![p].id = m.id]
  /\ UNCHANGED <<root, made, local, remote, flying, foreign, gate>>

\* The constructor returns, its lease is closed.
Opens(p) ==
  /\ gate' = [gate EXCEPT ![call[p].dir] = None]
  /\ call' = [call EXCEPT ![p].pc = "open"]

CheckRemote(p) ==
  /\ At(p, "checking")
  /\ remote[call[p].at] = [id |-> call[p].id, by |-> call[p].dir]
  /\ Opens(p)
  /\ UNCHANGED <<root, made, local, remote, flying, foreign>>

\* Without a local marker nothing may be at the prefix.
ListEmpty(p) ==
  /\ At(p, "gated")
  /\ local[call[p].dir] = None
  /\ remote[call[p].at] = None /\ call[p].at \notin foreign
  /\ call' = [call EXCEPT ![p].pc = "empty"]
  /\ UNCHANGED <<root, made, local, remote, flying, foreign, gate>>

Marker(p, i) == [at |-> call[p].at, id |-> i, by |-> call[p].dir]
\* Variant: only a restore has an id.
IdsGiven(p) == {call[p].id}
IdsFor(p) == IF call[p].id = None THEN NewIds ELSE {call[p].id}

\* Variant: the remote marker is sent first.
SendBeforeWriting(p) ==
  /\ At(p, "empty")
  /\ \E i \in IdsFor(p) :
       /\ flying' = flying \cup {Marker(p, i)}
       /\ call' = [call EXCEPT ![p].pc = "sent", ![p].id = i]
  /\ UNCHANGED <<root, made, local, remote, foreign, gate>>
\* open("xb"), write, fsync.
WriteLocal(p) ==
  /\ At(p, "empty")
  /\ local[call[p].dir] = None
  /\ \E i \in IdsFor(p) :
       /\ local' = [local EXCEPT ![call[p].dir] = Marker(p, i)]
       /\ call' = [call EXCEPT ![p].pc = "marked", ![p].id = i]
  /\ UNCHANGED <<root, made, remote, flying, foreign, gate>>

SendRemote(p) ==
  /\ At(p, "marked")
  /\ flying' = flying \cup {Marker(p, call[p].id)}
  /\ call' = [call EXCEPT ![p].pc = "sent"]
  /\ UNCHANGED <<root, made, local, remote, foreign, gate>>

\* S3 carries out a create-only put, whenever it does.
Land(m) ==
  /\ m \in flying
  /\ flying' = flying \ {m}
  /\ remote' = [remote EXCEPT ![m.at] = IF @ = None THEN [id |-> m.id, by |-> m.by] ELSE @]
  /\ UNCHANGED <<root, made, local, foreign, gate, call>>

\* Variant: a marker that is there already is taken for one's own.
TakeExisting(p) ==
  /\ At(p, "sent")
  /\ Marker(p, call[p].id) \notin flying
  /\ Opens(p)
  /\ UNCHANGED <<root, made, local, remote, flying, foreign>>
PutReturns(p) ==
  /\ At(p, "sent")
  /\ Marker(p, call[p].id) \notin flying
  /\ remote[call[p].at] = [id |-> call[p].id, by |-> call[p].dir]
  /\ Opens(p)
  /\ UNCHANGED <<root, made, local, remote, flying, foreign>>

\* An exception (BUSY, a mismatch, a put that failed or got no answer), death,
\* or the end of the storage's use.  A marker may have been left unfinished.
Leave(p) ==
  /\ ~ At(p, "idle")
  /\ call' = [call EXCEPT ![p] = Idle]
  /\ gate' = [d \in Dir |-> IF gate[d] = p THEN None ELSE gate[d]]
  /\ \/ UNCHANGED local
     \/ /\ At(p, "empty")
        /\ local[call[p].dir] = None
        /\ local' = [local EXCEPT ![call[p].dir] = Torn]
  /\ UNCHANGED <<root, made, remote, flying, foreign>>

\* A user copies the marker of one directory into another.
CopyMarker(d, e) ==
  /\ local[d] # None
  /\ local[e] = None
  /\ made' = made \cup {e}
  /\ local' = [local EXCEPT ![e] = local[d]]
  /\ UNCHANGED <<root, remote, flying, foreign, gate, call>>

Next ==
  \/ \E p \in Proc :
       \/ \E r \in Root : PutLocal(p, r)
       \/ \E l \in Prefix, d \in Dir, fresh \in BOOLEAN : Start(p, l, d, fresh)
       \/ ReadLocal(p) \/ TakeGate(p) \/ FindMarker(p) \/ CheckRemote(p)
       \/ ListEmpty(p) \/ WriteLocal(p) \/ SendRemote(p) \/ PutReturns(p) \/ Leave(p)
  \/ \E m \in flying : Land(m)
  \/ \E d, e \in Dir : CopyMarker(d, e)

Spec == Init /\ [][Next]_vars
----------------------------------------------------------------------------
(* Properties.                                                             *)

\* Everybody who has a storage open at a place knows it by the same id, and for
\* an S3 prefix shares the directory, and so the access gates, with everybody
\* else: a store is never open under two coordinators (no-adoption).
OneIdentity ==
  \A p, q \in Proc :
    At(p, "open") /\ At(q, "open") /\ call[p].at = call[q].at =>
      call[p].id = call[q].id /\ call[p].dir = call[q].dir

\* Whoever has claimed a prefix can open it again, whatever became of the call
\* that claimed it and whenever its put arrived: the marker of its directory
\* says the same.  Hence a directory claims one prefix, too.  And a prefix with
\* foreign objects is never claimed (S3Storage.__init__).
OwnersAreRecorded ==
  \A l \in Prefix : remote[l] # None =>
    /\ local[remote[l].by] = [at |-> l, id |-> remote[l].id, by |-> remote[l].by]
    /\ l \notin foreign

----------------------------------------------------------------------------
(* Why: the inductive invariant.  A put that S3 has been asked for repeats  *)
(* a marker that was written before and is never written again, so whenever *)
(* it takes effect, and for whomever, the directory knows.                  *)

Recorded(m) == local[m.by] = m /\ m.at \notin foreign

\* What a call knows at each step of a constructor.
CallIsOrderly(p) ==
  LET c == call[p] IN
  /\ c.pc = "reading" => c.at \in Root /\ root[c.at] # None /\ c.dir = None
  /\ c.pc \in {"starting", "gated", "checking", "empty", "marked", "sent"} =>
       c.at \in Prefix /\ c.dir \in Dir
  /\ c.pc = "checking" => c.id \in Id
  /\ c.pc = "empty" => c.at \notin foreign
  /\ c.pc \in {"marked", "sent"} => c.id \in Id /\ Recorded(Marker(p, c.id))
  /\ c.pc = "open" =>
       \/ c.at \in Root /\ root[c.at] # None /\ c.id = root[c.at] /\ c.dir = None
       \/ /\ c.at \in Prefix /\ c.dir \in Dir /\ c.id \in Id
          /\ remote[c.at] = [id |-> c.id, by |-> c.dir]

IInv ==
  /\ TypeOK
  /\ \A m \in flying : Recorded(m)
  /\ OwnersAreRecorded
  /\ \A p \in Proc : CallIsOrderly(p)
=============================================================================
