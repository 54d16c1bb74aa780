----------------------------- MODULE BlobStore -----------------------------
(***************************************************************************)
(* What MeldStore promises the applications that share a catalog, without  *)
(* leases, transactions, uploads or cleanup: a blob id names nothing until *)
(* a commit gives it bytes; from then on the bytes in the store are those  *)
(* until a commit retires the id, for good; and a reader is given the      *)
(* bytes of a blob that was ready when it asked.                           *)
(***************************************************************************)
EXTENDS Integers

CONSTANTS Id, Content, Meta, None, MaxVersion, Proc

VARIABLES blob,   \* what each id names
          held    \* the bytes each process has been promised or given

vars == <<blob, held>>

Nothing == [state |-> "absent", bytes |-> None, meta |-> None, version |-> 0]

\* A retired id keeps the version it was retired with, for idempotent deletes.
Retired == {[state |-> "retired", bytes |-> None, meta |-> None, version |-> v] :
              v \in 1 .. MaxVersion}
Live == [state : {"publishing", "ready"}, bytes : Content,
         meta : Meta, version : 1 .. MaxVersion]

TypeOK ==
  /\ blob \in [Id -> {Nothing} \cup Retired \cup Live]
  /\ held \in [Proc -> Content \cup {None}]

Init ==
  /\ blob = [i \in Id |-> Nothing]
  /\ held = [p \in Proc |-> None]

\* One transaction may create, update, publish and retire; what it amounts to:
Evolves(b, c) ==
  \/ c = b
  \/ b = Nothing /\ c \in Live \cup Retired
  \/ /\ b \in Live
     /\ c \in Live
     /\ c.bytes = b.bytes
     /\ b.state = "ready" => c.state = "ready"
     /\ c.version > b.version \/ <<c.version, c.meta>> = <<b.version, b.meta>>
  \/ b \in Live /\ c \in Retired /\ c.version >= b.version

Transact ==
  /\ \A i \in Id : Evolves(blob[i], blob'[i])
  /\ DOMAIN blob' = Id
  /\ UNCHANGED held

Read(p) ==
  /\ \E i \in Id :
       /\ blob[i].state = "ready"
       /\ held' = [held EXCEPT ![p] = blob[i].bytes]
  /\ UNCHANGED blob

Drop(p) == held' = [held EXCEPT ![p] = None] /\ UNCHANGED blob

Next == Transact \/ \E p \in Proc : Read(p) \/ Drop(p)

Spec == Init /\ [][Next]_vars
============================================================================
