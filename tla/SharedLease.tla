---------------------------- MODULE SharedLease ----------------------------
(***************************************************************************)
(* What access gates promise: each belongs to the first catalog that came  *)
(* for it, for good; only participants of that catalog hold it; and one    *)
(* that holds it exclusively holds it alone.  BlobLifecycle takes leases   *)
(* in single steps on the strength of this.                                *)
(***************************************************************************)

CONSTANTS Proc, Path, Gate, None

VARIABLES owner,   \* the catalog each gate belongs to
          held     \* the lease of each process on each gate

vars == <<owner, held>>

Nothing == [mode |-> "none", path |-> None]

Init ==
  /\ owner = [g \in Gate |-> None]
  /\ held = [p \in Proc |-> [g \in Gate |-> Nothing]]

Claim(g, c) ==
  owner[g] = None /\ owner' = [owner EXCEPT ![g] = c] /\ UNCHANGED held

Acquire(p, g, m) ==
  /\ owner[g] # None
  /\ held[p][g] = Nothing
  /\ \A q \in Proc : held[q][g].mode # "exclusive"
  /\ m = "exclusive" => \A q \in Proc : held[q][g] = Nothing
  /\ held' = [held EXCEPT ![p][g] = [mode |-> m, path |-> owner[g]]]
  /\ UNCHANGED owner

\* One by one, or all at once when the process dies.
Release(p, gs) ==
  /\ held' = [held EXCEPT ![p] = [g \in Gate |-> IF g \in gs THEN Nothing ELSE @[g]]]
  /\ UNCHANGED owner

Next ==
  \/ \E g \in Gate, c \in Path : Claim(g, c)
  \/ \E p \in Proc, g \in Gate, m \in {"shared", "exclusive"} : Acquire(p, g, m)
  \/ \E p \in Proc, gs \in SUBSET Gate : Release(p, gs)

Spec == Init /\ [][Next]_vars
----------------------------------------------------------------------------
(* What the promise amounts to.                                            *)

Lease == {Nothing} \cup [mode : {"shared", "exclusive"}, path : Path]

\* Every lease is of the catalog the gate belongs to, and an exclusive one is
\* the only one.
LeasesExclude ==
  /\ owner \in [Gate -> Path \cup {None}]
  /\ held \in [Proc -> [Gate -> Lease]]
  /\ \A p \in Proc, g \in Gate : held[p][g] # Nothing =>
       owner[g] # None /\ held[p][g].path = owner[g]
  /\ \A p, q \in Proc, g \in Gate :
       held[p][g].mode = "exclusive" /\ held[q][g] # Nothing => p = q
============================================================================
