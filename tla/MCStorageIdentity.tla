-------------------------- MODULE MCStorageIdentity -------------------------
(* A small instance of StorageIdentity for TLC.                            *)
EXTENDS StorageIdentity, TLC

Symmetry == Permutations(Proc) \cup Permutations(Prefix) \cup Permutations(Dir)
  \cup Permutations(Id \ {Replica})
=============================================================================
