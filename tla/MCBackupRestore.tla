--------------------------- MODULE MCBackupRestore --------------------------
(* A small instance of BackupRestore for TLC.                              *)
EXTENDS BackupRestore, TLC

Symmetry == Permutations(Key) \cup Permutations(Restorer) \cup Permutations(Content)
  \cup Permutations(Id)
=============================================================================
