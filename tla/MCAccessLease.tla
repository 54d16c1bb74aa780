--------------------------- MODULE MCAccessLease ---------------------------
(* Small instances of AccessLease for TLC.                                 *)
EXTENDS AccessLease, TLC

\* Processes, catalogs and roots are only ever compared.
Symmetry == Permutations(Proc) \cup Permutations(Path) \cup Permutations(Root)
============================================================================
