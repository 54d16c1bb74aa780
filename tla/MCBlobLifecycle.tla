-------------------------- MODULE MCBlobLifecycle --------------------------
(* Small instances of BlobLifecycle for TLC.                               *)
EXTENDS BlobLifecycleInv, TLC

\* Ids, keys, payloads and metadata are only ever compared, and processes are
\* alike, so permuting any of these sets maps behaviours to behaviours.
Symmetry == Permutations(Proc) \cup Permutations(Id) \cup Permutations(Key)
              \cup Permutations(Content) \cup Permutations(Meta)
============================================================================
