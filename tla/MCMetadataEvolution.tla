------------------------ MODULE MCMetadataEvolution -------------------------
(* Small instances of MetadataEvolution for TLC.                           *)
EXTENDS MetadataEvolution, TLC

\* Two senses, written in version 1 as they are and the other way round in the
\* next: a transformation left out changes the sense.
MCTransform == [s \in 1 .. MaxSchema |-> [m \in {0, 1} |-> 1 - m]]
MCMeaning == [s \in 1 .. MaxSchema |-> [m \in {0, 1} |-> (m + s + 1) % 2]]

Symmetry == Permutations(Proc)
=============================================================================
