------------------------------ MODULE MCExport ------------------------------
(* A small instance of Export for TLC.                                     *)
EXTENDS Export

\* Every blob names bytes of its own.
MCBytes == [i \in Id |-> i]
=============================================================================
