---------------------------- MODULE MCPagination ----------------------------
(* A small instance of Pagination for TLC.                                 *)
EXTENDS Pagination, SequencesExt

\* Every order by up to two fields, each ascending or descending, with the id
\* declared or not.
MCOrderBy ==
  {o \in BoundedSeq(Order, 3) :
     /\ Len(o) = 3 => o[3].field = "id"
     /\ \A m, n \in 1 .. Len(o) : o[m].field = o[n].field => m = n
     /\ \A n \in 1 .. Len(o) : o[n].field = "id" => n = Len(o)}

\* None; non-null inequality, under which null rows match; equality with null.
MCFilter ==
  {{}, {[field |-> "a", op |-> "ne", value |-> 1]},
   {[field |-> "b", op |-> "eq", value |-> Null]}}
=============================================================================
