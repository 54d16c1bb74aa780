----------------------------- MODULE Pagination -----------------------------
(***************************************************************************)
(* An application reads all records that match its predicates, in pages:   *)
(* it calls `find` again and again with the cursor of the last record it   *)
(* got, until a page is not full.  Each page is a read transaction; other  *)
(* sessions commit between them.                                           *)
(*                                                                         *)
(* Column values are integers or Null; the table holds the ready blobs of  *)
(* the schema version that is queried.                                     *)
(***************************************************************************)
EXTENDS Integers, Sequences, FiniteSets

CONSTANTS Id,        \* blob ids, in SQLite's order
          Field,     \* metadata fields
          Value,     \* their values other than Null
          Null,
          OrderBy,   \* the order_by arguments an application may use
          Filter,    \* and its sets of predicates
          MaxLimit,  \* the largest page it asks for
          None

Order == [field : Field \cup {"id"}, desc : BOOLEAN]

ASSUME PaginationAssumption ==
  /\ Id \subseteq Int /\ Value \subseteq Int
  /\ Null \notin Int
  /\ "id" \notin Field
  /\ MaxLimit \in Nat \ {0}
  /\ OrderBy \subseteq Seq(Order)
  /\ None \notin Seq(Int \cup {Null})

Row == [Field -> Value \cup {Null}]

VARIABLES table,     \* the rows that can be found
          order,     \* what the scan is ordered by, id last
          filter,    \* and filtered by
          cursor,    \* the values of the cursor, or None before the first page
          done,      \* whether the scan is over
          seen,      \* the ids it returned
          again,     \* the ids it returned more than once
          touched    \* the ids whose rows changed since it began

vars == <<table, order, filter, cursor, done, seen, again, touched>>

\* `ordering` appends the id, which makes the order total.
Ordering(o) ==
  IF \E n \in 1 .. Len(o) : o[n].field = "id"
    THEN o ELSE Append(o, [field |-> "id", desc |-> FALSE])

\* id may only be declared last.
Orderings ==
  {Ordering(o) : o \in {x \in OrderBy : \A n \in 1 .. Len(x) : x[n].field = "id" => n = Len(x)}}

Keys == [1 .. Len(order) -> Int \cup {Null}]

TypeOK ==
  /\ table \in [Id -> Row \cup {None}]
  /\ order \in Orderings
  /\ filter \in Filter
  /\ cursor = None \/ cursor \in Keys
  /\ done \in BOOLEAN
  /\ seen \subseteq Id /\ again \subseteq seen /\ touched \subseteq Id

Init ==
  /\ table = [i \in Id |-> None]
  /\ order \in Orderings
  /\ filter \in Filter
  /\ cursor = None
  /\ done = FALSE
  /\ seen = {} /\ again = {} /\ touched = {}

began == cursor # None \/ done
scan == <<cursor, done, seen, again>>

----------------------------------------------------------------------------
(* Rows and columns.                                                       *)

Cell(t, i, f) == IF f = "id" THEN i ELSE t[i][f]

\* The values of row i in the columns of the order: its cursor.
KeyOf(t, i) == [n \in 1 .. Len(order) |-> Cell(t, i, order[n].field)]

\* A comparison with NULL is never true; null terms are spelled IS [NOT] NULL.
Holds(term, c) ==
  CASE term.op = "is_null"  -> c = Null
    [] term.op = "not_null" -> c # Null
    [] term.op = "eq" -> c = term.value
    [] term.op = "ne" -> IF term.value = Null THEN c # Null ELSE c # Null /\ c # term.value
    [] term.op = "in"     -> c # Null /\ c \in term.value
    [] term.op = "not_in" -> c # Null /\ c \notin term.value
    [] term.op = "lt"  -> c # Null /\ c < term.value
    [] term.op = "lte" -> c # Null /\ c <= term.value
    [] term.op = "gt"  -> c # Null /\ c > term.value
    [] term.op = "gte" -> c # Null /\ c >= term.value

Matching(t) ==
  {i \in Id : t[i] # None /\ \A term \in filter : Holds(term, Cell(t, i, term.field))}

----------------------------------------------------------------------------
(* The order of rows: SQLite's, and the predicate that continues a page.   *)

\* NULL sorts before every value.
Less(a, b) == (a = Null /\ b # Null) \/ (a # Null /\ b # Null /\ a < b)

\* ORDER BY puts a row with key x before one with key y.
Before(x, y) ==
  \E n \in 1 .. Len(order) :
    /\ \A m \in 1 .. n - 1 : x[m] = y[m]
    /\ IF order[n].desc THEN Less(y[n], x[n]) ELSE Less(x[n], y[n])

\* Variant: nulls do not come last in a descending order.
LaterIgnoringNull(o, v, c) ==
  IF v = Null
    THEN ~ o.desc /\ c # Null
    ELSE c # Null /\ IF o.desc THEN c < v ELSE c > v
\* Variant: the cursor's own value is included.
LaterOrEqual(o, v, c) ==
  IF v = Null
    THEN ~ o.desc \/ c = Null
    ELSE \/ o.desc /\ c = Null
         \/ c # Null /\ IF o.desc THEN c <= v ELSE c >= v
\* The last piece of a branch of the WHERE clause: is column value c beyond v?
Later(o, v, c) ==
  IF v = Null
    THEN ~ o.desc /\ c # Null
    ELSE \/ o.desc /\ c = Null
         \/ c # Null /\ IF o.desc THEN c < v ELSE c > v

\* One branch per column: all columns before it are as in the cursor.
After(cur, key) ==
  \E n \in 1 .. Len(order) :
    /\ \A m \in 1 .. n - 1 : key[m] = cur[m]
    /\ Later(order[n], cur[n], key[n])

----------------------------------------------------------------------------
(* find, and the rest of the world.                                        *)

Candidates(t) == {i \in Matching(t) : cursor = None \/ After(cursor, KeyOf(t, i))}

\* ORDER BY and LIMIT.
IsPage(t, page, limit) ==
  /\ page \subseteq Candidates(t)
  /\ Cardinality(page) <= limit
  /\ Cardinality(page) < limit => page = Candidates(t)
  /\ \A i \in page, j \in Candidates(t) \ page : Before(KeyOf(t, i), KeyOf(t, j))

LastOf(t, page, i) == i \in page /\ \A j \in page \ {i} : Before(KeyOf(t, j), KeyOf(t, i))

Find(limit) ==
  /\ ~ done
  /\ \E page \in SUBSET Id :
       /\ IsPage(table, page, limit)
       /\ \/ page = {} /\ UNCHANGED cursor
          \/ \E i \in page : LastOf(table, page, i) /\ cursor' = KeyOf(table, i)
       /\ done' = (Cardinality(page) < limit)
       /\ seen' = seen \cup page
       /\ again' = again \cup (seen \cap page)
  /\ UNCHANGED <<table, order, filter, touched>>

\* Another session publishes, updates or deletes a blob during a scan.
Change(i, r) ==
  /\ ~ done
  /\ table[i] # r
  /\ table' = [table EXCEPT ![i] = r]
  /\ touched' = IF began THEN touched \cup {i} ELSE touched
  /\ UNCHANGED <<order, filter, scan>>

\* The application starts over.
NewScan ==
  /\ done
  /\ cursor' = None
  /\ done' = FALSE
  /\ seen' = {} /\ again' = {} /\ touched' = {}
  /\ UNCHANGED <<table, order, filter>>

Next ==
  \/ NewScan
  \/ \E limit \in 1 .. MaxLimit : Find(limit)
  \/ \E i \in Id, r \in Row \cup {None} : Change(i, r)

Spec == Init /\ [][Next]_vars
----------------------------------------------------------------------------
(* Properties.                                                             *)

\* A row that is left alone while the scan lasts and matches is returned once,
\* whatever happens to the rows around it, the one the cursor was taken from
\* included, and whichever of its sort columns are null (compile_query).
StableRowsOnce ==
  \A i \in Matching(table) \ touched : i \notin again /\ (done => i \in seen)

\* Every page but an empty one takes the cursor further in the order, so that
\* no row makes the scan go round in circles (Store.cursor, compile_query).
PagesAdvance ==
  [][cursor # None /\ cursor' \notin {cursor, None} => Before(cursor, cursor')]_vars
=============================================================================
