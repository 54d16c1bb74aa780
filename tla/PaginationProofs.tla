-------------------------- MODULE PaginationProofs ---------------------------
(***************************************************************************)
(* The branches of the WHERE clause that continues a page say what ORDER   *)
(* BY says, nulls included; that order is transitive and asymmetric; and   *)
(* hence a scan returns what is left alone once, and never turns round.    *)
(* All of it for any number of rows, fields, orders, filters and limits.   *)
(***************************************************************************)
EXTENDS Pagination, TLAPS

\* Where a key comes after the cursor in one column (compile_query).
LEMMA LaterIsOrder ==
  ASSUME NEW o \in Order, NEW v \in Int \cup {Null}, NEW c \in Int \cup {Null}
  PROVE  Later(o, v, c) <=> IF o.desc THEN Less(c, v) ELSE Less(v, c)
BY PaginationAssumption DEF Later, Less, Order

LEMMA OrderingIsOrder ==
  ASSUME order \in Orderings
  PROVE  order \in Seq(Order)
<1>1. PICK o \in OrderBy : order = Ordering(o)
  BY DEF Orderings
<1>2. o \in Seq(Order)
  BY <1>1, PaginationAssumption
<1>3. [field |-> "id", desc |-> FALSE] \in Order
  BY DEF Order
<1>. QED BY <1>1, <1>2, <1>3 DEF Ordering

\* The predicate a page is continued with is the order pages are sorted by:
\* it takes exactly the rows that ORDER BY puts after the cursor.
THEOREM CursorPredicateIsTheOrder ==
  ASSUME TypeOK, NEW cur \in Keys, NEW key \in Keys
  PROVE  After(cur, key) <=> Before(cur, key)
<1>1. ASSUME NEW n \in 1 .. Len(order)
      PROVE  Later(order[n], cur[n], key[n])
               <=> IF order[n].desc THEN Less(key[n], cur[n]) ELSE Less(cur[n], key[n])
  <2>1. order[n] \in Order
    BY OrderingIsOrder DEF TypeOK
  <2>2. cur[n] \in Int \cup {Null} /\ key[n] \in Int \cup {Null}
    BY DEF Keys
  <2>. QED BY <2>1, <2>2, LaterIsOrder
<1>2. ASSUME NEW n \in 1 .. Len(order)
      PROVE  (\A m \in 1 .. n - 1 : key[m] = cur[m]) <=> (\A m \in 1 .. n - 1 : cur[m] = key[m])
  OBVIOUS
<1>. QED BY <1>1, <1>2 DEF After, Before

----------------------------------------------------------------------------
(* The order is strict.                                                     *)

LEMMA LessIsStrict ==
  ASSUME NEW a \in Int \cup {Null}, NEW b \in Int \cup {Null}, NEW c \in Int \cup {Null}
  PROVE  /\ ~ Less(a, a)
         /\ ~ (Less(a, b) /\ Less(b, a))
         /\ Less(a, b) /\ Less(b, c) => Less(a, c)
BY PaginationAssumption DEF Less

\* The n-th column decides that x comes before y.
Decides(n, x, y) ==
  /\ \A m \in 1 .. n - 1 : x[m] = y[m]
  /\ IF order[n].desc THEN Less(y[n], x[n]) ELSE Less(x[n], y[n])

LEMMA BeforeIsTransitive ==
  ASSUME TypeOK, NEW x \in Keys, NEW y \in Keys, NEW z \in Keys, Before(x, y), Before(y, z)
  PROVE  Before(x, z)
<1>0. Len(order) \in Nat
  BY OrderingIsOrder DEF TypeOK
<1>1. PICK m \in 1 .. Len(order) : Decides(m, x, y)
  BY DEF Before, Decides
<1>2. PICK n \in 1 .. Len(order) : Decides(n, y, z)
  BY DEF Before, Decides
<1>3. \A k \in 1 .. Len(order) :
        x[k] \in Int \cup {Null} /\ y[k] \in Int \cup {Null} /\ z[k] \in Int \cup {Null}
  BY DEF Keys
<1>4. CASE m < n
  <2>1. y[m] = z[m] /\ \A k \in 1 .. m - 1 : x[k] = z[k]
    BY <1>0, <1>1, <1>2, <1>4 DEF Decides
  <2>2. Decides(m, x, z)
    BY <1>1, <2>1 DEF Decides
  <2>. QED BY <2>2 DEF Before, Decides
<1>5. CASE n < m
  <2>1. x[n] = y[n] /\ \A k \in 1 .. n - 1 : x[k] = z[k]
    BY <1>0, <1>1, <1>2, <1>5 DEF Decides
  <2>2. Decides(n, x, z)
    BY <1>2, <2>1 DEF Decides
  <2>. QED BY <2>2 DEF Before, Decides
<1>6. CASE m = n
  <2>1. \A k \in 1 .. m - 1 : x[k] = z[k]
    BY <1>0, <1>1, <1>2, <1>6 DEF Decides
  <2>2. Less(x[m], y[m]) /\ Less(y[m], z[m]) => Less(x[m], z[m])
    BY <1>3, LessIsStrict
  <2>3. Less(y[m], x[m]) /\ Less(z[m], y[m]) => Less(z[m], x[m])
    BY <1>3, LessIsStrict
  <2>4. Decides(m, x, z)
    BY <1>1, <1>2, <1>6, <2>1, <2>2, <2>3 DEF Decides
  <2>. QED BY <2>4 DEF Before, Decides
<1>. QED BY <1>0, <1>4, <1>5, <1>6

LEMMA BeforeIsIrreflexive ==
  ASSUME TypeOK, NEW x \in Keys
  PROVE  ~ Before(x, x)
<1>1. \A n \in 1 .. Len(order) : ~ Less(x[n], x[n])
  BY LessIsStrict DEF Keys
<1>. QED BY <1>1 DEF Before

----------------------------------------------------------------------------
(* The scan.                                                                *)

\* What a row that is left alone has to do with the cursor: it has been
\* returned exactly if it does not come after the cursor.
Accounted(i) ==
  /\ i \notin again
  /\ cursor = None => i \notin seen
  /\ cursor # None => (i \in seen <=> ~ After(cursor, KeyOf(table, i)))
  /\ done => i \in seen

IInv ==
  /\ TypeOK
  /\ cursor = None => seen = {}
  /\ \A i \in Matching(table) \ touched : Accounted(i)

LEMMA RowHasKey ==
  ASSUME TypeOK, NEW i \in Id, table[i] # None
  PROVE  KeyOf(table, i) \in Keys
<1>1. ASSUME NEW n \in 1 .. Len(order)
      PROVE  Cell(table, i, order[n].field) \in Int \cup {Null}
  <2>1. order[n] \in Order
    BY OrderingIsOrder DEF TypeOK
  <2>2. table[i] \in Row
    BY DEF TypeOK
  <2>. QED BY <2>1, <2>2, PaginationAssumption DEF Order, Cell, Row
<1>. QED BY <1>1 DEF KeyOf, Keys

LEMMA KeysAreNotNone ==
  ASSUME TypeOK
  PROVE  None \notin Keys
<1>1. Len(order) \in Nat
  BY OrderingIsOrder DEF TypeOK
<1>. QED BY <1>1, PaginationAssumption DEF Keys

LEMMA FindKeepsTypes ==
  ASSUME TypeOK, NEW limit \in 1 .. MaxLimit, Find(limit)
  PROVE  TypeOK'
<1>1. PICK page \in SUBSET Id :
        /\ IsPage(table, page, limit)
        /\ \/ page = {} /\ UNCHANGED cursor
           \/ \E i \in page : LastOf(table, page, i) /\ cursor' = KeyOf(table, i)
        /\ done' = (Cardinality(page) < limit)
        /\ seen' = seen \cup page
        /\ again' = again \cup (seen \cap page)
  BY DEF Find
<1>2. cursor' = None \/ cursor' \in Keys
  <2>1. ASSUME NEW i \in page PROVE table[i] # None
    BY <1>1 DEF IsPage, Candidates, Matching
  <2>. QED BY <1>1, <2>1, RowHasKey DEF TypeOK
<1>3. Keys' = Keys
  BY DEF Find, Keys
<1>4. Orderings' = Orderings
  BY DEF Orderings, Ordering
<1>. QED BY <1>1, <1>2, <1>3, <1>4 DEF TypeOK, Find

LEMMA FindKeeps ==
  ASSUME IInv, NEW limit \in 1 .. MaxLimit, Find(limit)
  PROVE  /\ IInv'
         /\ cursor # None /\ cursor' \notin {cursor, None} => Before(cursor, cursor')
<1>1. PICK page \in SUBSET Id :
        /\ IsPage(table, page, limit)
        /\ \/ page = {} /\ UNCHANGED cursor
           \/ \E i \in page : LastOf(table, page, i) /\ cursor' = KeyOf(table, i)
        /\ done' = (Cardinality(page) < limit)
        /\ seen' = seen \cup page
        /\ again' = again \cup (seen \cap page)
  BY DEF Find
<1>2. TypeOK /\ TypeOK'
  BY FindKeepsTypes DEF IInv
<1>3. ~ done /\ table' = table /\ touched' = touched /\ order' = order /\ filter' = filter
  BY DEF Find
<1>4. \A i \in Matching(table) : table[i] # None /\ KeyOf(table, i) \in Keys
  BY <1>2, RowHasKey DEF Matching
<1>5. page \subseteq Candidates(table) /\ Candidates(table) \subseteq Matching(table)
  BY <1>1 DEF IsPage, Candidates
<1>6. Matching(table)' = Matching(table)
  BY <1>3 DEF Matching
<1>7. \A i : KeyOf(table, i)' = KeyOf(table, i)
  BY <1>3 DEF KeyOf
<1>8. \A x, y : After(x, y)' = After(x, y)
  BY <1>3 DEF After
<1>9. CASE page = {} /\ UNCHANGED cursor
  <2>1. seen' = seen /\ again' = again
    BY <1>1, <1>9
  <2>2. ASSUME NEW i \in Matching(table) \ touched PROVE Accounted(i)'
    <3>1. Accounted(i)
      BY DEF IInv
    <3>2. done' => i \in seen
      BY <1>1, <1>9, <3>1 DEF IsPage, Candidates, Accounted
    <3>3. cursor' # None => (i \in seen' <=> ~ After(cursor, KeyOf(table, i))')
      BY <1>7, <1>8, <1>9, <2>1, <3>1 DEF Accounted
    <3>. QED BY <1>9, <2>1, <3>1, <3>2, <3>3 DEF Accounted
  <2>. QED BY <1>2, <1>3, <1>6, <1>9, <2>1, <2>2 DEF IInv
<1>10. ASSUME NEW last \in page, LastOf(table, page, last), cursor' = KeyOf(table, last)
       PROVE  /\ IInv'
              /\ cursor # None /\ cursor' \notin {cursor, None} => Before(cursor, cursor')
  <2>1. cursor' \in Keys /\ cursor' # None
    BY <1>2, <1>4, <1>5, <1>10, KeysAreNotNone
  <2>2. cursor # None => cursor \in Keys /\ After(cursor, cursor') /\ Before(cursor, cursor')
    BY <1>2, <1>5, <1>10, <2>1, CursorPredicateIsTheOrder DEF Candidates, TypeOK
  <2>3. ASSUME NEW i \in Matching(table) \ touched PROVE Accounted(i)'
    <3>1. Accounted(i) /\ KeyOf(table, i) \in Keys
      BY <1>4 DEF IInv
    <3>2. i \in page => i \notin seen
      BY <1>5, <3>1 DEF Candidates, Accounted
    <3>3. ASSUME i \in page PROVE ~ After(cursor', KeyOf(table, i))
      <4>1. CASE i = last
        BY <4>1, <1>2, <1>10, <2>1, CursorPredicateIsTheOrder, BeforeIsIrreflexive
      <4>2. CASE i # last
        <5>1. Before(KeyOf(table, i), cursor')
          BY <4>2, <3>3, <1>10 DEF LastOf
        <5>2. ~ Before(cursor', KeyOf(table, i))
          BY <5>1, <1>2, <2>1, <3>1, BeforeIsTransitive, BeforeIsIrreflexive
        <5>. QED BY <5>2, <1>2, <2>1, <3>1, CursorPredicateIsTheOrder
      <4>. QED BY <4>1, <4>2
    <3>4. ASSUME i \in seen PROVE ~ After(cursor', KeyOf(table, i))
      <4>1. cursor # None /\ ~ After(cursor, KeyOf(table, i))
        BY <3>1, <3>4 DEF Accounted
      <4>2. ~ Before(cursor, KeyOf(table, i))
        BY <4>1, <1>2, <2>2, <3>1, CursorPredicateIsTheOrder
      <4>3. ~ Before(cursor', KeyOf(table, i))
        BY <4>1, <4>2, <1>2, <2>1, <2>2, <3>1, BeforeIsTransitive
      <4>. QED BY <4>3, <1>2, <2>1, <3>1, CursorPredicateIsTheOrder
    <3>5. ASSUME i \notin seen, i \notin page PROVE After(cursor', KeyOf(table, i))
      <4>1. i \in Candidates(table) \ page
        BY <3>1, <3>5 DEF Candidates, Accounted
      <4>2. Before(cursor', KeyOf(table, i))
        BY <4>1, <1>1, <1>10 DEF IsPage
      <4>. QED BY <4>2, <1>2, <2>1, <3>1, CursorPredicateIsTheOrder
    <3>6. done' => i \in seen'
      BY <1>1, <3>1 DEF IsPage, Candidates, Accounted
    <3>7. i \in seen' <=> ~ After(cursor', KeyOf(table, i))
      BY <1>1, <3>3, <3>4, <3>5
    <3>8. After(cursor, KeyOf(table, i))' = After(cursor', KeyOf(table, i))
      BY <1>3, <1>7 DEF After
    <3>. QED BY <1>1, <2>1, <3>1, <3>2, <3>6, <3>7, <3>8 DEF Accounted
  <2>. QED BY <1>2, <1>3, <1>6, <2>1, <2>2, <2>3 DEF IInv
<1>. QED BY <1>1, <1>9, <1>10

\* A row that changes is touched from then on; the others are where they were.
LEMMA ChangeKeeps ==
  ASSUME IInv, NEW i \in Id, NEW r \in Row \cup {None}, Change(i, r)
  PROVE  IInv'
<1>1. TypeOK'
  BY DEF IInv, TypeOK, Change, scan, Keys, Orderings, Ordering
<1>2. ASSUME NEW j \in Matching(table)' \ touched' PROVE Accounted(j)'
  <2>1. CASE began
    <3>1. j # i /\ table'[j] = table[j]
      BY <1>2, <2>1 DEF Change, IInv, TypeOK, Matching
    <3>2. j \in Matching(table) \ touched
      BY <1>2, <2>1, <3>1 DEF Change, Matching, Cell
    <3>3. KeyOf(table, j)' = KeyOf(table, j)
      BY <3>1 DEF Change, KeyOf, Cell
    <3>4. After(cursor, KeyOf(table, j))' = After(cursor, KeyOf(table, j))
      BY <3>3 DEF Change, scan, After
    <3>. QED BY <3>2, <3>4 DEF IInv, Accounted, Change, scan
  <2>2. CASE ~ began
    <3>1. cursor' = None /\ seen' = {} /\ ~ done'
      BY <2>2 DEF began, Change, scan, IInv
    <3>2. again' = {}
      BY <3>1 DEF IInv, TypeOK, Change, scan
    <3>. QED BY <3>1, <3>2 DEF Accounted
  <2>. QED BY <2>1, <2>2
<1>. QED BY <1>1, <1>2 DEF IInv, Change, scan

LEMMA NewScanKeeps ==
  ASSUME IInv, NewScan
  PROVE  IInv'
<1>1. TypeOK'
  BY DEF IInv, TypeOK, NewScan, Keys, Orderings, Ordering
<1>2. \A i : Accounted(i)'
  BY DEF NewScan, Accounted
<1>. QED BY <1>1, <1>2 DEF IInv, NewScan

LEMMA InitGivesIInv == Init => IInv
<1> SUFFICES ASSUME Init PROVE IInv
  OBVIOUS
<1>1. TypeOK
  BY DEF Init, TypeOK
<1>2. Matching(table) = {}
  BY DEF Init, Matching
<1>. QED BY <1>1, <1>2 DEF Init, IInv

LEMMA StutterKeeps == IInv /\ UNCHANGED vars => IInv'
<1> SUFFICES ASSUME IInv, UNCHANGED vars PROVE IInv'
  OBVIOUS
<1>1. TypeOK'
  BY DEF vars, IInv, TypeOK, Keys, Orderings, Ordering
<1>2. Matching(table)' = Matching(table)
  BY DEF vars, Matching
<1>3. ASSUME NEW i \in Matching(table) \ touched PROVE Accounted(i)'
  <2>1. KeyOf(table, i)' = KeyOf(table, i)
    BY DEF vars, KeyOf
  <2>2. After(cursor, KeyOf(table, i))' = After(cursor, KeyOf(table, i))
    BY <2>1 DEF vars, After
  <2>. QED BY <2>2 DEF vars, IInv, Accounted
<1>. QED BY <1>1, <1>2, <1>3 DEF vars, IInv

LEMMA NextKeepsIInv == IInv /\ [Next]_vars => IInv'
<1> SUFFICES ASSUME IInv, [Next]_vars PROVE IInv'
  OBVIOUS
<1>1. CASE UNCHANGED vars
  BY <1>1, StutterKeeps
<1>2. CASE NewScan
  BY <1>2, NewScanKeeps
<1>3. CASE \E limit \in 1 .. MaxLimit : Find(limit)
  BY <1>3, FindKeeps
<1>4. CASE \E i \in Id, r \in Row \cup {None} : Change(i, r)
  BY <1>4, ChangeKeeps
<1>. QED BY <1>1, <1>2, <1>3, <1>4 DEF Next

LEMMA InvariantHolds == Spec => []IInv
BY InitGivesIInv, NextKeepsIInv, PTL DEF Spec

\* Whatever other sessions commit between pages, a record that is left alone
\* and matches is returned exactly once by a scan (Store.find, compile_query).
THEOREM StableRowsAreReturnedOnce == Spec => []StableRowsOnce
<1>1. IInv => StableRowsOnce
  BY DEF IInv, StableRowsOnce, Accounted
<1>. QED BY <1>1, InvariantHolds, PTL

\* A scan's cursor only ever moves forward in the order it was asked for.
THEOREM CursorsAdvance == Spec => PagesAdvance
<1>1. IInv /\ [Next]_vars
        => [cursor # None /\ cursor' \notin {cursor, None} => Before(cursor, cursor')]_vars
  <2> SUFFICES ASSUME IInv, Next, cursor # None, cursor' \notin {cursor, None}
               PROVE  Before(cursor, cursor')
    OBVIOUS
  <2>1. \E limit \in 1 .. MaxLimit : Find(limit)
    BY DEF Next, NewScan, Change, scan
  <2>. QED BY <2>1, FindKeeps
<1>. QED BY <1>1, InvariantHolds, PTL DEF Spec, PagesAdvance
=============================================================================
