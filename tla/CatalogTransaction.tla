------------------------- MODULE CatalogTransaction -------------------------
(***************************************************************************)
(* One Catalog: its connection, the transaction it has open, and what the  *)
(* application is told about the end of it.  Any statement on the          *)
(* connection may raise, and may have taken effect when it does.           *)
(*                                                                         *)
(* With the sqlite adapter the statements BEGIN, COMMIT, ROLLBACK and      *)
(* PRAGMA query_only are the catalog's own; with the melddb adapter a      *)
(* context manager of MeldDB issues them and raises the outcome as an      *)
(* error with evidence, an ordinary error, or a bare control-flow          *)
(* exception once everything is settled.                                   *)
(***************************************************************************)

CONSTANT Value      \* contents of the catalog file

ASSUME ValueAssumption == Value # {}

VARIABLES adapter,  \* "sqlite" or "melddb", as long as the catalog is used
          db,       \* the contents of the catalog file
          conn,     \* the connection, as SQLite has it
          pc,       \* where in the transaction's context manager we are
          tx,       \* the active Transaction: _write and _failed
          saved,    \* previous_query_only
          broken,   \* _broken
          closed,   \* _closed
          report,   \* how the last transaction ended, as the application heard
          fate      \* what became of it in the file

vars == <<adapter, db, conn, pc, tx, saved, broken, closed, report, fate>>

Fresh(v) == [txn |-> "none", data |-> v, queryOnly |-> "off"]
Connection == [txn : {"none", "read", "write"}, data : Value, queryOnly : {"off", "on"}]

NoTx == [write |-> FALSE, failed |-> FALSE]
NoReport == [kind |-> "none", phase |-> "none", outcome |-> "none"]
Returned == [kind |-> "returned", phase |-> "none", outcome |-> "none"]
Raised   == [kind |-> "raised", phase |-> "none", outcome |-> "none"]
\* CommitError, RollbackError or TransactionOutcomeError.
Uncertain(phase, outcome) ==
  [kind |-> "uncertain", phase |-> phase, outcome |-> outcome]

Report == {NoReport, Returned, Raised}
  \cup {Uncertain(ph, out) : ph \in {"begin", "commit", "rollback", "cleanup"},
                             out \in {"unknown", "committed", "rolled_back"}}
Pc == {"idle", "readonly", "begin", "recover", "entering", "body", "commit",
       "rollback", "restore_committed", "restore_rolled_back"}

TypeOK ==
  /\ adapter \in {"sqlite", "melddb"}
  /\ db \in Value
  /\ conn \in Connection
  /\ pc \in Pc
  /\ tx \in [write : BOOLEAN, failed : BOOLEAN]
  /\ saved \in {"unset", "off", "on"}
  /\ broken \in BOOLEAN
  /\ closed \in BOOLEAN
  /\ report \in Report
  /\ fate \in {"none", "open", "committed", "rolled_back"}

Init ==
  /\ adapter \in {"sqlite", "melddb"}
  /\ db \in Value
  /\ conn = Fresh(db)
  /\ pc = "idle"
  /\ tx = NoTx
  /\ saved = "unset"
  /\ broken = FALSE
  /\ closed = FALSE
  /\ report = NoReport
  /\ fate = "none"

session == <<broken, closed, report>>

----------------------------------------------------------------------------
(* What SQLite does to the connection and the file.                        *)

Settled(f) == IF f = "open" THEN "rolled_back" ELSE f

\* The transaction begins with a snapshot; a write one holds the write lock.
SqliteBegins ==
  /\ conn' = [conn EXCEPT !.txn = IF tx.write THEN "write" ELSE "read", !.data = db]
  /\ fate' = "open"
  /\ UNCHANGED db

SqliteCommits(queryOnly) ==
  /\ db' = IF conn.txn = "write" THEN conn.data ELSE db
  /\ conn' = [conn EXCEPT !.txn = "none", !.queryOnly = queryOnly]
  /\ fate' = "committed"

SqliteRollsBack(queryOnly) ==
  /\ conn' = [conn EXCEPT !.txn = "none", !.queryOnly = queryOnly]
  /\ fate' = Settled(fate)
  /\ UNCHANGED db

SqliteDoesNothing == UNCHANGED <<db, conn, fate>>

----------------------------------------------------------------------------
(* The ends of the context manager.                                        *)

\* The transaction is over; an uncertain outcome quarantines the catalog.
End(r) ==
  /\ pc' = "idle"
  /\ tx' = NoTx
  /\ saved' = "unset"
  /\ report' = r
  /\ broken' = (r.kind = "uncertain")
  /\ UNCHANGED closed

Goto(p) == pc' = p /\ UNCHANGED <<tx, saved, session>>

Enter(w) ==
  /\ ~ closed
  /\ ~ broken
  /\ pc = "idle"
  /\ pc' = CASE adapter = "melddb" -> "entering"
             [] w -> "begin"
             [] OTHER -> "readonly"
  /\ tx' = [write |-> w, failed |-> FALSE]
  /\ report' = NoReport
  /\ fate' = "none"
  /\ UNCHANGED <<db, conn, saved, broken, closed>>

\* A read transaction makes the connection refuse writes.
SetReadOnly ==
  /\ pc = "readonly"
  /\ saved' = conn.queryOnly
  /\ \/ conn' = [conn EXCEPT !.queryOnly = "on"] /\ pc' = "begin"
     \/ /\ conn' \in {conn, [conn EXCEPT !.queryOnly = "on"]}
        /\ pc' = "recover"
  /\ UNCHANGED <<db, tx, session, fate>>

\* Asking for the previous setting failed: there is nothing to restore.
ReadOnlyUnknown ==
  /\ pc = "readonly"
  /\ Goto("recover")
  /\ SqliteDoesNothing

BeginSucceeds == pc = "begin" /\ SqliteBegins /\ Goto("body")
BeginFails ==
  /\ pc = "begin"
  /\ SqliteBegins \/ SqliteDoesNothing
  /\ Goto("recover")

\* Variant: a setting that could not be read is restored all the same.
RecoverRestoresAlways ==
  /\ pc = "recover"
  /\ SqliteRollsBack(saved)
  /\ End(Raised)
\* ROLLBACK if a transaction is open, then the previous query_only.
RecoverSucceeds ==
  /\ pc = "recover"
  /\ SqliteRollsBack(IF saved = "unset" THEN conn.queryOnly ELSE saved)
  /\ End(Raised)

RecoverFails ==
  /\ pc = "recover"
  /\ \/ conn.txn # "none" /\ SqliteDoesNothing
     \/ /\ conn.txn # "none" \/ saved # "unset"
        /\ \E q \in {conn.queryOnly, saved} \ {"unset"} : SqliteRollsBack(q)
  /\ End(Uncertain("begin", "unknown"))

----------------------------------------------------------------------------
(* Inside the with block.                                                  *)

\* Variant: a failed transaction still executes statements.
SqlUnchecked(v) ==
  /\ pc = "body"
  /\ conn.queryOnly = "off"
  /\ IF conn.txn = "none"
       THEN db' = v /\ fate' = "committed" /\ UNCHANGED conn
       ELSE conn' = [conn EXCEPT !.data = v] /\ UNCHANGED <<db, fate>>
  /\ UNCHANGED <<pc, tx, saved, session>>
\* A statement that writes.  Outside a transaction SQLite would commit it.
Sql(v) ==
  /\ pc = "body"
  /\ ~ tx.failed
  /\ conn.queryOnly = "off"
  /\ IF conn.txn = "none"
       THEN db' = v /\ fate' = "committed" /\ UNCHANGED conn
       ELSE conn' = [conn EXCEPT !.data = v] /\ UNCHANGED <<db, fate>>
  /\ UNCHANGED <<pc, tx, saved, session>>

\* An operation raises: after some of its statements, or because SQLite rolled
\* the whole transaction back, or because the catalog was misused (a nested
\* transaction, storage I/O, closing, a foreign or expired Transaction).
OperationFails ==
  /\ pc = "body"
  /\ \/ SqliteDoesNothing
     \/ /\ conn.queryOnly = "off"
        /\ conn.txn = "write"
        /\ \E v \in Value : conn' = [conn EXCEPT !.data = v]
        /\ UNCHANGED <<db, fate>>
     \/ conn.txn # "none" /\ SqliteRollsBack(conn.queryOnly)
  /\ tx' = [tx EXCEPT !.failed = TRUE]
  /\ UNCHANGED <<pc, saved, session>>

\* The with block ends, normally or with an exception.
Leave ==
  /\ pc = "body"
  /\ Goto("rollback") \/ (~ tx.failed /\ Goto("commit"))
  /\ SqliteDoesNothing

----------------------------------------------------------------------------
(* COMMIT and ROLLBACK with the sqlite adapter.                            *)

CommitSucceeds ==
  /\ pc = "commit"
  /\ adapter = "sqlite"
  /\ conn.txn # "none"
  /\ SqliteCommits(conn.queryOnly)
  /\ IF tx.write THEN End(Returned) ELSE Goto("restore_committed")

\* Variant: a COMMIT that raised is taken for a rollback.
CommitFailsQuietly ==
  /\ pc = "commit"
  /\ \/ SqliteCommits(conn.queryOnly)
     \/ SqliteRollsBack(conn.queryOnly)
     \/ SqliteDoesNothing
  /\ End(Raised)
CommitFails ==
  /\ pc = "commit"
  /\ \/ SqliteCommits(conn.queryOnly)
     \/ SqliteRollsBack(conn.queryOnly)
     \/ SqliteDoesNothing
  /\ End(Uncertain("commit", "unknown"))

\* Variant: the rollback of a read transaction skips the restoration.
RollbackKeepsQueryOnly ==
  /\ pc = "rollback"
  /\ conn.txn # "none"
  /\ SqliteRollsBack(conn.queryOnly)
  /\ End(Raised)
RollbackSucceeds ==
  /\ pc = "rollback"
  /\ adapter = "sqlite"
  /\ conn.txn # "none"
  /\ SqliteRollsBack(conn.queryOnly)
  /\ IF tx.write THEN End(Raised) ELSE Goto("restore_rolled_back")

\* Also raised when SQLite has rolled the transaction back by itself.
RollbackFails ==
  /\ pc = "rollback"
  /\ SqliteRollsBack(conn.queryOnly) \/ SqliteDoesNothing
  /\ End(Uncertain("rollback", "unknown"))

Restoring == pc \in {"restore_committed", "restore_rolled_back"}
Known == IF pc = "restore_committed" THEN "committed" ELSE "rolled_back"

RestoreSucceeds ==
  /\ Restoring
  /\ conn' = [conn EXCEPT !.queryOnly = saved]
  /\ End(IF Known = "committed" THEN Returned ELSE Raised)
  /\ UNCHANGED <<db, fate>>

RestoreFails ==
  /\ Restoring
  /\ \E q \in {conn.queryOnly, saved} : conn' = [conn EXCEPT !.queryOnly = q]
  /\ End(Uncertain("cleanup", Known))
  /\ UNCHANGED <<db, fate>>

----------------------------------------------------------------------------
(* The same with MeldDB's transaction manager.                             *)

ManagerEnters ==
  /\ pc = "entering"
  /\ \/ /\ conn' = [txn |-> IF tx.write THEN "write" ELSE "read", data |-> db,
                    queryOnly |-> IF tx.write THEN "off" ELSE "on"]
        /\ fate' = "open"
        /\ UNCHANGED db
        /\ Goto("body")
     \/ SqliteDoesNothing /\ End(Raised)
     \/ /\ SqliteBegins \/ \E q \in {"off", "on"} : SqliteRollsBack(q)
        /\ End(Uncertain("begin", "unknown"))

ManagerCommits ==
  /\ pc = "commit"
  /\ adapter = "melddb"
  /\ \/ conn.txn # "none" /\ SqliteCommits("off") /\ End(Returned)
     \/ conn.txn # "none" /\ SqliteCommits("on") /\ End(Uncertain("cleanup", "committed"))
     \/ SqliteRollsBack("off") /\ End(Raised)

ManagerRollsBack ==
  /\ pc = "rollback"
  /\ adapter = "melddb"
  /\ \/ SqliteRollsBack("off") /\ End(Raised)
     \/ SqliteRollsBack("on") /\ End(Uncertain("cleanup", "rolled_back"))

----------------------------------------------------------------------------
(* Closing, and the rest of the world.                                     *)

\* Whatever the connection still held is undone.
Gone ==
  /\ closed' = TRUE
  /\ conn' = Fresh(db)
  /\ fate' = Settled(fate)
  /\ pc' = "idle"
  /\ tx' = NoTx
  /\ saved' = "unset"
  /\ UNCHANGED <<db, broken, report>>

\* Closing is refused, and poisons, while a transaction is active.
Close == ~ closed /\ pc = "idle" /\ Gone
Crash == ~ closed /\ pc # "idle" /\ Gone

Reopen ==
  /\ closed
  /\ closed' = FALSE
  /\ broken' = FALSE
  /\ report' = NoReport
  /\ fate' = "none"
  /\ UNCHANGED <<db, conn, pc, tx, saved>>

OtherCommits(v) ==
  /\ conn.txn # "write"
  /\ db' = v
  /\ UNCHANGED <<conn, pc, tx, saved, session, fate>>

\* The catalog's own statements (a COMMIT or ROLLBACK of MeldDB's fails like
\* its own if there is no evidence of the outcome), and the rest of MeldDB's.
SqliteBoundary ==
  \/ SetReadOnly \/ ReadOnlyUnknown \/ BeginSucceeds \/ BeginFails
  \/ RecoverSucceeds \/ RecoverFails
  \/ CommitSucceeds \/ CommitFails \/ RollbackSucceeds \/ RollbackFails
  \/ RestoreSucceeds \/ RestoreFails
MelddbBoundary == ManagerEnters \/ ManagerCommits \/ ManagerRollsBack

Next ==
  /\ UNCHANGED adapter
  /\ \/ \E w \in BOOLEAN : Enter(w)
     \/ SqliteBoundary \/ MelddbBoundary
     \/ \E v \in Value : Sql(v)
     \/ OperationFails \/ Leave
     \/ Close \/ Crash \/ Reopen
     \/ \E v \in Value : OtherCommits(v)

Spec == Init /\ [][Next]_vars
----------------------------------------------------------------------------
(* Properties.                                                             *)

\* What the application hears agrees with what happened to the file: a with
\* block that returned has committed, one that re-raised the application's
\* exception has not, an outcome error's `outcome` is true unless it is
\* "unknown" (the boundaries of _sqlite_transaction and _melddb_transaction).
ReportIsHonest ==
  /\ report.kind = "returned" => fate = "committed"
  /\ report.kind = "raised" => fate \in {"none", "rolled_back"}
  /\ report.kind = "uncertain" /\ report.outcome # "unknown" => fate = report.outcome

\* Between transactions a catalog that is not quarantined holds no transaction,
\* hence no lock, and refuses no writes: no boundary failure of an earlier
\* transaction leaks into the next one (_quarantine, _set_query_only).
NothingLeaks ==
  pc = "idle" /\ ~ broken => conn.txn = "none" /\ conn.queryOnly = "off"

\* This catalog changes the file only by the COMMIT of a write transaction in
\* which no operation failed, although the application may swallow a failed
\* operation's exception and SQLite may have rolled back under its feet
\* (Transaction._failed, require_transaction).
OnlyCommitsWrite ==
  [][\/ db' = db
     \/ pc = "commit" /\ tx.write /\ ~ tx.failed /\ fate' = "committed"
     \/ \E v \in Value : OtherCommits(v)]_vars

\* A quarantined catalog does no SQL until it is closed (Catalog._check).
QuarantinedIsInert ==
  [][broken /\ ~ closed /\ ~ closed' => UNCHANGED <<conn, pc, broken, report>>]_vars

----------------------------------------------------------------------------
(* What all of this implements.                                            *)

Transactions == INSTANCE AtomicTransaction WITH
  staged <- IF conn.txn = "write" THEN {conn.data} ELSE {},
  poisoned <- tx.failed,
  outcome <- fate,
  quarantined <- broken

\* Whatever statement of a boundary raises, with or without effect, and whether
\* or not the caller can be told the outcome, the transactions of a catalog are
\* atomic and isolated ones (_sqlite_transaction, _melddb_transaction).
KeepsTransactions == Transactions!Spec

----------------------------------------------------------------------------
(* Why: the inductive invariant.  Where the context manager is tells what  *)
(* the connection holds and what has become of the transaction.            *)

Outside == pc \in {"readonly", "begin", "entering"}
Inside  == pc \in {"body", "commit", "rollback"}

\* A read transaction of the catalog's own has writes refused until the end.
SettingIsKnown ==
  /\ pc \in {"idle", "readonly", "entering"} => saved = "unset"
  /\ pc \in {"readonly", "entering"} => conn.queryOnly = "off"
  /\ pc = "readonly" => ~ tx.write
  /\ pc = "entering" => adapter = "melddb"
  /\ pc = "begin" \/ Inside => conn.queryOnly = IF tx.write THEN "off" ELSE "on"
  /\ pc = "begin" \/ (Inside /\ adapter = "sqlite") => saved = IF tx.write THEN "unset" ELSE "off"
  /\ pc = "recover" => saved = "off" \/ (saved = "unset" /\ conn.queryOnly = "off")
  /\ Restoring => saved = "off"

\* A transaction that SQLite has rolled back is marked as failed.
TransactionIsKnown ==
  /\ Outside => conn.txn = "none" /\ fate = "none"
  /\ pc = "recover" => fate \in {"none", "open"}
  /\ Inside => \/ conn.txn = (IF tx.write THEN "write" ELSE "read") /\ fate = "open"
               \/ conn.txn = "none" /\ fate = "rolled_back" /\ tx.failed
  /\ pc = "commit" => ~ tx.failed
  /\ Restoring => conn.txn = "none" /\ fate = Known

IInv ==
  /\ TypeOK
  /\ pc # "idle" => ~ broken /\ ~ closed /\ report = NoReport
  /\ closed => conn.txn = "none" /\ conn.queryOnly = "off"
  /\ SettingIsKnown
  /\ TransactionIsKnown
  /\ NothingLeaks
  /\ ReportIsHonest
=============================================================================
