---------------------- MODULE CatalogTransactionProofs -----------------------
(***************************************************************************)
(* The invariant IInv of CatalogTransaction is inductive, whatever the     *)
(* contents of the file; what the application hears is true, nothing leaks *)
(* into the next transaction, and only a COMMIT of a write transaction     *)
(* writes.                                                                 *)
(***************************************************************************)
EXTENDS CatalogTransaction, TLAPS

LEMMA ReportsAreTyped ==
  /\ NoReport \in Report /\ Returned \in Report /\ Raised \in Report
  /\ \A ph \in {"begin", "commit", "rollback", "cleanup"},
        out \in {"unknown", "committed", "rolled_back"} : Uncertain(ph, out) \in Report
BY DEF Report

LEMMA InitGivesIInv == Init => IInv
<1> SUFFICES ASSUME Init PROVE IInv
  OBVIOUS
<1>1. TypeOK
  BY ReportsAreTyped DEF Init, TypeOK, Connection, Pc, Fresh, NoTx
<1>2. SettingIsKnown /\ TransactionIsKnown
  BY DEF Init, SettingIsKnown, TransactionIsKnown, Outside, Inside, Restoring, Fresh
<1>3. NothingLeaks /\ ReportIsHonest
  BY DEF Init, NothingLeaks, ReportIsHonest, Fresh, NoReport
<1>. QED BY <1>1, <1>2, <1>3 DEF Init, IInv

LEMMA EndIsTyped ==
  ASSUME NEW r \in Report, End(r), closed \in BOOLEAN
  PROVE  /\ pc' \in Pc /\ tx' \in [write : BOOLEAN, failed : BOOLEAN]
         /\ saved' \in {"unset", "off", "on"} /\ report' \in Report
         /\ broken' \in BOOLEAN /\ closed' \in BOOLEAN
BY DEF End, Pc, NoTx

LEMMA SqliteIsTyped ==
  ASSUME TypeOK, NEW q \in {"off", "on"}, SqliteCommits(q) \/ SqliteRollsBack(q)
  PROVE  /\ db' \in Value /\ conn' \in Connection
         /\ fate' \in {"none", "open", "committed", "rolled_back"}
BY DEF TypeOK, SqliteCommits, SqliteRollsBack, Settled, Connection

----------------------------------------------------------------------------
(* One lemma per action.                                                   *)

LEMMA EnterKeeps ==
  ASSUME IInv, UNCHANGED adapter, NEW w \in BOOLEAN, Enter(w)
  PROVE  IInv'
<1>1. TypeOK'
  BY ReportsAreTyped DEF Enter, IInv, TypeOK, Connection, Pc
<1>2. (pc # "idle" => ~ broken /\ ~ closed /\ report = NoReport)'
  BY DEF Enter, NoReport, IInv, TypeOK
<1>3. (closed => conn.txn = "none" /\ conn.queryOnly = "off")'
  BY DEF Enter, NoReport, IInv, TypeOK, Connection
<1>4. SettingIsKnown'
  BY DEF Enter, NoReport, IInv, TypeOK, Connection, SettingIsKnown,
         NothingLeaks, Restoring, Inside
<1>5. TransactionIsKnown'
  BY DEF Enter, NoReport, IInv, TypeOK, Connection, TransactionIsKnown,
         NothingLeaks, Restoring, Inside, Outside, Known
<1>6. NothingLeaks'
  BY DEF Enter, NoReport, IInv, TypeOK, Connection, SettingIsKnown,
         TransactionIsKnown, NothingLeaks, Inside
<1>7. ReportIsHonest'
  BY DEF Enter, NoReport, IInv, TypeOK, Connection, TransactionIsKnown,
         ReportIsHonest, Inside, Outside
<1>. QED BY <1>1, <1>2, <1>3, <1>4, <1>5, <1>6, <1>7 DEF IInv

LEMMA SetReadOnlyKeeps ==
  ASSUME IInv, UNCHANGED adapter, SetReadOnly
  PROVE  IInv'
<1>1. TypeOK'
  BY DEF SetReadOnly, session, IInv, TypeOK, Connection, Pc
<1>2. (pc # "idle" => ~ broken /\ ~ closed /\ report = NoReport)'
  BY DEF SetReadOnly, session, NoReport, IInv, TypeOK
<1>3. (closed => conn.txn = "none" /\ conn.queryOnly = "off")'
  BY DEF SetReadOnly, session, IInv, TypeOK, Connection
<1>4. SettingIsKnown'
  BY DEF SetReadOnly, session, IInv, TypeOK, Connection, SettingIsKnown,
         NothingLeaks, Restoring, Inside
<1>5. TransactionIsKnown'
  BY DEF SetReadOnly, session, IInv, TypeOK, Connection, TransactionIsKnown,
         NothingLeaks, Restoring, Inside, Outside, Known
<1>6. NothingLeaks'
  BY DEF SetReadOnly, session, IInv, TypeOK, Connection, SettingIsKnown,
         TransactionIsKnown, NothingLeaks, Inside
<1>7. ReportIsHonest'
  BY DEF SetReadOnly, session, NoReport, IInv, TypeOK, Connection,
         TransactionIsKnown, ReportIsHonest, Inside, Outside
<1>. QED BY <1>1, <1>2, <1>3, <1>4, <1>5, <1>6, <1>7 DEF IInv

LEMMA ReadOnlyUnknownKeeps ==
  ASSUME IInv, UNCHANGED adapter, ReadOnlyUnknown
  PROVE  IInv'
<1>1. TypeOK'
  BY DEF ReadOnlyUnknown, Goto, session, SqliteDoesNothing, IInv, TypeOK,
         Connection, Pc
<1>2. (pc # "idle" => ~ broken /\ ~ closed /\ report = NoReport)'
  BY DEF ReadOnlyUnknown, Goto, session, SqliteDoesNothing, NoReport, IInv,
         TypeOK
<1>3. (closed => conn.txn = "none" /\ conn.queryOnly = "off")'
  BY DEF ReadOnlyUnknown, Goto, session, SqliteDoesNothing, IInv, TypeOK,
         Connection
<1>4. SettingIsKnown'
  BY DEF ReadOnlyUnknown, Goto, session, SqliteDoesNothing, IInv, TypeOK,
         Connection, SettingIsKnown, NothingLeaks, Restoring, Inside
<1>5. TransactionIsKnown'
  BY DEF ReadOnlyUnknown, Goto, session, SqliteDoesNothing, IInv, TypeOK,
         Connection, TransactionIsKnown, NothingLeaks, Restoring, Inside,
         Outside, Known
<1>6. NothingLeaks'
  BY DEF ReadOnlyUnknown, Goto, session, SqliteDoesNothing, IInv, TypeOK,
         Connection, SettingIsKnown, TransactionIsKnown, NothingLeaks, Inside
<1>7. ReportIsHonest'
  BY DEF ReadOnlyUnknown, Goto, session, SqliteDoesNothing, NoReport, IInv,
         TypeOK, Connection, TransactionIsKnown, ReportIsHonest, Inside,
         Outside
<1>. QED BY <1>1, <1>2, <1>3, <1>4, <1>5, <1>6, <1>7 DEF IInv

LEMMA BeginSucceedsKeeps ==
  ASSUME IInv, UNCHANGED adapter, BeginSucceeds
  PROVE  IInv'
<1>1. TypeOK'
  BY DEF BeginSucceeds, Goto, session, SqliteBegins, IInv, TypeOK, Connection,
         Pc
<1>2. (pc # "idle" => ~ broken /\ ~ closed /\ report = NoReport)'
  BY DEF BeginSucceeds, Goto, session, SqliteBegins, NoReport, IInv, TypeOK
<1>3. (closed => conn.txn = "none" /\ conn.queryOnly = "off")'
  BY DEF BeginSucceeds, Goto, session, SqliteBegins, IInv, TypeOK, Connection
<1>4. SettingIsKnown'
  BY DEF BeginSucceeds, Goto, session, SqliteBegins, IInv, TypeOK, Connection,
         SettingIsKnown, NothingLeaks, Restoring, Inside
<1>5. TransactionIsKnown'
  BY DEF BeginSucceeds, Goto, session, SqliteBegins, IInv, TypeOK, Connection,
         TransactionIsKnown, NothingLeaks, Restoring, Inside, Outside, Known
<1>6. NothingLeaks'
  BY DEF BeginSucceeds, Goto, session, SqliteBegins, IInv, TypeOK, Connection,
         SettingIsKnown, TransactionIsKnown, NothingLeaks, Inside
<1>7. ReportIsHonest'
  BY DEF BeginSucceeds, Goto, session, SqliteBegins, NoReport, IInv, TypeOK,
         Connection, TransactionIsKnown, ReportIsHonest, Inside, Outside
<1>. QED BY <1>1, <1>2, <1>3, <1>4, <1>5, <1>6, <1>7 DEF IInv

LEMMA BeginFailsKeeps ==
  ASSUME IInv, UNCHANGED adapter, BeginFails
  PROVE  IInv'
<1>1. TypeOK'
  BY DEF BeginFails, Goto, session, SqliteBegins, SqliteDoesNothing, IInv,
         TypeOK, Connection, Pc
<1>2. (pc # "idle" => ~ broken /\ ~ closed /\ report = NoReport)'
  BY DEF BeginFails, Goto, session, SqliteBegins, SqliteDoesNothing, NoReport,
         IInv, TypeOK
<1>3. (closed => conn.txn = "none" /\ conn.queryOnly = "off")'
  BY DEF BeginFails, Goto, session, SqliteBegins, SqliteDoesNothing, IInv,
         TypeOK, Connection
<1>4. SettingIsKnown'
  BY DEF BeginFails, Goto, session, SqliteBegins, SqliteDoesNothing, IInv,
         TypeOK, Connection, SettingIsKnown, NothingLeaks, Restoring, Inside
<1>5. TransactionIsKnown'
  BY DEF BeginFails, Goto, session, SqliteBegins, SqliteDoesNothing, IInv,
         TypeOK, Connection, TransactionIsKnown, NothingLeaks, Restoring,
         Inside, Outside, Known
<1>6. NothingLeaks'
  BY DEF BeginFails, Goto, session, SqliteBegins, SqliteDoesNothing, IInv,
         TypeOK, Connection, SettingIsKnown, TransactionIsKnown, NothingLeaks,
         Inside
<1>7. ReportIsHonest'
  BY DEF BeginFails, Goto, session, SqliteBegins, SqliteDoesNothing, NoReport,
         IInv, TypeOK, Connection, TransactionIsKnown, ReportIsHonest, Inside,
         Outside
<1>. QED BY <1>1, <1>2, <1>3, <1>4, <1>5, <1>6, <1>7 DEF IInv

LEMMA RecoverSucceedsKeeps ==
  ASSUME IInv, UNCHANGED adapter, RecoverSucceeds
  PROVE  IInv'
<1>1. TypeOK'
  BY ReportsAreTyped, EndIsTyped, SqliteIsTyped
    DEF RecoverSucceeds, IInv, TypeOK, Connection, Pc
<1>2. (pc # "idle" => ~ broken /\ ~ closed /\ report = NoReport)'
  BY DEF RecoverSucceeds, End, NoTx, SqliteRollsBack, Settled, Raised,
         NoReport, IInv, TypeOK
<1>3. (closed => conn.txn = "none" /\ conn.queryOnly = "off")'
  BY DEF RecoverSucceeds, End, NoTx, SqliteRollsBack, Settled, Raised, IInv,
         TypeOK, Connection
<1>4. SettingIsKnown'
  BY DEF RecoverSucceeds, End, NoTx, SqliteRollsBack, Settled, Raised, IInv,
         TypeOK, Connection, SettingIsKnown, NothingLeaks, Restoring, Inside
<1>5. TransactionIsKnown'
  BY DEF RecoverSucceeds, End, NoTx, SqliteRollsBack, Settled, Raised, IInv,
         TypeOK, Connection, TransactionIsKnown, NothingLeaks, Restoring,
         Inside, Outside, Known
<1>6. NothingLeaks'
  BY DEF RecoverSucceeds, End, NoTx, SqliteRollsBack, Settled, Raised, IInv,
         TypeOK, Connection, SettingIsKnown, TransactionIsKnown, NothingLeaks,
         Inside
<1>7. ReportIsHonest'
  BY DEF RecoverSucceeds, End, NoTx, SqliteRollsBack, Settled, Raised,
         NoReport, IInv, TypeOK, Connection, TransactionIsKnown,
         ReportIsHonest, Inside, Outside
<1>. QED BY <1>1, <1>2, <1>3, <1>4, <1>5, <1>6, <1>7 DEF IInv

LEMMA RecoverFailsKeeps ==
  ASSUME IInv, UNCHANGED adapter, RecoverFails
  PROVE  IInv'
<1>1. TypeOK'
  BY ReportsAreTyped, EndIsTyped, SqliteIsTyped
    DEF RecoverFails, SqliteDoesNothing, IInv, TypeOK, Connection, Pc
<1>2. (pc # "idle" => ~ broken /\ ~ closed /\ report = NoReport)'
  BY DEF RecoverFails, End, NoTx, SqliteRollsBack, Settled, SqliteDoesNothing,
         Uncertain, NoReport, IInv, TypeOK
<1>3. (closed => conn.txn = "none" /\ conn.queryOnly = "off")'
  BY DEF RecoverFails, End, NoTx, SqliteRollsBack, Settled, SqliteDoesNothing,
         Uncertain, IInv, TypeOK, Connection
<1>4. SettingIsKnown'
  BY DEF RecoverFails, End, NoTx, SqliteRollsBack, Settled, SqliteDoesNothing,
         Uncertain, IInv, TypeOK, Connection, SettingIsKnown, NothingLeaks,
         Restoring, Inside
<1>5. TransactionIsKnown'
  BY DEF RecoverFails, End, NoTx, SqliteRollsBack, Settled, SqliteDoesNothing,
         Uncertain, IInv, TypeOK, Connection, TransactionIsKnown, NothingLeaks,
         Restoring, Inside, Outside, Known
<1>6. NothingLeaks'
  BY DEF RecoverFails, End, NoTx, SqliteRollsBack, Settled, SqliteDoesNothing,
         Uncertain, IInv, TypeOK, Connection, SettingIsKnown,
         TransactionIsKnown, NothingLeaks, Inside
<1>7. ReportIsHonest'
  BY DEF RecoverFails, End, NoTx, SqliteRollsBack, Settled, SqliteDoesNothing,
         Uncertain, NoReport, IInv, TypeOK, Connection, TransactionIsKnown,
         ReportIsHonest, Inside, Outside
<1>. QED BY <1>1, <1>2, <1>3, <1>4, <1>5, <1>6, <1>7 DEF IInv

LEMMA CommitSucceedsKeeps ==
  ASSUME IInv, UNCHANGED adapter, CommitSucceeds
  PROVE  IInv'
<1>1. TypeOK'
  BY ReportsAreTyped, EndIsTyped, SqliteIsTyped
    DEF CommitSucceeds, Goto, session, IInv, TypeOK, Connection, Pc
<1>2. (pc # "idle" => ~ broken /\ ~ closed /\ report = NoReport)'
  BY DEF CommitSucceeds, Goto, session, End, NoTx, SqliteCommits, Returned,
         NoReport, IInv, TypeOK
<1>3. (closed => conn.txn = "none" /\ conn.queryOnly = "off")'
  BY DEF CommitSucceeds, Goto, session, End, NoTx, SqliteCommits, Returned,
         IInv, TypeOK, Connection
<1>4. SettingIsKnown'
  BY DEF CommitSucceeds, Goto, session, End, NoTx, SqliteCommits, Returned,
         IInv, TypeOK, Connection, SettingIsKnown, NothingLeaks, Restoring,
         Inside
<1>5. TransactionIsKnown'
  BY DEF CommitSucceeds, Goto, session, End, NoTx, SqliteCommits, Returned,
         IInv, TypeOK, Connection, TransactionIsKnown, NothingLeaks, Restoring,
         Inside, Outside, Known
<1>6. NothingLeaks'
  BY DEF CommitSucceeds, Goto, session, End, NoTx, SqliteCommits, Returned,
         IInv, TypeOK, Connection, SettingIsKnown, TransactionIsKnown,
         NothingLeaks, Inside
<1>7. ReportIsHonest'
  BY DEF CommitSucceeds, Goto, session, End, NoTx, SqliteCommits, Returned,
         NoReport, IInv, TypeOK, Connection, TransactionIsKnown,
         ReportIsHonest, Inside, Outside
<1>. QED BY <1>1, <1>2, <1>3, <1>4, <1>5, <1>6, <1>7 DEF IInv

LEMMA CommitFailsKeeps ==
  ASSUME IInv, UNCHANGED adapter, CommitFails
  PROVE  IInv'
<1>1. TypeOK'
  BY ReportsAreTyped, EndIsTyped, SqliteIsTyped
    DEF CommitFails, SqliteDoesNothing, IInv, TypeOK, Connection, Pc
<1>2. (pc # "idle" => ~ broken /\ ~ closed /\ report = NoReport)'
  BY DEF CommitFails, End, NoTx, SqliteCommits, SqliteRollsBack, Settled,
         SqliteDoesNothing, Uncertain, NoReport, IInv, TypeOK
<1>3. (closed => conn.txn = "none" /\ conn.queryOnly = "off")'
  BY DEF CommitFails, End, NoTx, SqliteCommits, SqliteRollsBack, Settled,
         SqliteDoesNothing, Uncertain, IInv, TypeOK, Connection
<1>4. SettingIsKnown'
  BY DEF CommitFails, End, NoTx, SqliteCommits, SqliteRollsBack, Settled,
         SqliteDoesNothing, Uncertain, IInv, TypeOK, Connection,
         SettingIsKnown, NothingLeaks, Restoring, Inside
<1>5. TransactionIsKnown'
  BY DEF CommitFails, End, NoTx, SqliteCommits, SqliteRollsBack, Settled,
         SqliteDoesNothing, Uncertain, IInv, TypeOK, Connection,
         TransactionIsKnown, NothingLeaks, Restoring, Inside, Outside, Known
<1>6. NothingLeaks'
  BY DEF CommitFails, End, NoTx, SqliteCommits, SqliteRollsBack, Settled,
         SqliteDoesNothing, Uncertain, IInv, TypeOK, Connection,
         SettingIsKnown, TransactionIsKnown, NothingLeaks, Inside
<1>7. ReportIsHonest'
  BY DEF CommitFails, End, NoTx, SqliteCommits, SqliteRollsBack, Settled,
         SqliteDoesNothing, Uncertain, NoReport, IInv, TypeOK, Connection,
         TransactionIsKnown, ReportIsHonest, Inside, Outside
<1>. QED BY <1>1, <1>2, <1>3, <1>4, <1>5, <1>6, <1>7 DEF IInv

LEMMA RollbackSucceedsKeeps ==
  ASSUME IInv, UNCHANGED adapter, RollbackSucceeds
  PROVE  IInv'
<1>1. TypeOK'
  BY ReportsAreTyped, EndIsTyped, SqliteIsTyped
    DEF RollbackSucceeds, Goto, session, IInv, TypeOK, Connection, Pc
<1>2. (pc # "idle" => ~ broken /\ ~ closed /\ report = NoReport)'
  BY DEF RollbackSucceeds, Goto, session, End, NoTx, SqliteRollsBack, Settled,
         Raised, NoReport, IInv, TypeOK
<1>3. (closed => conn.txn = "none" /\ conn.queryOnly = "off")'
  BY DEF RollbackSucceeds, Goto, session, End, NoTx, SqliteRollsBack, Settled,
         Raised, IInv, TypeOK, Connection
<1>4. SettingIsKnown'
  BY DEF RollbackSucceeds, Goto, session, End, NoTx, SqliteRollsBack, Settled,
         Raised, IInv, TypeOK, Connection, SettingIsKnown, NothingLeaks,
         Restoring, Inside
<1>5. TransactionIsKnown'
  BY DEF RollbackSucceeds, Goto, session, End, NoTx, SqliteRollsBack, Settled,
         Raised, IInv, TypeOK, Connection, TransactionIsKnown, NothingLeaks,
         Restoring, Inside, Outside, Known
<1>6. NothingLeaks'
  BY DEF RollbackSucceeds, Goto, session, End, NoTx, SqliteRollsBack, Settled,
         Raised, IInv, TypeOK, Connection, SettingIsKnown, TransactionIsKnown,
         NothingLeaks, Inside
<1>7. ReportIsHonest'
  BY DEF RollbackSucceeds, Goto, session, End, NoTx, SqliteRollsBack, Settled,
         Raised, NoReport, IInv, TypeOK, Connection, TransactionIsKnown,
         ReportIsHonest, Inside, Outside
<1>. QED BY <1>1, <1>2, <1>3, <1>4, <1>5, <1>6, <1>7 DEF IInv

LEMMA RollbackFailsKeeps ==
  ASSUME IInv, UNCHANGED adapter, RollbackFails
  PROVE  IInv'
<1>1. TypeOK'
  BY ReportsAreTyped, EndIsTyped, SqliteIsTyped
    DEF RollbackFails, SqliteDoesNothing, IInv, TypeOK, Connection, Pc
<1>2. (pc # "idle" => ~ broken /\ ~ closed /\ report = NoReport)'
  BY DEF RollbackFails, End, NoTx, SqliteRollsBack, Settled, SqliteDoesNothing,
         Uncertain, NoReport, IInv, TypeOK
<1>3. (closed => conn.txn = "none" /\ conn.queryOnly = "off")'
  BY DEF RollbackFails, End, NoTx, SqliteRollsBack, Settled, SqliteDoesNothing,
         Uncertain, IInv, TypeOK, Connection
<1>4. SettingIsKnown'
  BY DEF RollbackFails, End, NoTx, SqliteRollsBack, Settled, SqliteDoesNothing,
         Uncertain, IInv, TypeOK, Connection, SettingIsKnown, NothingLeaks,
         Restoring, Inside
<1>5. TransactionIsKnown'
  BY DEF RollbackFails, End, NoTx, SqliteRollsBack, Settled, SqliteDoesNothing,
         Uncertain, IInv, TypeOK, Connection, TransactionIsKnown, NothingLeaks,
         Restoring, Inside, Outside, Known
<1>6. NothingLeaks'
  BY DEF RollbackFails, End, NoTx, SqliteRollsBack, Settled, SqliteDoesNothing,
         Uncertain, IInv, TypeOK, Connection, SettingIsKnown,
         TransactionIsKnown, NothingLeaks, Inside
<1>7. ReportIsHonest'
  BY DEF RollbackFails, End, NoTx, SqliteRollsBack, Settled, SqliteDoesNothing,
         Uncertain, NoReport, IInv, TypeOK, Connection, TransactionIsKnown,
         ReportIsHonest, Inside, Outside
<1>. QED BY <1>1, <1>2, <1>3, <1>4, <1>5, <1>6, <1>7 DEF IInv

LEMMA RestoreSucceedsKeeps ==
  ASSUME IInv, UNCHANGED adapter, RestoreSucceeds
  PROVE  IInv'
<1>1. TypeOK'
  <2>1. Known \in {"committed", "rolled_back"}
    BY DEF Known
  <2>2. \E r \in Report : End(r)
    BY <2>1, ReportsAreTyped DEF RestoreSucceeds
  <2>3. conn' \in Connection
    BY DEF RestoreSucceeds, Restoring, IInv, TypeOK, Connection, SettingIsKnown
  <2>. QED BY <2>2, <2>3, EndIsTyped DEF RestoreSucceeds, IInv, TypeOK
<1>2. (pc # "idle" => ~ broken /\ ~ closed /\ report = NoReport)'
  BY DEF RestoreSucceeds, End, NoTx, Returned, Raised, NoReport, IInv, TypeOK,
         Restoring
<1>3. (closed => conn.txn = "none" /\ conn.queryOnly = "off")'
  BY DEF RestoreSucceeds, End, NoTx, Returned, Raised, IInv, TypeOK,
         Connection, Restoring
<1>4. SettingIsKnown'
  BY DEF RestoreSucceeds, End, NoTx, Returned, Raised, IInv, TypeOK,
         Connection, SettingIsKnown, NothingLeaks, Restoring, Inside
<1>5. TransactionIsKnown'
  BY DEF RestoreSucceeds, End, NoTx, Returned, Raised, IInv, TypeOK,
         Connection, TransactionIsKnown, NothingLeaks, Restoring, Inside,
         Outside, Known
<1>6. NothingLeaks'
  BY DEF RestoreSucceeds, End, NoTx, Returned, Raised, IInv, TypeOK,
         Connection, SettingIsKnown, TransactionIsKnown, NothingLeaks, Inside,
         Restoring
<1>7. ReportIsHonest'
  BY DEF RestoreSucceeds, End, NoTx, Returned, Raised, NoReport, IInv, TypeOK,
         Connection, TransactionIsKnown, ReportIsHonest, Inside, Outside,
         Restoring, Known
<1>. QED BY <1>1, <1>2, <1>3, <1>4, <1>5, <1>6, <1>7 DEF IInv

LEMMA RestoreFailsKeeps ==
  ASSUME IInv, UNCHANGED adapter, RestoreFails
  PROVE  IInv'
<1>1. TypeOK'
  <2>1. Known \in {"committed", "rolled_back"}
    BY DEF Known
  <2>2. \E r \in Report : End(r)
    BY <2>1, ReportsAreTyped DEF RestoreFails
  <2>3. conn' \in Connection
    BY DEF RestoreFails, Restoring, IInv, TypeOK, Connection, SettingIsKnown
  <2>. QED BY <2>2, <2>3, EndIsTyped DEF RestoreFails, IInv, TypeOK
<1>2. (pc # "idle" => ~ broken /\ ~ closed /\ report = NoReport)'
  BY DEF RestoreFails, End, NoTx, Uncertain, NoReport, IInv, TypeOK, Restoring
<1>3. (closed => conn.txn = "none" /\ conn.queryOnly = "off")'
  BY DEF RestoreFails, End, NoTx, Uncertain, IInv, TypeOK, Connection,
         Restoring
<1>4. SettingIsKnown'
  BY DEF RestoreFails, End, NoTx, Uncertain, IInv, TypeOK, Connection,
         SettingIsKnown, NothingLeaks, Restoring, Inside
<1>5. TransactionIsKnown'
  BY DEF RestoreFails, End, NoTx, Uncertain, IInv, TypeOK, Connection,
         TransactionIsKnown, NothingLeaks, Restoring, Inside, Outside, Known
<1>6. NothingLeaks'
  BY DEF RestoreFails, End, NoTx, Uncertain, IInv, TypeOK, Connection,
         SettingIsKnown, TransactionIsKnown, NothingLeaks, Inside, Restoring
<1>7. ReportIsHonest'
  BY DEF RestoreFails, End, NoTx, Uncertain, NoReport, IInv, TypeOK,
         Connection, TransactionIsKnown, ReportIsHonest, Inside, Outside,
         Restoring, Known
<1>. QED BY <1>1, <1>2, <1>3, <1>4, <1>5, <1>6, <1>7 DEF IInv

LEMMA ManagerEntersKeeps ==
  ASSUME IInv, UNCHANGED adapter, ManagerEnters
  PROVE  IInv'
<1>1. TypeOK'
  <2>1. /\ db' \in Value /\ conn' \in Connection
        /\ fate' \in {"none", "open", "committed", "rolled_back"}
    <3>1. CASE SqliteDoesNothing \/ SqliteBegins
      BY <3>1 DEF SqliteDoesNothing, SqliteBegins, IInv, TypeOK, Connection
    <3>2. CASE \E q \in {"off", "on"} : SqliteRollsBack(q)
      BY <3>2, SqliteIsTyped DEF IInv
    <3>3. CASE /\ conn' = [txn |-> IF tx.write THEN "write" ELSE "read", data |-> db,
                          queryOnly |-> IF tx.write THEN "off" ELSE "on"]
               /\ fate' = "open"
               /\ UNCHANGED db
      BY <3>3 DEF IInv, TypeOK, Connection
    <3>. QED BY <3>1, <3>2, <3>3 DEF ManagerEnters
  <2>2. CASE Goto("body")
    BY <2>1, <2>2 DEF Goto, session, IInv, TypeOK, Pc
  <2>3. CASE \E r \in Report : End(r)
    BY <2>1, <2>3, EndIsTyped DEF IInv, TypeOK
  <2>. QED BY <2>2, <2>3, ReportsAreTyped DEF ManagerEnters
<1>2. (pc # "idle" => ~ broken /\ ~ closed /\ report = NoReport)'
  BY DEF ManagerEnters, Goto, session, End, NoTx, SqliteBegins,
         SqliteRollsBack, Settled, SqliteDoesNothing, Raised, Uncertain,
         NoReport, IInv, TypeOK
<1>3. (closed => conn.txn = "none" /\ conn.queryOnly = "off")'
  BY DEF ManagerEnters, Goto, session, End, NoTx, SqliteBegins,
         SqliteRollsBack, Settled, SqliteDoesNothing, Raised, Uncertain, IInv,
         TypeOK, Connection
<1>4. SettingIsKnown'
  BY DEF ManagerEnters, Goto, session, End, NoTx, SqliteBegins,
         SqliteRollsBack, Settled, SqliteDoesNothing, Raised, Uncertain, IInv,
         TypeOK, Connection, SettingIsKnown, NothingLeaks, Restoring, Inside
<1>5. TransactionIsKnown'
  BY DEF ManagerEnters, Goto, session, End, NoTx, SqliteBegins,
         SqliteRollsBack, Settled, SqliteDoesNothing, Raised, Uncertain, IInv,
         TypeOK, Connection, TransactionIsKnown, NothingLeaks, Restoring,
         Inside, Outside, Known
<1>6. NothingLeaks'
  <2>1. CASE Goto("body")
    BY <2>1 DEF Goto, NothingLeaks
  <2>2. CASE SqliteDoesNothing
    BY <2>2 DEF ManagerEnters, SqliteDoesNothing, NothingLeaks, IInv, SettingIsKnown,
                TransactionIsKnown, Outside
  <2>3. CASE End(Uncertain("begin", "unknown"))
    BY <2>3 DEF End, Uncertain, NothingLeaks
  <2>. QED BY <2>1, <2>2, <2>3 DEF ManagerEnters
<1>7. ReportIsHonest'
  BY DEF ManagerEnters, Goto, session, End, NoTx, SqliteBegins,
         SqliteRollsBack, Settled, SqliteDoesNothing, Raised, Uncertain,
         NoReport, IInv, TypeOK, Connection, TransactionIsKnown,
         ReportIsHonest, Inside, Outside
<1>. QED BY <1>1, <1>2, <1>3, <1>4, <1>5, <1>6, <1>7 DEF IInv

LEMMA ManagerCommitsKeeps ==
  ASSUME IInv, UNCHANGED adapter, ManagerCommits
  PROVE  IInv'
<1>1. TypeOK'
  BY ReportsAreTyped, EndIsTyped, SqliteIsTyped
    DEF ManagerCommits, IInv, TypeOK, Connection, Pc
<1>2. (pc # "idle" => ~ broken /\ ~ closed /\ report = NoReport)'
  BY DEF ManagerCommits, End, NoTx, SqliteCommits, SqliteRollsBack, Settled,
         Returned, Raised, Uncertain, NoReport, IInv, TypeOK
<1>3. (closed => conn.txn = "none" /\ conn.queryOnly = "off")'
  BY DEF ManagerCommits, End, NoTx, SqliteCommits, SqliteRollsBack, Settled,
         Returned, Raised, Uncertain, IInv, TypeOK, Connection
<1>4. SettingIsKnown'
  BY DEF ManagerCommits, End, NoTx, SqliteCommits, SqliteRollsBack, Settled,
         Returned, Raised, Uncertain, IInv, TypeOK, Connection, SettingIsKnown,
         NothingLeaks, Restoring, Inside
<1>5. TransactionIsKnown'
  BY DEF ManagerCommits, End, NoTx, SqliteCommits, SqliteRollsBack, Settled,
         Returned, Raised, Uncertain, IInv, TypeOK, Connection,
         TransactionIsKnown, NothingLeaks, Restoring, Inside, Outside, Known
<1>6. NothingLeaks'
  BY DEF ManagerCommits, End, NoTx, SqliteCommits, SqliteRollsBack, Settled,
         Returned, Raised, Uncertain, IInv, TypeOK, Connection, SettingIsKnown,
         TransactionIsKnown, NothingLeaks, Inside
<1>7. ReportIsHonest'
  BY DEF ManagerCommits, End, NoTx, SqliteCommits, SqliteRollsBack, Settled,
         Returned, Raised, Uncertain, NoReport, IInv, TypeOK, Connection,
         TransactionIsKnown, ReportIsHonest, Inside, Outside
<1>. QED BY <1>1, <1>2, <1>3, <1>4, <1>5, <1>6, <1>7 DEF IInv

LEMMA ManagerRollsBackKeeps ==
  ASSUME IInv, UNCHANGED adapter, ManagerRollsBack
  PROVE  IInv'
<1>1. TypeOK'
  BY ReportsAreTyped, EndIsTyped, SqliteIsTyped
    DEF ManagerRollsBack, IInv, TypeOK, Connection, Pc
<1>2. (pc # "idle" => ~ broken /\ ~ closed /\ report = NoReport)'
  BY DEF ManagerRollsBack, End, NoTx, SqliteRollsBack, Settled, Raised,
         Uncertain, NoReport, IInv, TypeOK
<1>3. (closed => conn.txn = "none" /\ conn.queryOnly = "off")'
  BY DEF ManagerRollsBack, End, NoTx, SqliteRollsBack, Settled, Raised,
         Uncertain, IInv, TypeOK, Connection
<1>4. SettingIsKnown'
  BY DEF ManagerRollsBack, End, NoTx, SqliteRollsBack, Settled, Raised,
         Uncertain, IInv, TypeOK, Connection, SettingIsKnown, NothingLeaks,
         Restoring, Inside
<1>5. TransactionIsKnown'
  BY DEF ManagerRollsBack, End, NoTx, SqliteRollsBack, Settled, Raised,
         Uncertain, IInv, TypeOK, Connection, TransactionIsKnown, NothingLeaks,
         Restoring, Inside, Outside, Known
<1>6. NothingLeaks'
  BY DEF ManagerRollsBack, End, NoTx, SqliteRollsBack, Settled, Raised,
         Uncertain, IInv, TypeOK, Connection, SettingIsKnown,
         TransactionIsKnown, NothingLeaks, Inside
<1>7. ReportIsHonest'
  BY DEF ManagerRollsBack, End, NoTx, SqliteRollsBack, Settled, Raised,
         Uncertain, NoReport, IInv, TypeOK, Connection, TransactionIsKnown,
         ReportIsHonest, Inside, Outside
<1>. QED BY <1>1, <1>2, <1>3, <1>4, <1>5, <1>6, <1>7 DEF IInv

LEMMA SqlKeeps ==
  ASSUME IInv, UNCHANGED adapter, NEW v \in Value, Sql(v)
  PROVE  IInv'
<1>1. TypeOK'
  BY DEF Sql, session, IInv, TypeOK, Connection, Pc
<1>2. (pc # "idle" => ~ broken /\ ~ closed /\ report = NoReport)'
  BY DEF Sql, session, NoReport, IInv, TypeOK
<1>3. (closed => conn.txn = "none" /\ conn.queryOnly = "off")'
  BY DEF Sql, session, IInv, TypeOK, Connection
<1>4. SettingIsKnown'
  BY DEF Sql, session, IInv, TypeOK, Connection, SettingIsKnown, NothingLeaks,
         Restoring, Inside
<1>5. TransactionIsKnown'
  BY DEF Sql, session, IInv, TypeOK, Connection, TransactionIsKnown,
         NothingLeaks, Restoring, Inside, Outside, Known
<1>6. NothingLeaks'
  BY DEF Sql, session, IInv, TypeOK, Connection, SettingIsKnown,
         TransactionIsKnown, NothingLeaks, Inside
<1>7. ReportIsHonest'
  BY DEF Sql, session, NoReport, IInv, TypeOK, Connection, TransactionIsKnown,
         ReportIsHonest, Inside, Outside
<1>. QED BY <1>1, <1>2, <1>3, <1>4, <1>5, <1>6, <1>7 DEF IInv

LEMMA OperationFailsKeeps ==
  ASSUME IInv, UNCHANGED adapter, OperationFails
  PROVE  IInv'
<1>1. TypeOK'
  BY DEF OperationFails, session, SqliteRollsBack, Settled, SqliteDoesNothing,
         IInv, TypeOK, Connection, Pc
<1>2. (pc # "idle" => ~ broken /\ ~ closed /\ report = NoReport)'
  BY DEF OperationFails, session, SqliteRollsBack, Settled, SqliteDoesNothing,
         NoReport, IInv, TypeOK
<1>3. (closed => conn.txn = "none" /\ conn.queryOnly = "off")'
  BY DEF OperationFails, session, SqliteRollsBack, Settled, SqliteDoesNothing,
         IInv, TypeOK, Connection
<1>4. SettingIsKnown'
  BY DEF OperationFails, session, SqliteRollsBack, Settled, SqliteDoesNothing,
         IInv, TypeOK, Connection, SettingIsKnown, NothingLeaks, Restoring,
         Inside
<1>5. TransactionIsKnown'
  BY DEF OperationFails, session, SqliteRollsBack, Settled, SqliteDoesNothing,
         IInv, TypeOK, Connection, TransactionIsKnown, NothingLeaks, Restoring,
         Inside, Outside, Known
<1>6. NothingLeaks'
  BY DEF OperationFails, session, SqliteRollsBack, Settled, SqliteDoesNothing,
         IInv, TypeOK, Connection, SettingIsKnown, TransactionIsKnown,
         NothingLeaks, Inside
<1>7. ReportIsHonest'
  BY DEF OperationFails, session, SqliteRollsBack, Settled, SqliteDoesNothing,
         NoReport, IInv, TypeOK, Connection, TransactionIsKnown,
         ReportIsHonest, Inside, Outside
<1>. QED BY <1>1, <1>2, <1>3, <1>4, <1>5, <1>6, <1>7 DEF IInv

LEMMA LeaveKeeps ==
  ASSUME IInv, UNCHANGED adapter, Leave
  PROVE  IInv'
<1>1. TypeOK'
  BY DEF Leave, Goto, session, SqliteDoesNothing, IInv, TypeOK, Connection, Pc
<1>2. (pc # "idle" => ~ broken /\ ~ closed /\ report = NoReport)'
  BY DEF Leave, Goto, session, SqliteDoesNothing, NoReport, IInv, TypeOK
<1>3. (closed => conn.txn = "none" /\ conn.queryOnly = "off")'
  BY DEF Leave, Goto, session, SqliteDoesNothing, IInv, TypeOK, Connection
<1>4. SettingIsKnown'
  BY DEF Leave, Goto, session, SqliteDoesNothing, IInv, TypeOK, Connection,
         SettingIsKnown, NothingLeaks, Restoring, Inside
<1>5. TransactionIsKnown'
  BY DEF Leave, Goto, session, SqliteDoesNothing, IInv, TypeOK, Connection,
         TransactionIsKnown, NothingLeaks, Restoring, Inside, Outside, Known
<1>6. NothingLeaks'
  BY DEF Leave, Goto, session, SqliteDoesNothing, IInv, TypeOK, Connection,
         SettingIsKnown, TransactionIsKnown, NothingLeaks, Inside
<1>7. ReportIsHonest'
  BY DEF Leave, Goto, session, SqliteDoesNothing, NoReport, IInv, TypeOK,
         Connection, TransactionIsKnown, ReportIsHonest, Inside, Outside
<1>. QED BY <1>1, <1>2, <1>3, <1>4, <1>5, <1>6, <1>7 DEF IInv

LEMMA CloseKeeps ==
  ASSUME IInv, UNCHANGED adapter, Close
  PROVE  IInv'
<1>1. TypeOK'
  BY DEF Close, Gone, Settled, Fresh, NoTx, IInv, TypeOK, Connection, Pc
<1>2. (pc # "idle" => ~ broken /\ ~ closed /\ report = NoReport)'
  BY DEF Close, Gone, Settled, Fresh, NoTx, NoReport, IInv, TypeOK
<1>3. (closed => conn.txn = "none" /\ conn.queryOnly = "off")'
  BY DEF Close, Gone, Settled, Fresh, NoTx, IInv, TypeOK, Connection
<1>4. SettingIsKnown'
  BY DEF Close, Gone, Settled, Fresh, NoTx, IInv, TypeOK, Connection,
         SettingIsKnown, NothingLeaks, Restoring, Inside
<1>5. TransactionIsKnown'
  BY DEF Close, Gone, Settled, Fresh, NoTx, IInv, TypeOK, Connection,
         TransactionIsKnown, NothingLeaks, Restoring, Inside, Outside, Known
<1>6. NothingLeaks'
  BY DEF Close, Gone, Settled, Fresh, NoTx, IInv, TypeOK, Connection,
         SettingIsKnown, TransactionIsKnown, NothingLeaks, Inside
<1>7. ReportIsHonest'
  BY DEF Close, Gone, Settled, Fresh, NoTx, Report, Uncertain, Returned, Raised,
         NoReport, IInv, TypeOK, Connection,
         TransactionIsKnown, ReportIsHonest, Inside, Outside
<1>. QED BY <1>1, <1>2, <1>3, <1>4, <1>5, <1>6, <1>7 DEF IInv

LEMMA CrashKeeps ==
  ASSUME IInv, UNCHANGED adapter, Crash
  PROVE  IInv'
<1>1. TypeOK'
  BY DEF Crash, Gone, Settled, Fresh, NoTx, IInv, TypeOK, Connection, Pc
<1>2. (pc # "idle" => ~ broken /\ ~ closed /\ report = NoReport)'
  BY DEF Crash, Gone, Settled, Fresh, NoTx, NoReport, IInv, TypeOK
<1>3. (closed => conn.txn = "none" /\ conn.queryOnly = "off")'
  BY DEF Crash, Gone, Settled, Fresh, NoTx, IInv, TypeOK, Connection
<1>4. SettingIsKnown'
  BY DEF Crash, Gone, Settled, Fresh, NoTx, IInv, TypeOK, Connection,
         SettingIsKnown, NothingLeaks, Restoring, Inside
<1>5. TransactionIsKnown'
  BY DEF Crash, Gone, Settled, Fresh, NoTx, IInv, TypeOK, Connection,
         TransactionIsKnown, NothingLeaks, Restoring, Inside, Outside, Known
<1>6. NothingLeaks'
  BY DEF Crash, Gone, Settled, Fresh, NoTx, IInv, TypeOK, Connection,
         SettingIsKnown, TransactionIsKnown, NothingLeaks, Inside
<1>7. ReportIsHonest'
  BY DEF Crash, Gone, Settled, Fresh, NoTx, NoReport, IInv, TypeOK, Connection,
         TransactionIsKnown, ReportIsHonest, Inside, Outside
<1>. QED BY <1>1, <1>2, <1>3, <1>4, <1>5, <1>6, <1>7 DEF IInv

LEMMA ReopenKeeps ==
  ASSUME IInv, UNCHANGED adapter, Reopen
  PROVE  IInv'
<1>1. TypeOK'
  BY ReportsAreTyped DEF Reopen, IInv, TypeOK, Connection, Pc
<1>2. (pc # "idle" => ~ broken /\ ~ closed /\ report = NoReport)'
  BY DEF Reopen, NoReport, IInv, TypeOK
<1>3. (closed => conn.txn = "none" /\ conn.queryOnly = "off")'
  BY DEF Reopen, NoReport, IInv, TypeOK, Connection
<1>4. SettingIsKnown'
  BY DEF Reopen, NoReport, IInv, TypeOK, Connection, SettingIsKnown,
         NothingLeaks, Restoring, Inside
<1>5. TransactionIsKnown'
  BY DEF Reopen, NoReport, IInv, TypeOK, Connection, TransactionIsKnown,
         NothingLeaks, Restoring, Inside, Outside, Known
<1>6. NothingLeaks'
  BY DEF Reopen, NoReport, IInv, TypeOK, Connection, SettingIsKnown,
         TransactionIsKnown, NothingLeaks, Inside
<1>7. ReportIsHonest'
  BY DEF Reopen, NoReport, IInv, TypeOK, Connection, TransactionIsKnown,
         ReportIsHonest, Inside, Outside
<1>. QED BY <1>1, <1>2, <1>3, <1>4, <1>5, <1>6, <1>7 DEF IInv

LEMMA OtherCommitsKeeps ==
  ASSUME IInv, UNCHANGED adapter, NEW v \in Value, OtherCommits(v)
  PROVE  IInv'
<1>1. TypeOK'
  BY DEF OtherCommits, session, IInv, TypeOK, Connection, Pc
<1>2. (pc # "idle" => ~ broken /\ ~ closed /\ report = NoReport)'
  BY DEF OtherCommits, session, NoReport, IInv, TypeOK
<1>3. (closed => conn.txn = "none" /\ conn.queryOnly = "off")'
  BY DEF OtherCommits, session, IInv, TypeOK, Connection
<1>4. SettingIsKnown'
  BY DEF OtherCommits, session, IInv, TypeOK, Connection, SettingIsKnown,
         NothingLeaks, Restoring, Inside
<1>5. TransactionIsKnown'
  BY DEF OtherCommits, session, IInv, TypeOK, Connection, TransactionIsKnown,
         NothingLeaks, Restoring, Inside, Outside, Known
<1>6. NothingLeaks'
  BY DEF OtherCommits, session, IInv, TypeOK, Connection, SettingIsKnown,
         TransactionIsKnown, NothingLeaks, Inside
<1>7. ReportIsHonest'
  BY DEF OtherCommits, session, NoReport, IInv, TypeOK, Connection,
         TransactionIsKnown, ReportIsHonest, Inside, Outside
<1>. QED BY <1>1, <1>2, <1>3, <1>4, <1>5, <1>6, <1>7 DEF IInv

----------------------------------------------------------------------------
LEMMA SqliteBoundaryKeeps ==
  ASSUME IInv, UNCHANGED adapter, SqliteBoundary
  PROVE  IInv'
BY SetReadOnlyKeeps, ReadOnlyUnknownKeeps, BeginSucceedsKeeps, BeginFailsKeeps,
   RecoverSucceedsKeeps, RecoverFailsKeeps, CommitSucceedsKeeps, CommitFailsKeeps,
   RollbackSucceedsKeeps, RollbackFailsKeeps, RestoreSucceedsKeeps, RestoreFailsKeeps
   DEF SqliteBoundary

LEMMA StutterKeeps == IInv /\ UNCHANGED vars => IInv'
BY DEF vars, IInv, TypeOK, SettingIsKnown, TransactionIsKnown, NothingLeaks,
       ReportIsHonest, Outside, Inside, Restoring, Known

LEMMA NextKeepsIInv == IInv /\ [Next]_vars => IInv'
<1> SUFFICES ASSUME IInv, [Next]_vars PROVE IInv'
  OBVIOUS
<1>1. CASE UNCHANGED vars
  BY <1>1, StutterKeeps
<1>2. CASE Next
  <2>1. UNCHANGED adapter
    BY <1>2 DEF Next
  <2>2. CASE \E w \in BOOLEAN : Enter(w)
    BY <2>1, <2>2, EnterKeeps
  <2>3. CASE SqliteBoundary
    BY <2>1, <2>3, SqliteBoundaryKeeps
  <2>4. CASE MelddbBoundary
    BY <2>1, <2>4, ManagerEntersKeeps, ManagerCommitsKeeps, ManagerRollsBackKeeps
       DEF MelddbBoundary
  <2>5. CASE \E v \in Value : Sql(v)
    BY <2>1, <2>5, SqlKeeps
  <2>6. CASE OperationFails \/ Leave \/ Close \/ Crash \/ Reopen
    BY <2>1, <2>6, OperationFailsKeeps, LeaveKeeps, CloseKeeps, CrashKeeps, ReopenKeeps
  <2>7. CASE \E v \in Value : OtherCommits(v)
    BY <2>1, <2>7, OtherCommitsKeeps
  <2>. QED BY <1>2, <2>2, <2>3, <2>4, <2>5, <2>6, <2>7 DEF Next
<1>. QED BY <1>1, <1>2

\* In every reachable state the context manager knows what the connection holds
\* and what has become of the transaction (Catalog.transaction).
THEOREM InvariantHolds == Spec => []IInv
BY InitGivesIInv, NextKeepsIInv, PTL DEF Spec

\* Whatever raises, and whether or not it took effect, what the application
\* hears of the end of its transaction is true.
THEOREM ReportsAreHonest == Spec => []ReportIsHonest
<1>1. IInv => ReportIsHonest
  BY DEF IInv
<1>. QED BY <1>1, InvariantHolds, PTL

\* A catalog that accepts another transaction has nothing left of the last one.
THEOREM NothingIsLeft == Spec => []NothingLeaks
<1>1. IInv => NothingLeaks
  BY DEF IInv
<1>. QED BY <1>1, InvariantHolds, PTL

----------------------------------------------------------------------------
(* Action properties.                                                      *)

\* Of all steps, only the COMMIT of an unfailed write transaction writes.
LEMMA OnlyCommitWrites ==
  ASSUME IInv, Next
  PROVE  \/ db' = db
         \/ pc = "commit" /\ tx.write /\ ~ tx.failed /\ fate' = "committed"
         \/ \E v \in Value : OtherCommits(v)
<1> DEFINE Goal == \/ db' = db
                   \/ pc = "commit" /\ tx.write /\ ~ tx.failed /\ fate' = "committed"
                   \/ \E v \in Value : OtherCommits(v)
<1>1. CASE \E v \in Value : Sql(v)
  BY <1>1 DEF Sql, IInv, TypeOK, TransactionIsKnown, Inside
<1>2. ASSUME NEW q, pc = "commit", SqliteCommits(q) PROVE Goal
  BY <1>2 DEF SqliteCommits, IInv, TypeOK, TransactionIsKnown, Inside
<1>3. CASE CommitSucceeds \/ CommitFails \/ ManagerCommits
  BY <1>2, <1>3 DEF CommitSucceeds, CommitFails, ManagerCommits, SqliteRollsBack,
                    SqliteDoesNothing
<1>4. CASE \/ SetReadOnly \/ ReadOnlyUnknown \/ BeginSucceeds \/ BeginFails
           \/ RecoverSucceeds \/ RecoverFails \/ RollbackSucceeds \/ RollbackFails
           \/ RestoreSucceeds \/ RestoreFails
  BY <1>4 DEF SetReadOnly, ReadOnlyUnknown, BeginSucceeds, BeginFails, RecoverSucceeds,
              RecoverFails, RollbackSucceeds, RollbackFails, RestoreSucceeds,
              RestoreFails, SqliteBegins, SqliteRollsBack, SqliteDoesNothing
<1>5. CASE ManagerEnters \/ ManagerRollsBack \/ OperationFails \/ Leave
  BY <1>5 DEF ManagerEnters, ManagerRollsBack, OperationFails, Leave, SqliteBegins,
              SqliteRollsBack, SqliteDoesNothing
<1>6. CASE (\E w \in BOOLEAN : Enter(w)) \/ Close \/ Crash \/ Reopen
  BY <1>6 DEF Enter, Close, Crash, Reopen, Gone
<1>. QED
  BY <1>1, <1>3, <1>4, <1>5, <1>6 DEF Next, SqliteBoundary, MelddbBoundary

\* This catalog changes the file only by the COMMIT of a write transaction in
\* which no operation failed (Transaction._failed, require_transaction).
THEOREM OnlyCommitsWriteTheFile == Spec => OnlyCommitsWrite
<1>1. IInv /\ [Next]_vars
        => [\/ db' = db
            \/ pc = "commit" /\ tx.write /\ ~ tx.failed /\ fate' = "committed"
            \/ \E v \in Value : OtherCommits(v)]_vars
  BY OnlyCommitWrites
<1>. QED BY <1>1, InvariantHolds, PTL DEF Spec, OnlyCommitsWrite

\* A quarantined catalog does no SQL until it is closed (Catalog._check).
THEOREM QuarantineIsInert == Spec => QuarantinedIsInert
<1>1. IInv /\ [Next]_vars
        => [broken /\ ~ closed /\ ~ closed' => UNCHANGED <<conn, pc, broken, report>>]_vars
  <2> SUFFICES ASSUME IInv, Next, broken, ~ closed, ~ closed'
               PROVE  UNCHANGED <<conn, pc, broken, report>>
    OBVIOUS
  <2>1. pc = "idle"
    BY DEF IInv
  <2>2. \E v \in Value : OtherCommits(v)
    BY <2>1 DEF Next, SqliteBoundary, MelddbBoundary, Enter, SetReadOnly, ReadOnlyUnknown,
       BeginSucceeds, BeginFails, RecoverSucceeds, RecoverFails, CommitSucceeds, CommitFails,
       RollbackSucceeds, RollbackFails, RestoreSucceeds, RestoreFails, Restoring,
       ManagerEnters, ManagerCommits, ManagerRollsBack, Sql, OperationFails, Leave,
       Close, Crash, Reopen, Gone
  <2>. QED BY <2>2 DEF OtherCommits, session
<1>. QED BY <1>1, InvariantHolds, PTL DEF Spec, QuarantinedIsInert


----------------------------------------------------------------------------
(* The transactions of a catalog are atomic and isolated: every step is    *)
(* one of AtomicTransaction's, or changes nothing there.  IInv says where  *)
(* the connection is; that no operation can have failed outside the with   *)
(* block is all there is to add.                                           *)

NotYetFailed ==
  pc \in {"idle", "readonly", "begin", "recover", "entering"} => ~ tx.failed

Staged == IF conn.txn = "write" THEN {conn.data} ELSE {}

LEMMA InitGivesNotYetFailed == Init => NotYetFailed
BY DEF Init, NotYetFailed, NoTx

LEMMA NextKeepsNotYetFailed == IInv /\ NotYetFailed /\ [Next]_vars => NotYetFailed'
<1> SUFFICES ASSUME IInv, NotYetFailed, [Next]_vars PROVE NotYetFailed'
  OBVIOUS
<1> USE DEF NotYetFailed, session
<1>1. CASE UNCHANGED vars
  BY <1>1 DEF vars
<1>2. CASE \E w \in BOOLEAN : Enter(w)
  BY <1>2 DEF Enter
<1>3. CASE SetReadOnly \/ ReadOnlyUnknown \/ BeginSucceeds \/ BeginFails
  BY <1>3 DEF SetReadOnly, ReadOnlyUnknown, BeginSucceeds, BeginFails, Goto
<1>4. CASE RecoverSucceeds \/ RecoverFails \/ RestoreSucceeds \/ RestoreFails
  BY <1>4 DEF RecoverSucceeds, RecoverFails, RestoreSucceeds, RestoreFails, End, NoTx
<1>5. CASE CommitSucceeds \/ CommitFails \/ RollbackSucceeds \/ RollbackFails
  BY <1>5 DEF CommitSucceeds, CommitFails, RollbackSucceeds, RollbackFails, Goto, End, NoTx
<1>6. CASE MelddbBoundary
  BY <1>6 DEF MelddbBoundary, ManagerEnters, ManagerCommits, ManagerRollsBack, Goto, End, NoTx
<1>7. CASE (\E v \in Value : Sql(v)) \/ OperationFails \/ Leave
  BY <1>7 DEF Sql, OperationFails, Leave, Goto
<1>8. CASE Close \/ Crash \/ Reopen \/ \E v \in Value : OtherCommits(v)
  BY <1>8 DEF Close, Crash, Reopen, OtherCommits, Gone, NoTx
<1>. QED
  BY <1>1, <1>2, <1>3, <1>4, <1>5, <1>6, <1>7, <1>8 DEF Next, SqliteBoundary

\* The connection's own steps, as AtomicTransaction sees them.
LEMMA BeginningBegins ==
  ASSUME IInv, NotYetFailed, pc \in {"begin", "entering"}, tx'.failed = tx.failed,
         conn'.txn = (IF tx.write THEN "write" ELSE "read"), conn'.data = db,
         fate' = "open", db' = db, broken' \in BOOLEAN
  PROVE  Transactions!Begin
<1>1. ~ broken /\ ~ tx.failed /\ conn.txn = "none" /\ fate = "none"
  BY DEF IInv, NotYetFailed, TransactionIsKnown, Outside
<1>2. Staged' \in {{}, {db}}
  BY DEF Staged
<1>. QED BY <1>1, <1>2 DEF Transactions!Begin, Staged


LEMMA CommittingCommits ==
  ASSUME IInv, pc = "commit", NEW q, SqliteCommits(q), tx'.failed = FALSE, broken' \in BOOLEAN
  PROVE  Transactions!Commit
<1>1. ~ broken /\ ~ tx.failed /\ fate = "open"
  BY DEF IInv, TransactionIsKnown, Inside
<1>2. /\ Staged = {db'} \/ (Staged = {} /\ db' = db)
      /\ Staged' = {}
  BY DEF IInv, TypeOK, Connection, SqliteCommits, Staged
<1>. QED BY <1>1, <1>2 DEF Transactions!Commit, Staged, SqliteCommits, IInv, TypeOK

LEMMA RollingBackUndoes ==
  ASSUME IInv, pc # "idle", NEW q, SqliteRollsBack(q), tx'.failed \in BOOLEAN, broken' \in BOOLEAN
  PROVE  Transactions!Undo
<1>1. ~ broken
  BY DEF IInv
<1>2. Staged' = {}
  BY DEF IInv, TypeOK, Connection, SqliteRollsBack, Staged
<1>. QED
  BY <1>1, <1>2 DEF Transactions!Undo, Transactions!Undone, Staged, SqliteRollsBack, Settled

\* The caller has been told what it can be told.
LEMMA LeavingLeaves ==
  ASSUME IInv, pc # "idle", SqliteDoesNothing, tx'.failed = FALSE, broken' \in BOOLEAN,
         broken' \/ (conn.txn = "none" /\ fate # "open")
  PROVE  Transactions!Leave
<1>1. ~ broken
  BY DEF IInv
<1>2. Staged' = Staged /\ (conn.txn = "none" => Staged = {})
  BY DEF SqliteDoesNothing, Staged
<1>. QED BY <1>1, <1>2 DEF Transactions!Leave, Staged, SqliteDoesNothing

LEMMA GoingCloses == ASSUME Gone PROVE Transactions!Close
<1>1. Staged' = {}
  BY DEF Gone, Fresh, Staged
<1>. QED
  BY <1>1 DEF Transactions!Close, Transactions!Undone, Staged, Gone, Settled, NoTx

LEMMA EndSettles ==
  ASSUME NEW r, End(r)
  PROVE  tx'.failed = FALSE /\ broken' \in BOOLEAN
BY DEF End, NoTx

LEMMA UncertainEndSettles ==
  ASSUME NEW phase, NEW known, End(Uncertain(phase, known))
  PROVE  tx'.failed = FALSE /\ broken' \in BOOLEAN /\ broken'
BY DEF End, NoTx, Uncertain

----------------------------------------------------------------------------
(* One lemma per group of actions.                                         *)

LEMMA BoundariesBegin ==
  ASSUME IInv, NotYetFailed, NotYetFailed',
         SetReadOnly \/ ReadOnlyUnknown \/ BeginSucceeds \/ BeginFails
  PROVE  [Transactions!Next]_(Transactions!vars)
<1>1. CASE SetReadOnly \/ ReadOnlyUnknown
  BY <1>1 DEF SetReadOnly, ReadOnlyUnknown, Goto, session, SqliteDoesNothing,
              IInv, TypeOK, Connection, Transactions!vars
<1>2. CASE BeginFails /\ SqliteDoesNothing
  BY <1>2 DEF BeginFails, Goto, session, SqliteDoesNothing, Transactions!vars
<1>3. CASE BeginSucceeds \/ (BeginFails /\ SqliteBegins)
  <2>1. /\ pc = "begin" /\ tx' = tx /\ broken' = broken /\ SqliteBegins
    BY <1>3 DEF BeginSucceeds, BeginFails, Goto, session
  <2>2. /\ conn'.txn = (IF tx.write THEN "write" ELSE "read") /\ conn'.data = db
        /\ fate' = "open" /\ db' = db
    <3>1. CASE SqliteBegins
      BY <3>1 DEF SqliteBegins, IInv, TypeOK, Connection
    <3>2. CASE ~ SqliteBegins
      BY <2>1, <3>2
    <3>. QED BY <3>1, <3>2
  <2>3. Transactions!Begin
    BY <2>1, <2>2, BeginningBegins DEF IInv, TypeOK
  <2>. QED BY <2>3 DEF Transactions!Next
<1>. QED BY <1>1, <1>2, <1>3 DEF BeginFails

LEMMA RecoveryUndoes ==
  ASSUME IInv, RecoverSucceeds \/ RecoverFails
  PROVE  Transactions!Next
<1>1. CASE RecoverSucceeds
  <2> DEFINE q == IF saved = "unset" THEN conn.queryOnly ELSE saved
  <2>1. pc # "idle" /\ SqliteRollsBack(q) /\ tx'.failed = FALSE /\ broken' \in BOOLEAN
    BY <1>1, EndSettles DEF RecoverSucceeds
  <2>2. Transactions!Undo
    BY <2>1, RollingBackUndoes
  <2>. QED BY <2>2 DEF Transactions!Next
<1>2. CASE RecoverFails
  <2>0. /\ pc = "recover" /\ End(Uncertain("begin", "unknown"))
        /\ SqliteDoesNothing \/ \E q \in {conn.queryOnly, saved} : SqliteRollsBack(q)
    BY <1>2 DEF RecoverFails
  <2>1. pc # "idle" /\ tx'.failed = FALSE /\ broken' /\ broken' \in BOOLEAN
    BY <2>0, UncertainEndSettles
  <2>2. CASE SqliteDoesNothing
    BY <2>1, <2>2, LeavingLeaves DEF Transactions!Next
  <2>3. CASE \E q \in {conn.queryOnly, saved} : SqliteRollsBack(q)
    <3>1. Transactions!Undo
      BY <2>1, <2>3, RollingBackUndoes
    <3>. QED BY <3>1 DEF Transactions!Next
  <2>. QED BY <2>0, <2>2, <2>3
<1>. QED BY <1>1, <1>2


LEMMA CommitsCommit ==
  ASSUME IInv, CommitSucceeds \/ CommitFails \/ ManagerCommits
  PROVE  Transactions!Next
<1>1. pc = "commit" /\ ~ tx.failed
  BY DEF CommitSucceeds, CommitFails, ManagerCommits, IInv, TransactionIsKnown
<1>2. /\ tx'.failed = FALSE /\ broken' \in BOOLEAN
      /\ \/ \E q : SqliteCommits(q) \/ SqliteRollsBack(q)
         \/ SqliteDoesNothing /\ broken'
  <2>1. CASE CommitSucceeds
    <3>1. \E q : SqliteCommits(q)
      BY <2>1 DEF CommitSucceeds
    <3>2. CASE End(Returned)
      BY <3>1, <3>2, EndSettles
    <3>3. CASE Goto("restore_committed")
      BY <1>1, <3>1, <3>3 DEF Goto, session, IInv, TypeOK
    <3>. QED BY <2>1, <3>2, <3>3 DEF CommitSucceeds
  <2>2. CASE CommitFails
    <3>1. /\ (\E q : SqliteCommits(q) \/ SqliteRollsBack(q)) \/ SqliteDoesNothing
          /\ End(Uncertain("commit", "unknown"))
      BY <2>2 DEF CommitFails
    <3>. QED BY <3>1, UncertainEndSettles
  <2>3. CASE ManagerCommits
    <3>1. (\E q : SqliteCommits(q) \/ SqliteRollsBack(q)) /\ \E r : End(r)
      BY <2>3 DEF ManagerCommits
    <3>. QED BY <3>1, EndSettles
  <2>. QED BY <2>1, <2>2, <2>3
<1>3. Transactions!Commit \/ Transactions!Undo \/ Transactions!Leave
  BY <1>1, <1>2, CommittingCommits, RollingBackUndoes, LeavingLeaves
<1>. QED BY <1>3 DEF Transactions!Next

LEMMA RollbacksUndo ==
  ASSUME IInv, RollbackSucceeds \/ RollbackFails \/ ManagerRollsBack
  PROVE  Transactions!Next
<1>1. pc # "idle"
  BY DEF RollbackSucceeds, RollbackFails, ManagerRollsBack
<1>2. /\ broken' \in BOOLEAN
      /\ \/ (\E q : SqliteRollsBack(q)) /\ tx'.failed \in BOOLEAN
         \/ SqliteDoesNothing /\ broken' /\ tx'.failed = FALSE
  <2>1. CASE RollbackSucceeds
    <3>1. \E q : SqliteRollsBack(q)
      BY <2>1 DEF RollbackSucceeds
    <3>2. CASE End(Raised)
      BY <3>1, <3>2, EndSettles
    <3>3. CASE Goto("restore_rolled_back")
      BY <3>1, <3>3 DEF Goto, session, IInv, TypeOK
    <3>. QED BY <2>1, <3>2, <3>3 DEF RollbackSucceeds
  <2>2. CASE RollbackFails
    <3>1. /\ (\E q : SqliteRollsBack(q)) \/ SqliteDoesNothing
          /\ End(Uncertain("rollback", "unknown"))
      BY <2>2 DEF RollbackFails
    <3>. QED BY <3>1, UncertainEndSettles
  <2>3. CASE ManagerRollsBack
    <3>1. (\E q : SqliteRollsBack(q)) /\ \E r : End(r)
      BY <2>3 DEF ManagerRollsBack
    <3>. QED BY <3>1, EndSettles
  <2>. QED BY <2>1, <2>2, <2>3
<1>3. Transactions!Undo \/ Transactions!Leave
  BY <1>1, <1>2, RollingBackUndoes, LeavingLeaves
<1>. QED BY <1>3 DEF Transactions!Next

LEMMA RestorationLeaves ==
  ASSUME IInv, RestoreSucceeds \/ RestoreFails
  PROVE  Transactions!Next
<1>1. /\ Restoring /\ (\E r : End(r)) /\ UNCHANGED <<db, fate>>
      /\ \E q : conn' = [conn EXCEPT !.queryOnly = q]
  BY DEF RestoreSucceeds, RestoreFails
<1>2. ~ broken /\ conn.txn = "none" /\ fate # "open"
  BY <1>1 DEF IInv, TransactionIsKnown, Restoring, Known
<1>3. conn'.txn = "none"
  BY <1>1, <1>2 DEF IInv, TypeOK, Connection
<1>4. tx'.failed = FALSE /\ broken' \in BOOLEAN
  BY <1>1, EndSettles
<1>5. Transactions!Leave
  BY <1>1, <1>2, <1>3, <1>4 DEF Transactions!Leave
<1>. QED BY <1>5 DEF Transactions!Next

LEMMA ManagerBegins ==
  ASSUME IInv, NotYetFailed, ManagerEnters
  PROVE  Transactions!Next
<1>1. pc = "entering" /\ conn.txn = "none" /\ fate = "none" /\ ~ tx.failed /\ tx.failed \in BOOLEAN
  BY DEF ManagerEnters, IInv, TypeOK, TransactionIsKnown, Outside, NotYetFailed
<1>2. tx'.failed = FALSE /\ broken' \in BOOLEAN
  <2>1. (\E r : End(r)) \/ Goto("body")
    BY DEF ManagerEnters
  <2>. QED BY <1>1, <2>1, EndSettles DEF Goto, session, IInv, TypeOK
<1>3. CASE SqliteDoesNothing
  <2>1. Transactions!Leave
    BY <1>1, <1>2, <1>3, LeavingLeaves
  <2>. QED BY <2>1 DEF Transactions!Next
<1>4. CASE \E q : SqliteRollsBack(q)
  <2>1. Transactions!Undo
    BY <1>1, <1>2, <1>4, RollingBackUndoes
  <2>. QED BY <2>1 DEF Transactions!Next
<1>5. CASE ~ SqliteDoesNothing /\ ~ \E q : SqliteRollsBack(q)
  <2>1. \/ SqliteBegins
        \/ /\ conn' = [txn |-> IF tx.write THEN "write" ELSE "read", data |-> db,
                       queryOnly |-> IF tx.write THEN "off" ELSE "on"]
           /\ fate' = "open" /\ db' = db
    BY <1>5 DEF ManagerEnters
  <2>2. /\ conn'.txn = (IF tx.write THEN "write" ELSE "read") /\ conn'.data = db
        /\ fate' = "open" /\ db' = db
    <3>1. CASE SqliteBegins
      BY <3>1 DEF SqliteBegins, IInv, TypeOK, Connection
    <3>2. CASE ~ SqliteBegins
      BY <2>1, <3>2
    <3>. QED BY <3>1, <3>2
  <2>3. Transactions!Begin
    BY <1>1, <1>2, <2>2, BeginningBegins
  <2>. QED BY <2>3 DEF Transactions!Next
<1>. QED BY <1>3, <1>4, <1>5

LEMMA BodyWrites ==
  ASSUME IInv, (\E v \in Value : Sql(v)) \/ OperationFails \/ Leave
  PROVE  [Transactions!Next]_(Transactions!vars)
<1>1. pc = "body" /\ ~ broken
  BY DEF Sql, OperationFails, Leave, IInv
<1>2. CASE Leave
  BY <1>2 DEF Leave, Goto, session, SqliteDoesNothing, Transactions!vars
<1>3. ASSUME NEW v \in Value, Sql(v) PROVE Transactions!Write(v)
  <2>1. conn.txn = "write" /\ ~ tx.failed
    BY <1>1, <1>3 DEF Sql, IInv, SettingIsKnown, TransactionIsKnown, Inside
  <2>2. Staged # {} /\ Staged' = {v}
    BY <1>3, <2>1 DEF Sql, IInv, TypeOK, Connection, Staged
  <2>. QED
    BY <1>1, <1>3, <2>1, <2>2 DEF Transactions!Write, Sql, Staged, session
<1>4. CASE OperationFails /\ \E q : SqliteRollsBack(q)
  <2>1. tx'.failed \in BOOLEAN /\ broken' \in BOOLEAN
    BY <1>4 DEF OperationFails, IInv, TypeOK, session
  <2>2. Transactions!Undo
    BY <1>1, <1>4, <2>1, RollingBackUndoes
  <2>. QED BY <2>2 DEF Transactions!Next
<1>5. CASE OperationFails /\ ~ \E q : SqliteRollsBack(q)
  <2>1. tx'.failed = TRUE /\ UNCHANGED <<db, fate, broken>>
    BY <1>5 DEF OperationFails, IInv, TypeOK, session, SqliteDoesNothing
  <2>2. \/ Staged' = Staged
        \/ Staged # {} /\ \E v \in Value : Staged' = {v}
    BY <1>5 DEF OperationFails, IInv, TypeOK, Connection, SqliteDoesNothing, Staged
  <2>3. Transactions!Fail
    BY <1>1, <2>1, <2>2 DEF Transactions!Fail, Staged
  <2>. QED BY <2>3 DEF Transactions!Next
<1>6. CASE \E v \in Value : Sql(v)
  BY <1>3, <1>6 DEF Transactions!Next
<1>. QED BY <1>2, <1>4, <1>5, <1>6

LEMMA TheRestFollows ==
  ASSUME IInv, NotYetFailed,
         \/ \E w \in BOOLEAN : Enter(w)
         \/ Close \/ Crash \/ Reopen
         \/ \E v \in Value : OtherCommits(v)
  PROVE  Transactions!Next
<1>1. ASSUME NEW w \in BOOLEAN, Enter(w) PROVE Transactions!Enter
  <2>1. ~ broken /\ ~ tx.failed /\ conn.txn = "none"
    BY <1>1 DEF Enter, IInv, NothingLeaks, NotYetFailed
  <2>. QED BY <1>1, <2>1 DEF Enter, Transactions!Enter, IInv, TypeOK
<1>2. CASE Close \/ Crash
  <2>1. Transactions!Close
    BY <1>2, GoingCloses DEF Close, Crash
  <2>. QED BY <2>1 DEF Transactions!Next
<1>3. CASE Reopen
  <2>1. Transactions!Reopen
    BY <1>3 DEF Reopen, IInv, NotYetFailed, Transactions!Reopen
  <2>. QED BY <2>1 DEF Transactions!Next
<1>4. ASSUME NEW v \in Value, OtherCommits(v) PROVE Transactions!Other(v)
  BY <1>4 DEF OtherCommits, session, Transactions!Other
<1>. QED BY <1>1, <1>2, <1>3, <1>4 DEF Transactions!Next

LEMMA StepsAreAtomic ==
  IInv /\ NotYetFailed /\ NotYetFailed' /\ [Next]_vars
    => [Transactions!Next]_(Transactions!vars)
<1> SUFFICES ASSUME IInv, NotYetFailed, NotYetFailed', [Next]_vars
             PROVE  [Transactions!Next]_(Transactions!vars)
  OBVIOUS
<1>1. CASE UNCHANGED vars
  BY <1>1 DEF vars, Transactions!vars
<1>2. CASE Next
  BY <1>2, BoundariesBegin, RecoveryUndoes, CommitsCommit, RollbacksUndo, RestorationLeaves,
     ManagerBegins, BodyWrites, TheRestFollows
     DEF Next, SqliteBoundary, MelddbBoundary
<1>. QED BY <1>1, <1>2

\* Whatever statement of a boundary raises, with or without effect, and whether
\* or not the caller can be told the outcome, the transactions of a catalog are
\* atomic and isolated: they start with the file as it is, nobody changes it
\* under one that writes, and they change it once, without a failed operation,
\* to what their statements made of it, or not at all (_sqlite_transaction,
\* _melddb_transaction).
THEOREM TransactionsAreAtomic == Spec => KeepsTransactions
<1>1. Init => Transactions!Init
  BY DEF Init, Transactions!Init, Fresh, NoTx
<1>2. Spec => []NotYetFailed
  BY InvariantHolds, InitGivesNotYetFailed, NextKeepsNotYetFailed, PTL DEF Spec
<1>. QED
  BY <1>1, <1>2, InvariantHolds, StepsAreAtomic, PTL DEF Spec, Transactions!Spec, KeepsTransactions
=============================================================================
