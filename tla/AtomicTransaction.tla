------------------------- MODULE AtomicTransaction -------------------------
(***************************************************************************)
(* What the transactions of a Catalog promise, and what the transactions   *)
(* of BlobLifecycle are: one that writes starts with the file as it is,    *)
(* keeps everybody else from changing it, and changes it once, to what its *)
(* statements made of it, or not at all.  None in which an operation has   *)
(* failed, and none of a quarantined catalog, ever changes it.             *)
(***************************************************************************)

CONSTANT Value

VARIABLES db,           \* the contents of the file
          staged,       \* {what a writing transaction would commit}, or {}
          poisoned,     \* an operation of the transaction failed
          outcome,      \* what became of the last transaction
          quarantined   \* the catalog must be closed before it is used again

vars == <<db, staged, poisoned, outcome, quarantined>>

Init ==
  /\ db \in Value
  /\ staged = {}
  /\ poisoned = FALSE
  /\ outcome = "none"
  /\ quarantined = FALSE

Undone == IF outcome = "open" THEN "rolled_back" ELSE outcome

Enter ==
  /\ ~ quarantined /\ ~ poisoned /\ staged = {}
  /\ outcome' = "none"
  /\ UNCHANGED <<db, staged, poisoned, quarantined>>

\* A transaction that reads stages nothing.  The caller may never get to it.
Begin ==
  /\ ~ quarantined /\ ~ poisoned /\ staged = {} /\ outcome = "none"
  /\ staged' \in {{}, {db}}
  /\ outcome' = "open"
  /\ quarantined' \in BOOLEAN
  /\ UNCHANGED <<db, poisoned>>

Write(v) ==
  /\ ~ quarantined /\ ~ poisoned /\ staged # {}
  /\ staged' = {v}
  /\ UNCHANGED <<db, poisoned, outcome, quarantined>>

\* After some of the operation's statements.
Fail ==
  /\ ~ quarantined
  /\ \/ staged' = staged
     \/ staged # {} /\ \E v \in Value : staged' = {v}
  /\ poisoned' = TRUE
  /\ UNCHANGED <<db, outcome, quarantined>>

\* Whether or not the caller can be told.
Commit ==
  /\ ~ quarantined /\ ~ poisoned /\ outcome = "open"
  /\ staged = {db'} \/ (staged = {} /\ db' = db)
  /\ staged' = {}
  /\ outcome' = "committed"
  /\ quarantined' \in BOOLEAN
  /\ UNCHANGED poisoned

Undo ==
  /\ ~ quarantined
  /\ staged' = {}
  /\ outcome' = Undone
  /\ poisoned' \in BOOLEAN
  /\ quarantined' \in BOOLEAN
  /\ UNCHANGED db

\* The transaction is behind the caller; what it left open, nobody will commit.
Leave ==
  /\ ~ quarantined
  /\ poisoned' = FALSE
  /\ quarantined' \in BOOLEAN
  /\ quarantined' \/ (staged = {} /\ outcome # "open")
  /\ UNCHANGED <<db, staged, outcome>>

\* Closing the catalog, or dying, undoes what is open.
Close ==
  /\ staged' = {}
  /\ poisoned' = FALSE
  /\ outcome' = Undone
  /\ UNCHANGED <<db, quarantined>>

Reopen ==
  /\ staged = {} /\ ~ poisoned
  /\ quarantined' = FALSE
  /\ outcome' = "none"
  /\ UNCHANGED <<db, staged, poisoned>>

\* Other connections commit while this one is not writing.
Other(v) ==
  /\ staged = {}
  /\ db' = v
  /\ UNCHANGED <<staged, poisoned, outcome, quarantined>>

Next ==
  \/ Enter \/ Begin \/ Fail \/ Commit \/ Undo \/ Leave \/ Close \/ Reopen
  \/ \E v \in Value : Write(v) \/ Other(v)

Spec == Init /\ [][Next]_vars
=============================================================================
