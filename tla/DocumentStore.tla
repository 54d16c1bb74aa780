---------------------------- MODULE DocumentStore ---------------------------
(***************************************************************************)
(* What callers are promised about metadata while its schema evolves.  A   *)
(* document is what the metadata of a blob means, whichever version of the *)
(* schema it is written in, so migrating it does nothing.  Whoever has     *)
(* read a document may edit it as long as what it read is still true.      *)
(***************************************************************************)
CONSTANTS Id, Sense, Proc, None

VARIABLES doc,     \* what each blob's metadata means; None before and after
          known    \* the document each process has read and may still edit

vars == <<doc, known>>

Nothing == [id |-> None, sense |-> None]
Known == {Nothing} \cup [id : Id, sense : Sense]

Init ==
  /\ doc = [i \in Id |-> None]
  /\ known = [p \in Proc |-> Nothing]

\* Nobody goes on knowing what is no longer so.
Forgets(i) ==
  \A p \in Proc : known'[p] = Nothing \/ (known'[p] = known[p] /\ known[p].id # i)

Create(i, s) ==
  doc[i] = None /\ doc' = [doc EXCEPT ![i] = s] /\ Forgets(i)

Edit(p, s) ==
  LET i == known[p].id IN
  /\ i # None
  /\ doc[i] = known[p].sense
  /\ doc' = [doc EXCEPT ![i] = s]
  /\ Forgets(i)

Retire(i) ==
  doc[i] # None /\ doc' = [doc EXCEPT ![i] = None] /\ Forgets(i)

Read(p, i) ==
  /\ doc[i] # None
  /\ known' = [known EXCEPT ![p] = [id |-> i, sense |-> doc[i]]]
  /\ UNCHANGED doc

\* A migrated document has to be read again before it can be edited.
Disturb ==
  /\ \A p \in Proc : known'[p] \in {known[p], Nothing}
  /\ UNCHANGED doc

Next ==
  /\ known' \in [Proc -> Known]
  /\ \/ \E i \in Id : \E s \in Sense : Create(i, s)
     \/ \E p \in Proc, s \in Sense : Edit(p, s)
     \/ \E i \in Id : Retire(i)
     \/ \E p \in Proc, i \in Id : Read(p, i)
     \/ Disturb

Spec == Init /\ [][Next]_vars
=============================================================================
