------------------------------- MODULE Export -------------------------------
(***************************************************************************)
(* Copies of blobs are exported to names in the file system that other     *)
(* exporters and other programs use, too.  A private copy is staged beside *)
(* the destination, verified, and published by a hard link.                *)
(***************************************************************************)

CONSTANTS Exporter,   \* calls of export_file
          Id,         \* blob ids
          Bytes,      \* Bytes[i]: what id i names for good, see BlobStore
          Name,       \* file names
          Managed,    \* the names of catalog, gate and storage files
          Foreign,    \* another program's content
          Torn,       \* an incomplete or damaged copy
          None

ASSUME ExportAssumption ==
  /\ Managed \subseteq Name
  /\ \A i \in Id : Bytes[i] \notin {None, Foreign, Torn}
  /\ None \notin {Foreign, Torn} /\ None \notin Id /\ None \notin Name

VARIABLES ready,   \* the blobs that can be read
          file,    \* the file each name leads to
          export   \* what each exporter is doing

vars == <<ready, file, export>>

Contents == {Bytes[i] : i \in Id} \cup {Torn}
Idle == [pc |-> "idle", id |-> None, to |-> None, staged |-> None]

TypeOK ==
  /\ ready \subseteq Id
  /\ file \in [Name -> Contents \cup {Foreign, None}]
  /\ export \in [Exporter -> [pc : {"idle", "checked", "reading", "verified"},
                              id : Id \cup {None}, to : Name \cup {None},
                              staged : Contents \cup {None}]]

Init ==
  /\ ready = {}
  /\ file = [n \in Name |-> None]
  /\ export = [e \in Exporter |-> Idle]

At(e, pc) == export[e].pc = pc

\* The early check: nothing is there, and nothing managed may be there.
Check(e, i, n) ==
  /\ At(e, "idle")
  /\ file[n] = None
  /\ n \notin Managed
  /\ export' = [export EXCEPT ![e] = [Idle EXCEPT !.pc = "checked", !.id = i, !.to = n]]
  /\ UNCHANGED <<ready, file>>

\* stat and materialize; what is being read stays readable.
Materialize(e) ==
  /\ At(e, "checked")
  /\ export[e].id \in ready
  /\ export' = [export EXCEPT ![e].pc = "reading"]
  /\ UNCHANGED <<ready, file>>

\* The copy is written; it may come out wrong.
Stage(e) ==
  /\ At(e, "reading")
  /\ export[e].staged = None
  /\ \E c \in {Bytes[export[e].id], Torn} : export' = [export EXCEPT ![e].staged = c]
  /\ UNCHANGED <<ready, file>>

\* Size and digest are those of the record.
Verify(e) ==
  /\ At(e, "reading")
  /\ export[e].staged = Bytes[export[e].id]
  /\ export' = [export EXCEPT ![e].pc = "verified"]
  /\ UNCHANGED <<ready, file>>

\* Variant: a rename, which replaces what is there.
Rename(e) ==
  /\ At(e, "verified")
  /\ file' = [file EXCEPT ![export[e].to] = export[e].staged]
  /\ export' = [export EXCEPT ![e] = Idle]
  /\ UNCHANGED ready
\* os.link fails if there is something by now.
Link(e) ==
  /\ At(e, "verified")
  /\ file[export[e].to] = None
  /\ file' = [file EXCEPT ![export[e].to] = export[e].staged]
  /\ export' = [export EXCEPT ![e] = Idle]
  /\ UNCHANGED ready

\* An exception or death.
Fail(e) ==
  /\ ~ At(e, "idle")
  /\ export' = [export EXCEPT ![e] = Idle]
  /\ UNCHANGED <<ready, file>>

\* Blobs come and go.
Blobs(i) ==
  /\ ready' \in {ready \cup {i}, ready \ {i}}
  /\ UNCHANGED <<file, export>>

\* Another program creates, replaces or removes a file.
OtherProgram(n) ==
  /\ n \notin Managed
  /\ \E c \in {Foreign, None} : file' = [file EXCEPT ![n] = c]
  /\ UNCHANGED <<ready, export>>

Next ==
  \/ \E e \in Exporter :
       \/ \E i \in Id, n \in Name : Check(e, i, n)
       \/ Materialize(e) \/ Stage(e) \/ Verify(e) \/ Link(e) \/ Fail(e)
  \/ \E i \in Id : Blobs(i)
  \/ \E n \in Name : OtherProgram(n)

Spec == Init /\ [][Next]_vars
----------------------------------------------------------------------------
(* Property.                                                               *)

\* However exporters, other programs and failures interleave, an export only
\* ever turns the absence of a file into the complete bytes of the blob that was
\* asked for, and never under a name that the store manages (export_file).
ExportsAreWhole ==
  [][\A n \in Name : file'[n] # file[n] =>
       \/ OtherProgram(n)
       \/ /\ file[n] = None
          /\ n \notin Managed
          /\ \E e \in Exporter : export[e].to = n /\ file'[n] = Bytes[export[e].id]]_vars
=============================================================================
