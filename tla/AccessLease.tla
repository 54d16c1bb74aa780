---------------------------- MODULE AccessLease ----------------------------
(***************************************************************************)
(* How participants get their leases.  A gate is a small SQLite file in    *)
(* rollback mode beside each catalog and inside each storage root; a lease *)
(* is an open transaction on it, so SQLite's file locks exclude, and the   *)
(* operating system releases them when a process dies.  Nobody waits: a    *)
(* lock that is not free is a BusyError.                                   *)
(***************************************************************************)

CONSTANTS Proc,   \* Catalog objects, or catalog_access contexts
          Path,   \* canonical catalog paths; each has a gate
          Root,   \* canonical storage roots; each has a gate
          None

ASSUME PathAssumption == None \notin Path \cup Root /\ Path \cap Root = {}

Gate == Path \cup Root

VARIABLES owner,    \* the row of access_owner in each gate, once there is one
          lock,     \* the lock each process holds on each gate
          session   \* what each process is doing, for which catalog

vars == <<owner, lock, session>>

Closed == [pc |-> "closed", path |-> None, exclusive |-> FALSE, gate |-> None, stuck |-> {}]
Pc == {"closed", "probing", "beginning", "creating", "acquiring", "checking",
       "open", "closing", "leaking"}

TypeOK ==
  /\ owner \in [Gate -> Path \cup {None}]
  /\ lock \in [Proc -> [Gate -> {"none", "shared", "exclusive"}]]
  /\ session \in [Proc -> [pc : Pc, path : Path \cup {None},
                           exclusive : BOOLEAN, gate : Gate \cup {None},
                           stuck : SUBSET Gate]]

Init ==
  /\ owner = [g \in Gate |-> None]
  /\ lock = [p \in Proc |-> [g \in Gate |-> "none"]]
  /\ session = [p \in Proc |-> Closed]

At(p, pc) == session[p].pc = pc
Goto(p, pc) == session' = [session EXCEPT ![p].pc = pc]
SetLock(p, g, m) == lock' = [lock EXCEPT ![p][g] = m]

\* SQLite's compatibility of rollback-mode locks.
MayRead(p, g)    == \A q \in Proc \ {p} : lock[q][g] # "exclusive"
MayExclude(p, g) == \A q \in Proc \ {p} : lock[q][g] = "none"

\* The leases p keeps until it closes.
Leased(p) == {g \in Gate : lock[p][g] # "none"} \ {session[p].gate}

----------------------------------------------------------------------------
\* Catalog.__init__ (and catalog_access) lease the gate of the catalog.
Open(p, c, x) ==
  /\ At(p, "closed")
  /\ session' = [session EXCEPT ![p] =
       [Closed EXCEPT !.pc = "probing", !.path = c, !.exclusive = x, !.gate = c]]
  /\ UNCHANGED <<owner, lock>>

\* bind_storage leases the gate of a root, once.
Bind(p, r) ==
  /\ At(p, "open")
  /\ r \notin Leased(p)
  /\ session' = [session EXCEPT ![p].pc = "probing", ![p].gate = r]
  /\ UNCHANGED <<owner, lock>>

\* Is there an access_owner table?
Probe(p) ==
  /\ At(p, "probing")
  /\ MayRead(p, session[p].gate)
  /\ Goto(p, IF owner[session[p].gate] = None THEN "beginning" ELSE "acquiring")
  /\ UNCHANGED <<owner, lock>>

BeginCreate(p) ==
  /\ At(p, "beginning")
  /\ MayExclude(p, session[p].gate)
  /\ SetLock(p, session[p].gate, "exclusive")
  /\ Goto(p, "creating")
  /\ UNCHANGED owner

\* Variant: the owner is not looked up again under the lock.
CreateBlindly(p) ==
  /\ At(p, "creating")
  /\ owner' = [owner EXCEPT ![session[p].gate] = session[p].path]
  /\ SetLock(p, session[p].gate, "none")
  /\ Goto(p, "acquiring")
\* Variant: a gate is claimed for its root instead of the catalog using it.
CreateForItself(p) ==
  /\ At(p, "creating")
  /\ owner' = [owner EXCEPT ![session[p].gate] = session[p].gate]
  /\ SetLock(p, session[p].gate, "none")
  /\ Goto(p, "acquiring")
\* CREATE TABLE IF NOT EXISTS, INSERT if it is empty, COMMIT.
Create(p) ==
  LET g == session[p].gate IN
  /\ At(p, "creating")
  /\ owner' = [owner EXCEPT ![g] = IF @ = None THEN session[p].path ELSE @]
  /\ SetLock(p, g, "none")
  /\ Goto(p, "acquiring")

\* Variant: exclusive access is granted beside shared leases.
AcquireBeside(p) ==
  /\ At(p, "acquiring")
  /\ MayRead(p, session[p].gate)
  /\ IF session[p].exclusive
       THEN SetLock(p, session[p].gate, "exclusive")
       ELSE UNCHANGED lock
  /\ Goto(p, "checking")
  /\ UNCHANGED owner
\* BEGIN EXCLUSIVE takes the lock; a plain BEGIN takes none yet.
Acquire(p) ==
  LET g == session[p].gate IN
  /\ At(p, "acquiring")
  /\ IF session[p].exclusive
       THEN MayExclude(p, g) /\ SetLock(p, g, "exclusive")
       ELSE UNCHANGED lock
  /\ Goto(p, "checking")
  /\ UNCHANGED owner

\* Variant: nobody compares the owner.
CheckNothing(p) ==
  /\ At(p, "checking")
  /\ MayRead(p, session[p].gate)
  /\ SetLock(p, session[p].gate, IF session[p].exclusive THEN "exclusive" ELSE "shared")
  /\ session' = [session EXCEPT ![p].pc = "open", ![p].gate = None]
  /\ UNCHANGED owner
\* Reading the owner takes the shared lock that is the lease from then on.
Check(p) ==
  LET g == session[p].gate IN
  /\ At(p, "checking")
  /\ MayRead(p, g)
  /\ owner[g] = session[p].path
  /\ SetLock(p, g, IF session[p].exclusive THEN "exclusive" ELSE "shared")
  /\ session' = [session EXCEPT ![p].pc = "open", ![p].gate = None]
  /\ UNCHANGED owner

\* The lease's connection is closed.  Without the gate of its catalog there is
\* no session; without the gate of a root the session just has no such root.
Refuse(p) ==
  /\ SetLock(p, session[p].gate, "none")
  /\ session' = [session EXCEPT ![p] =
       IF @.gate = @.path THEN Closed ELSE [@ EXCEPT !.pc = "open", !.gate = None]]
  /\ UNCHANGED owner

\* BusyError, from whichever statement finds the gate locked.
Busy(p) ==
  LET g == session[p].gate IN
  /\ \/ At(p, "probing") /\ ~ MayRead(p, g)
     \/ At(p, "beginning") /\ ~ MayExclude(p, g)
     \/ At(p, "acquiring") /\ session[p].exclusive /\ ~ MayExclude(p, g)
     \/ At(p, "checking") /\ ~ MayRead(p, g)
  /\ Refuse(p)

\* ValidationError: the gate belongs to another catalog.
Mismatch(p) ==
  /\ At(p, "checking")
  /\ MayRead(p, session[p].gate)
  /\ owner[session[p].gate] # session[p].path
  /\ Refuse(p)

\* `_close` releases the roots, in the order they were bound, then the catalog.
StartClose(p) ==
  /\ At(p, "open")
  /\ Goto(p, "closing")
  /\ UNCHANGED <<owner, lock>>

\* The leases that have still to be closed.
ToRelease(p) == Leased(p) \ session[p].stuck

ReleaseRoot(p) ==
  /\ At(p, "closing")
  /\ \E r \in Root \cap ToRelease(p) : SetLock(p, r, "none")
  /\ UNCHANGED <<owner, session>>

ReleaseCatalog(p) ==
  /\ At(p, "closing")
  /\ ToRelease(p) = {session[p].path}
  /\ SetLock(p, session[p].path, "none")
  /\ UNCHANGED <<owner, session>>

\* Variant: the first error ends the loop.
ReleaseStops(p) ==
  /\ At(p, "closing")
  /\ \E g \in ToRelease(p) :
       /\ g \in Root \/ ToRelease(p) = {g}
       /\ session' = [session EXCEPT ![p].stuck = @ \cup {g}, ![p].pc = "leaking"]
  /\ UNCHANGED <<owner, lock>>
\* Closing a lease raises: its lock stays, and the next resource has its turn.
ReleaseFails(p) ==
  /\ At(p, "closing")
  /\ \E g \in ToRelease(p) :
       /\ g \in Root \/ ToRelease(p) = {g}
       /\ session' = [session EXCEPT ![p].stuck = @ \cup {g}]
  /\ UNCHANGED <<owner, lock>>

\* _closed is set; what failed to close lasts as long as the process.
EndClose(p) ==
  /\ At(p, "closing")
  /\ ToRelease(p) = {}
  /\ session' = [session EXCEPT ![p] =
       IF @.stuck = {} THEN Closed ELSE [@ EXCEPT !.pc = "leaking"]]
  /\ UNCHANGED <<owner, lock>>

\* The operating system drops the locks, SQLite rolls the gate back.
Crash(p) ==
  /\ ~ At(p, "closed")
  /\ lock' = [lock EXCEPT ![p] = [g \in Gate |-> "none"]]
  /\ session' = [session EXCEPT ![p] = Closed]
  /\ UNCHANGED owner

Next ==
  \E p \in Proc :
    \/ \E c \in Path, x \in BOOLEAN : Open(p, c, x)
    \/ \E r \in Root : Bind(p, r)
    \/ Probe(p) \/ BeginCreate(p) \/ Create(p) \/ Acquire(p) \/ Check(p)
    \/ Busy(p) \/ Mismatch(p)
    \/ StartClose(p) \/ ReleaseRoot(p) \/ ReleaseCatalog(p) \/ ReleaseFails(p)
    \/ EndClose(p) \/ Crash(p)

Spec == Init /\ [][Next]_vars
----------------------------------------------------------------------------
(* Properties.                                                             *)

\* Catalog.require_maintenance(root) passes.
Maintaining(p, r) == At(p, "open") /\ session[p].exclusive /\ r \in Leased(p)

\* When a process may maintain a root, nobody else has a session of the same
\* catalog, with or without the root, and nobody at all has leased the root:
\* two gates, taken one after the other without waiting, still exclude.
MaintenanceIsAlone ==
  \A p, q \in Proc, r \in Root :
    Maintaining(p, r) /\ q # p =>
      /\ ~ (At(q, "open") /\ session[q].path = session[p].path)
      /\ r \notin Leased(q)

\* A session holds its catalog's gate, in the mode it asked for, until all it
\* holds besides is released; a closed one holds nothing, and one whose close
\* failed for some of its leases has released all the others, whatever was
\* refused or crashed in between (Catalog.__init__, bind_storage, _close).
SessionsAreLeased ==
  \A p \in Proc :
    /\ At(p, "open") \/ (At(p, "closing") /\ ToRelease(p) # {}) =>
         lock[p][session[p].path] = IF session[p].exclusive THEN "exclusive" ELSE "shared"
    /\ At(p, "closed") => \A g \in Gate : lock[p][g] = "none"
    /\ At(p, "leaking") => Leased(p) \subseteq session[p].stuck

\* All participants of a root use the one catalog that claimed it first, even
\* when several catalogs race to initialize its gate (Lease.__init__).
OneCatalogPerRoot ==
  \A p, q \in Proc, r \in Root :
    r \in Leased(p) /\ r \in Leased(q) => session[p].path = session[q].path

\* The lease each process has on each gate, once it is one to rely on.
LeaseOn(p, g) ==
  IF g \in Leased(p)
    THEN [mode |-> lock[p][g], path |-> session[p].path]
    ELSE [mode |-> "none", path |-> None]

Leases == INSTANCE SharedLease WITH
  held <- [p \in Proc |-> [g \in Gate |-> LeaseOn(p, g)]]

\* Whatever the interleaving of the statements that make up a lease, every
\* gate behaves as one that is claimed, acquired and released atomically.
GatesAreLeases == Leases!Spec

----------------------------------------------------------------------------
(* The inductive invariant.                                                *)

Attempting == {"probing", "beginning", "creating", "acquiring", "checking"}
Mode(p) == IF session[p].exclusive THEN "exclusive" ELSE "shared"

\* What p has locked of the gate it is at: nothing while it only asks.
LockedMeanwhile(p) ==
  CASE At(p, "creating") -> "exclusive"
    [] At(p, "checking") /\ session[p].exclusive -> "exclusive"
    [] OTHER -> "none"

\* An attempt is at the catalog's gate before it has any lease, or at a root's.
AttemptIsOrderly(p) ==
  LET s == session[p] IN
  s.pc \in Attempting =>
    /\ s.gate \in Root \cup {s.path}
    /\ s.stuck = {}
    /\ lock[p][s.gate] = LockedMeanwhile(p)
    /\ s.pc \in {"acquiring", "checking"} => owner[s.gate] # None
    /\ IF s.gate = s.path THEN Leased(p) = {} ELSE s.path \in Leased(p)

\* The gate of the catalog is leased first and released last.
SessionIsOrderly(p) ==
  LET s == session[p] IN
  /\ s.pc = "closed" => s = Closed /\ Leased(p) = {}
  /\ s.pc # "closed" => s.path \in Path
  /\ s.pc \in {"open", "closing", "leaking"} => s.gate = None
  /\ s.pc = "open" => s.stuck = {} /\ s.path \in Leased(p)
  /\ s.pc = "closing" /\ ToRelease(p) # {} => s.path \in ToRelease(p)
  /\ s.pc = "leaking" => ToRelease(p) = {}

\* Every lease has the mode of its session, and its gate the owner.
LeasesAreOwned(p) ==
  \A g \in Leased(p) : lock[p][g] = Mode(p) /\ owner[g] = session[p].path

LocksExclude ==
  \A p, q \in Proc, g \in Gate :
    lock[p][g] = "exclusive" /\ q # p => lock[q][g] = "none"

\* Why exclusive means alone: SQLite's locks exclude (LocksExclude), and the
\* statements of Lease.__init__ and _close never lose track of one.
IInv ==
  /\ TypeOK
  /\ LocksExclude
  /\ \A p \in Proc : AttemptIsOrderly(p) /\ SessionIsOrderly(p) /\ LeasesAreOwned(p)
============================================================================
