------------------------- MODULE AccessLeaseProofs --------------------------
(***************************************************************************)
(* The invariant IInv of AccessLease is inductive, for any processes,      *)
(* catalogs and roots; what a lease excludes follows from it, and every    *)
(* step of a gate is one of SharedLease or a stutter.                      *)
(***************************************************************************)
EXTENDS AccessLease, TLAPS

\* What is in order about p.
Orderly(p) == AttemptIsOrderly(p) /\ SessionIsOrderly(p) /\ LeasesAreOwned(p)

\* A gate that is claimed stays with its catalog.
OwnersStay == \A g \in Gate : owner[g] # None => owner'[g] = owner[g]

\* p does something, and nobody else does.
OnlyMoves(p) ==
  \A q \in Proc \ {p} : session'[q] = session[q] /\ lock'[q] = lock[q]

\* What TypeOK says of one session.
Session == [pc : Pc, path : Path \cup {None}, exclusive : BOOLEAN,
            gate : Gate \cup {None}, stuck : SUBSET Gate]

LEMMA NoneIsNoGate == None \notin Gate
BY PathAssumption DEF Gate

\* A lock that is set is the only one that changes.
LEMMA SetLockFacts ==
  ASSUME TypeOK, NEW p \in Proc, NEW g \in Gate,
         NEW m \in {"none", "shared", "exclusive"}, SetLock(p, g, m)
  PROVE  /\ lock' \in [Proc -> [Gate -> {"none", "shared", "exclusive"}]]
         /\ lock'[p][g] = m
         /\ \A h \in Gate \ {g} : lock'[p][h] = lock[p][h]
         /\ \A q \in Proc \ {p} : lock'[q] = lock[q]
BY DEF TypeOK, SetLock

\* A session that changes is the only one.
LEMMA SessionFacts ==
  ASSUME TypeOK, NEW p \in Proc, NEW s \in Session, session' = [session EXCEPT ![p] = s]
  PROVE  /\ session' \in [Proc -> Session]
         /\ session'[p] = s
         /\ \A q \in Proc \ {p} : session'[q] = session[q]
BY DEF TypeOK, Session

\* A session only comes to another statement.
LEMMA PcFacts ==
  ASSUME TypeOK, NEW p \in Proc, NEW pc \in Pc, session' = [session EXCEPT ![p].pc = pc]
  PROVE  /\ session' \in [Proc -> Session]
         /\ \A q \in Proc \ {p} : session'[q] = session[q]
<1> DEFINE s == [session[p] EXCEPT !.pc = pc]
<1>1. s \in Session
  BY DEF TypeOK, Session
<1>2. session' = [session EXCEPT ![p] = s]
  OBVIOUS
<1>. QED BY <1>1, <1>2, SessionFacts

\* A step of p that leaves owners alone is p's if only its locks and session change.
LEMMA StepIsOnes ==
  ASSUME TypeOK, NEW p \in Proc, owner' = owner,
         lock' \in [Proc -> [Gate -> {"none", "shared", "exclusive"}]],
         session' \in [Proc -> Session],
         \A q \in Proc \ {p} : session'[q] = session[q] /\ lock'[q] = lock[q]
  PROVE  TypeOK' /\ OnlyMoves(p) /\ OwnersStay
BY DEF TypeOK, Session, OnlyMoves, OwnersStay

\* A process without a session has no lease.
LEMMA LeasedHavePath ==
  ASSUME IInv, NEW p \in Proc, NEW g \in Leased(p)
  PROVE  /\ g \in Gate
         /\ session[p].path \in Path
         /\ lock[p][g] = Mode(p)
         /\ owner[g] = session[p].path
         /\ owner[g] # None
<1>1. session[p].pc # "closed" => session[p].path \in Path
  BY DEF IInv, SessionIsOrderly
<1>2. session[p].pc = "closed" => Leased(p) = {}
  BY DEF IInv, SessionIsOrderly
<1>. QED BY <1>1, <1>2, PathAssumption DEF IInv, LeasesAreOwned, Leased

LEMMA OthersStayOrderly ==
  ASSUME IInv, OwnersStay, NEW q \in Proc,
         session'[q] = session[q], lock'[q] = lock[q]
  PROVE  Orderly(q)'
<1>1. Leased(q)' = Leased(q) /\ ToRelease(q)' = ToRelease(q)
  BY DEF Leased, ToRelease
<1>2. AttemptIsOrderly(q)'
  <2>1. AttemptIsOrderly(q)
    BY DEF IInv
  <2>2. ASSUME session[q].pc \in {"acquiring", "checking"}
        PROVE  owner'[session[q].gate] # None
    <3>1. session[q].gate \in Gate
      BY <2>1, <2>2 DEF AttemptIsOrderly, Attempting, IInv, SessionIsOrderly, Gate
    <3>. QED BY <2>1, <2>2, <3>1 DEF AttemptIsOrderly, Attempting, OwnersStay
  <2>. QED BY <1>1, <2>1, <2>2 DEF AttemptIsOrderly, LockedMeanwhile, At
<1>3. SessionIsOrderly(q)'
  <2>1. SessionIsOrderly(q)
    BY DEF IInv
  <2>. QED BY <1>1, <2>1 DEF SessionIsOrderly
<1>4. LeasesAreOwned(q)'
  BY <1>1, LeasedHavePath DEF LeasesAreOwned, Mode, OwnersStay
<1>. QED BY <1>2, <1>3, <1>4 DEF Orderly

\* A step of p keeps the invariant if what is p's is in order afterwards and its
\* locks are compatible with those of the others.
LEMMA StepOfOne ==
  ASSUME IInv, NEW p \in Proc, TypeOK', OnlyMoves(p), OwnersStay, Orderly(p)',
         \A q \in Proc \ {p}, g \in Gate :
           /\ lock'[p][g] = "exclusive" => lock[q][g] = "none"
           /\ lock[q][g] = "exclusive" => lock'[p][g] = "none"
  PROVE  IInv'
<1>1. LocksExclude'
  <2> SUFFICES ASSUME NEW q \in Proc, NEW r \in Proc, NEW g \in Gate,
                      lock'[q][g] = "exclusive", r # q
               PROVE  lock'[r][g] = "none"
    BY DEF LocksExclude
  <2>1. CASE q = p
    BY <2>1 DEF OnlyMoves
  <2>2. CASE r = p
    BY <2>2 DEF OnlyMoves
  <2>3. CASE q # p /\ r # p
    BY <2>3 DEF OnlyMoves, IInv, LocksExclude
  <2>. QED BY <2>1, <2>2, <2>3
<1>2. ASSUME NEW q \in Proc \ {p}
      PROVE  Orderly(q)'
  BY <1>2, OthersStayOrderly DEF OnlyMoves
<1>. QED BY <1>1, <1>2 DEF IInv, Orderly

\* The same for a step that takes no lock.
LEMMA StepWithoutLock ==
  ASSUME IInv, NEW p \in Proc, TypeOK', OnlyMoves(p), OwnersStay, Orderly(p)',
         \A g \in Gate : lock'[p][g] \in {lock[p][g], "none"}
  PROVE  IInv'
<1>1. \A q \in Proc \ {p}, g \in Gate :
        /\ lock'[p][g] = "exclusive" => lock[q][g] = "none"
        /\ lock[q][g] = "exclusive" => lock'[p][g] = "none"
  BY DEF IInv, LocksExclude
<1>. QED BY <1>1, StepOfOne

LEMMA InitEstablishesIInv == Init => IInv
<1> SUFFICES ASSUME Init PROVE IInv
  OBVIOUS
<1>1. TypeOK
  BY DEF Init, TypeOK, Closed, Pc
<1>2. ASSUME NEW p \in Proc
      PROVE  AttemptIsOrderly(p) /\ SessionIsOrderly(p) /\ LeasesAreOwned(p)
  <2>1. session[p] = Closed /\ Leased(p) = {}
    BY DEF Init, Leased
  <2>. QED BY <2>1 DEF AttemptIsOrderly, SessionIsOrderly, LeasesAreOwned, Closed, Attempting
<1>3. LocksExclude
  BY DEF Init, LocksExclude
<1>. QED BY <1>1, <1>2, <1>3 DEF IInv

----------------------------------------------------------------------------
(* Sessions begin.                                                         *)

LEMMA OpenKeeps ==
  ASSUME IInv, NEW p \in Proc, NEW c \in Path, NEW x \in BOOLEAN, Open(p, c, x)
  PROVE  IInv'
<1>1. session'[p] = [pc |-> "probing", path |-> c, exclusive |-> x,
                     gate |-> c, stuck |-> {}]
  BY DEF Open, IInv, TypeOK, Closed
<1>2. TypeOK'
  BY PathAssumption DEF Open, IInv, TypeOK, Closed, Pc, Gate
<1>3. OnlyMoves(p) /\ OwnersStay /\ lock' = lock
  BY DEF Open, IInv, TypeOK, OnlyMoves, OwnersStay
<1>4. Leased(p)' = {} /\ lock'[p][c] = "none"
  <2>1. session[p] = Closed /\ Leased(p) = {}
    BY DEF Open, At, IInv, SessionIsOrderly
  <2>2. \A g \in Gate : lock[p][g] = "none"
    BY <2>1, PathAssumption DEF Leased, Closed, Gate
  <2>. QED BY <1>1, <1>3, <2>2 DEF Leased, Gate
<1>5. Orderly(p)'
  BY <1>1, <1>4 DEF Orderly, AttemptIsOrderly, SessionIsOrderly, LeasesAreOwned,
     LockedMeanwhile, At
<1>. QED BY <1>2, <1>3, <1>5, StepWithoutLock

LEMMA BindKeeps ==
  ASSUME IInv, NEW p \in Proc, NEW r \in Root, Bind(p, r)
  PROVE  IInv'
<1>1. session'[p] = [session[p] EXCEPT !.pc = "probing", !.gate = r]
  BY DEF Bind, IInv, TypeOK
<1>2. TypeOK'
  <2>1. TypeOK /\ [session[p] EXCEPT !.pc = "probing", !.gate = r] \in Session
    BY DEF IInv, TypeOK, Session, Pc, Gate
  <2>2. session' = [session EXCEPT ![p] = [session[p] EXCEPT !.pc = "probing", !.gate = r]]
    BY DEF Bind
  <2>3. session' \in [Proc -> Session]
    BY <2>1, <2>2, SessionFacts
  <2>. QED BY <2>1, <2>3 DEF Bind, TypeOK, Session
<1>3. OnlyMoves(p) /\ OwnersStay /\ lock' = lock
  BY DEF Bind, IInv, TypeOK, OnlyMoves, OwnersStay
<1>4. /\ session[p].pc = "open" /\ session[p].gate = None
      /\ session[p].stuck = {} /\ session[p].path \in Leased(p)
      /\ session[p].path \in Path
  BY DEF Bind, At, IInv, SessionIsOrderly
<1>5. /\ Leased(p)' = Leased(p) /\ lock'[p][r] = "none"
  <2>1. r \in Gate /\ r # None /\ lock[p][r] = "none"
    BY <1>4, PathAssumption DEF Bind, Leased, Gate, IInv, TypeOK
  <2>2. session'[p].gate = r
    BY <1>1 DEF IInv, TypeOK
  <2>. QED BY <1>3, <1>4, <2>1, <2>2, NoneIsNoGate DEF Leased
<1>6. session'[p].pc = "probing" /\ session'[p].gate = r
      /\ session'[p].path = session[p].path /\ session'[p].stuck = {}
      /\ session'[p].exclusive = session[p].exclusive
  BY <1>1, <1>4 DEF IInv, TypeOK
<1>7. AttemptIsOrderly(p)' /\ SessionIsOrderly(p)'
  BY <1>4, <1>5, <1>6, PathAssumption
     DEF AttemptIsOrderly, SessionIsOrderly, LockedMeanwhile, At
<1>8. LeasesAreOwned(p)'
  BY <1>3, <1>5, <1>6, LeasedHavePath DEF LeasesAreOwned, Mode, Bind
<1>9. Orderly(p)'
  BY <1>7, <1>8 DEF Orderly
<1>. QED BY <1>2, <1>3, <1>9, StepWithoutLock

----------------------------------------------------------------------------
(* A lease is attempted.                                                   *)

\* p comes to the next statement with m as its lock on the gate it is at.
LEMMA AttemptGoesOn ==
  ASSUME IInv, NEW p \in Proc, NEW pc \in Attempting, NEW m,
         session[p].pc \in Attempting,
         session' = [session EXCEPT ![p].pc = pc],
         lock' = [lock EXCEPT ![p][session[p].gate] = m],
         owner' \in [Gate -> Path \cup {None}], OwnersStay,
         pc \in {"acquiring", "checking"} => owner'[session[p].gate] # None,
         m = IF pc = "creating" \/ (pc = "checking" /\ session[p].exclusive)
               THEN "exclusive" ELSE "none",
         m = "exclusive" => MayExclude(p, session[p].gate)
  PROVE  IInv'
<1> DEFINE g == session[p].gate
<1>1. /\ session'[p].pc = pc /\ session'[p].gate = g
      /\ session'[p].path = session[p].path /\ session'[p].stuck = session[p].stuck
      /\ session'[p].exclusive = session[p].exclusive
  BY DEF IInv, TypeOK
<1>2. /\ g \in Root \cup {session[p].path}
      /\ session[p].path \in Path
      /\ session[p].stuck = {}
      /\ IF g = session[p].path THEN Leased(p) = {} ELSE session[p].path \in Leased(p)
  BY DEF IInv, AttemptIsOrderly, SessionIsOrderly, Attempting
<1>3. g \in Gate
  BY <1>2 DEF Gate
<1>4. /\ lock'[p][g] = m
      /\ \A h \in Gate \ {g} : lock'[p][h] = lock[p][h]
  BY <1>3 DEF IInv, TypeOK
<1>5. TypeOK'
  <2>1. TypeOK /\ pc \in Pc /\ m \in {"none", "shared", "exclusive"}
    BY DEF IInv, Attempting, Pc
  <2>2. session' \in [Proc -> Session]
    BY <2>1, PcFacts
  <2>3. lock' \in [Proc -> [Gate -> {"none", "shared", "exclusive"}]]
    BY <1>3, <2>1, SetLockFacts DEF SetLock
  <2>. QED BY <2>2, <2>3 DEF TypeOK, Session
<1>6. OnlyMoves(p)
  BY DEF IInv, TypeOK, OnlyMoves
<1>7. Leased(p)' = Leased(p)
  BY <1>1, <1>4 DEF Leased
<1>8. LeasesAreOwned(p)'
  <2>1. \A h \in Leased(p) : h \in Gate \ {g}
    BY DEF Leased
  <2>. QED BY <1>1, <1>4, <1>7, <2>1, LeasedHavePath DEF LeasesAreOwned, Mode, OwnersStay
<1>9. AttemptIsOrderly(p)'
  BY <1>1, <1>2, <1>4, <1>7 DEF AttemptIsOrderly, LockedMeanwhile, At
<1>10. SessionIsOrderly(p)'
  BY <1>1, <1>2 DEF SessionIsOrderly, Attempting
<1>11. Orderly(p)'
  BY <1>8, <1>9, <1>10 DEF Orderly
<1>12. ASSUME NEW q \in Proc \ {p}, NEW h \in Gate
       PROVE  /\ lock'[p][h] = "exclusive" => lock[q][h] = "none"
              /\ lock[q][h] = "exclusive" => lock'[p][h] = "none"
  BY <1>4, <1>12 DEF IInv, LocksExclude, MayExclude
<1>. QED BY <1>5, <1>6, <1>11, <1>12, StepOfOne

\* Where p is in the middle of getting a lease.
LEMMA AttemptFacts ==
  ASSUME IInv, NEW p \in Proc, session[p].pc \in Attempting
  PROVE  /\ session[p].gate \in Root \cup {session[p].path}
         /\ session[p].gate \in Gate
         /\ session[p].path \in Path
         /\ session[p].stuck = {}
         /\ lock[p][session[p].gate] = LockedMeanwhile(p)
         /\ session[p].pc \in {"acquiring", "checking"} => owner[session[p].gate] # None
         /\ IF session[p].gate = session[p].path
              THEN Leased(p) = {} ELSE session[p].path \in Leased(p)
BY DEF IInv, AttemptIsOrderly, SessionIsOrderly, Attempting, Gate

LEMMA ProbeKeeps ==
  ASSUME IInv, NEW p \in Proc, Probe(p)
  PROVE  IInv'
<1> DEFINE pc == IF owner[session[p].gate] = None THEN "beginning" ELSE "acquiring"
<1>1. session[p].pc \in Attempting /\ pc \in Attempting
  BY DEF Probe, At, Attempting
<1>2. lock[p][session[p].gate] = "none" /\ session[p].gate \in Gate
  BY <1>1, AttemptFacts DEF Probe, At, LockedMeanwhile
<1>3. lock' = [lock EXCEPT ![p][session[p].gate] = "none"]
  BY <1>2 DEF Probe, IInv, TypeOK
<1>4. owner' \in [Gate -> Path \cup {None}] /\ OwnersStay
  BY DEF Probe, IInv, TypeOK, OwnersStay
<1>5. /\ session' = [session EXCEPT ![p].pc = pc]
      /\ pc \in {"acquiring", "checking"} => owner'[session[p].gate] # None
  BY DEF Probe, Goto
<1>6. "none" = IF pc = "creating" \/ (pc = "checking" /\ session[p].exclusive)
                 THEN "exclusive" ELSE "none"
  OBVIOUS
<1> HIDE DEF pc
<1>. QED BY <1>1, <1>3, <1>4, <1>5, <1>6, AttemptGoesOn

LEMMA BeginCreateKeeps ==
  ASSUME IInv, NEW p \in Proc, BeginCreate(p)
  PROVE  IInv'
<1>1. session[p].pc \in Attempting
  BY DEF BeginCreate, At, Attempting
<1>2. owner' \in [Gate -> Path \cup {None}] /\ OwnersStay
  BY DEF BeginCreate, IInv, TypeOK, OwnersStay
<1>3. /\ lock' = [lock EXCEPT ![p][session[p].gate] = "exclusive"]
      /\ session' = [session EXCEPT ![p].pc = "creating"]
      /\ MayExclude(p, session[p].gate)
      /\ "creating" \in Attempting
  BY DEF BeginCreate, SetLock, Goto, Attempting
<1>. QED BY <1>1, <1>2, <1>3, AttemptGoesOn

LEMMA CreateKeeps ==
  ASSUME IInv, NEW p \in Proc, Create(p)
  PROVE  IInv'
<1> DEFINE g == session[p].gate
<1>1. session[p].pc \in Attempting /\ "acquiring" \in Attempting
  BY DEF Create, At, Attempting
<1>2. g \in Gate /\ session[p].path \in Path
  BY <1>1, AttemptFacts
<1>3. owner' = [owner EXCEPT ![g] = IF @ = None THEN session[p].path ELSE @]
  BY DEF Create
<1>4. owner' \in [Gate -> Path \cup {None}] /\ OwnersStay /\ owner'[g] # None
  BY <1>2, <1>3, PathAssumption DEF IInv, TypeOK, OwnersStay
<1>5. /\ lock' = [lock EXCEPT ![p][g] = "none"]
      /\ session' = [session EXCEPT ![p].pc = "acquiring"]
  BY DEF Create, SetLock, Goto
<1>6. "none" = IF "acquiring" = "creating" \/ ("acquiring" = "checking" /\ session[p].exclusive)
                 THEN "exclusive" ELSE "none"
  OBVIOUS
<1>. QED BY <1>1, <1>4, <1>5, <1>6, AttemptGoesOn

LEMMA AcquireKeeps ==
  ASSUME IInv, NEW p \in Proc, Acquire(p)
  PROVE  IInv'
<1> DEFINE g == session[p].gate
           m == IF session[p].exclusive THEN "exclusive" ELSE "none"
<1>1. session[p].pc \in Attempting /\ "checking" \in Attempting
  BY DEF Acquire, At, Attempting
<1>2. g \in Gate /\ owner[g] # None /\ lock[p][g] = "none"
  BY <1>1, AttemptFacts DEF Acquire, At, LockedMeanwhile
<1>3. lock' = [lock EXCEPT ![p][g] = m]
  BY <1>2 DEF Acquire, SetLock, IInv, TypeOK
<1>4. /\ owner' \in [Gate -> Path \cup {None}] /\ OwnersStay /\ owner'[g] # None
      /\ session' = [session EXCEPT ![p].pc = "checking"]
      /\ m = "exclusive" => MayExclude(p, g)
  BY <1>2 DEF Acquire, Goto, IInv, TypeOK, OwnersStay
<1>. QED BY <1>1, <1>3, <1>4, AttemptGoesOn

LEMMA CheckKeeps ==
  ASSUME IInv, NEW p \in Proc, Check(p)
  PROVE  IInv'
<1> DEFINE g == session[p].gate
<1>1. session[p].pc \in Attempting /\ session[p].pc = "checking"
  BY DEF Check, At, Attempting
<1>2. /\ g \in Gate /\ session[p].path \in Path /\ session[p].stuck = {}
      /\ lock[p][g] = IF session[p].exclusive THEN "exclusive" ELSE "none"
      /\ IF g = session[p].path THEN Leased(p) = {} ELSE session[p].path \in Leased(p)
  BY <1>1, AttemptFacts DEF LockedMeanwhile, At
<1> DEFINE s == [session[p] EXCEPT !.pc = "open", !.gate = None]
<1>a. TypeOK /\ s \in Session
  BY DEF IInv, TypeOK, Session, Pc
<1>b. /\ session' \in [Proc -> Session] /\ session'[p] = s
      /\ \A q \in Proc \ {p} : session'[q] = session[q]
  <2>1. session' = [session EXCEPT ![p] = s]
    BY DEF Check
  <2>. QED BY <1>a, <2>1, SessionFacts
<1>c. SetLock(p, g, Mode(p)) /\ Mode(p) \in {"none", "shared", "exclusive"}
  BY DEF Check, Mode
<1>3. /\ session'[p].pc = "open" /\ session'[p].gate = None
      /\ session'[p].path = session[p].path /\ session'[p].stuck = {}
      /\ session'[p].exclusive = session[p].exclusive
  BY <1>2, <1>a, <1>b DEF TypeOK, Session
<1>4. /\ lock'[p][g] = Mode(p)
      /\ \A h \in Gate \ {g} : lock'[p][h] = lock[p][h]
  BY <1>2, <1>a, <1>c, SetLockFacts
<1>5. TypeOK' /\ OnlyMoves(p) /\ OwnersStay
  <2>1. owner' = owner
    BY DEF Check
  <2>2. /\ lock' \in [Proc -> [Gate -> {"none", "shared", "exclusive"}]]
        /\ \A q \in Proc \ {p} : lock'[q] = lock[q]
    BY <1>2, <1>a, <1>c, SetLockFacts
  <2>. QED BY <1>a, <1>b, <2>1, <2>2, StepIsOnes
<1>6. Leased(p)' = Leased(p) \cup {g}
  BY <1>2, <1>3, <1>4, NoneIsNoGate DEF Leased, Mode
<1>7. LeasesAreOwned(p)'
  <2>1. \A h \in Leased(p) : h \in Gate \ {g}
    BY DEF Leased
  <2>2. owner' = owner /\ owner[g] = session[p].path
    BY DEF Check
  <2>. QED
    BY <1>3, <1>4, <1>6, <2>1, <2>2, LeasedHavePath DEF LeasesAreOwned, Mode
<1>8. Orderly(p)'
  BY <1>2, <1>3, <1>6, <1>7
     DEF Orderly, AttemptIsOrderly, SessionIsOrderly, Attempting
<1>9. ASSUME NEW q \in Proc \ {p}, NEW h \in Gate
      PROVE  /\ lock'[p][h] = "exclusive" => lock[q][h] = "none"
             /\ lock[q][h] = "exclusive" => lock'[p][h] = "none"
  <2>1. CASE h = g
    BY <1>2, <1>4, <2>1 DEF Mode, Check, MayRead, IInv, LocksExclude
  <2>2. CASE h # g
    BY <1>4, <2>2 DEF IInv, LocksExclude
  <2>. QED BY <2>1, <2>2
<1>. QED BY <1>5, <1>8, <1>9, StepOfOne

LEMMA RefuseKeeps ==
  ASSUME IInv, NEW p \in Proc, session[p].pc \in Attempting, Refuse(p)
  PROVE  IInv'
<1> DEFINE g == session[p].gate
<1>1. /\ g \in Gate /\ session[p].path \in Path /\ session[p].stuck = {}
      /\ IF g = session[p].path THEN Leased(p) = {} ELSE session[p].path \in Leased(p)
  BY AttemptFacts
<1>2. /\ lock'[p][g] = "none"
      /\ \A h \in Gate \ {g} : lock'[p][h] = lock[p][h]
  BY <1>1, SetLockFacts DEF Refuse, IInv
<1>3. TypeOK' /\ OnlyMoves(p) /\ OwnersStay
  <2> DEFINE s == IF g = session[p].path
                    THEN Closed ELSE [session[p] EXCEPT !.pc = "open", !.gate = None]
  <2>1. TypeOK /\ s \in Session
    BY DEF IInv, TypeOK, Session, Pc, Closed
  <2>2. session' = [session EXCEPT ![p] = s] /\ owner' = owner
    BY DEF Refuse
  <2>3. /\ session' \in [Proc -> Session]
        /\ \A q \in Proc \ {p} : session'[q] = session[q]
    BY <2>1, <2>2, SessionFacts
  <2>4. /\ lock' \in [Proc -> [Gate -> {"none", "shared", "exclusive"}]]
        /\ \A q \in Proc \ {p} : lock'[q] = lock[q]
    BY <1>1, <2>1, SetLockFacts DEF Refuse
  <2>. QED BY <2>1, <2>2, <2>3, <2>4, StepIsOnes
<1>4. \A h \in Leased(p) : h \in Gate \ {g}
  BY DEF Leased
<1>5. ASSUME g = session[p].path
      PROVE  Orderly(p)'
  <2>1. session'[p] = Closed
    BY <1>5 DEF Refuse, IInv, TypeOK
  <2>2. Leased(p)' = {}
    BY <1>1, <1>2, <1>5, <2>1, NoneIsNoGate DEF Leased, Closed
  <2>. QED BY <2>1, <2>2
     DEF Orderly, AttemptIsOrderly, SessionIsOrderly, LeasesAreOwned, Closed, Attempting
<1>6. ASSUME g # session[p].path
      PROVE  Orderly(p)'
  <2>1. /\ session'[p].pc = "open" /\ session'[p].gate = None
        /\ session'[p].path = session[p].path /\ session'[p].stuck = {}
        /\ session'[p].exclusive = session[p].exclusive
    BY <1>1, <1>6 DEF Refuse, IInv, TypeOK
  <2>2. Leased(p)' = Leased(p)
    BY <1>1, <1>2, <2>1, NoneIsNoGate DEF Leased
  <2>3. LeasesAreOwned(p)'
    BY <1>2, <1>3, <1>4, <2>1, <2>2, LeasedHavePath DEF LeasesAreOwned, Mode, OwnersStay
  <2>4. AttemptIsOrderly(p)' /\ SessionIsOrderly(p)'
    BY <1>1, <1>6, <2>1, <2>2 DEF AttemptIsOrderly, SessionIsOrderly, Attempting
  <2>. QED BY <2>3, <2>4 DEF Orderly
<1>7. Orderly(p)'
  BY <1>5, <1>6
<1>. QED BY <1>2, <1>3, <1>7, StepWithoutLock

LEMMA BusyAndMismatchKeep ==
  ASSUME IInv, NEW p \in Proc, Busy(p) \/ Mismatch(p)
  PROVE  IInv'
<1>1. session[p].pc \in Attempting /\ Refuse(p)
  BY DEF Busy, Mismatch, At, Attempting
<1>. QED BY <1>1, RefuseKeeps

----------------------------------------------------------------------------
(* Leases end.                                                             *)

\* What a closing session still has to release, and what it then has.
LEMMA ClosingFacts ==
  ASSUME IInv, NEW p \in Proc, At(p, "closing")
  PROVE  /\ session[p].gate = None
         /\ session[p].path \in Path
         /\ ToRelease(p) # {} => session[p].path \in ToRelease(p)
         /\ Leased(p) = {g \in Gate : lock[p][g] # "none"}
BY NoneIsNoGate DEF IInv, SessionIsOrderly, At, Leased

LEMMA StartCloseKeeps ==
  ASSUME IInv, NEW p \in Proc, StartClose(p)
  PROVE  IInv'
<1>1. /\ session[p].pc = "open" /\ session[p].gate = None /\ session[p].stuck = {}
      /\ session[p].path \in Leased(p) /\ session[p].path \in Path
  BY DEF StartClose, At, IInv, SessionIsOrderly
<1>2. /\ session'[p].pc = "closing" /\ session'[p].gate = None
      /\ session'[p].path = session[p].path /\ session'[p].stuck = {}
      /\ session'[p].exclusive = session[p].exclusive
  BY <1>1 DEF StartClose, Goto, IInv, TypeOK
<1>3. TypeOK' /\ OnlyMoves(p) /\ OwnersStay /\ lock' = lock
  <2>1. TypeOK /\ owner' = owner /\ lock' = lock
    BY DEF StartClose, IInv
  <2>2. /\ session' \in [Proc -> Session]
        /\ \A q \in Proc \ {p} : session'[q] = session[q]
    BY <2>1, PcFacts DEF StartClose, Goto, Pc
  <2>3. lock' \in [Proc -> [Gate -> {"none", "shared", "exclusive"}]]
    BY <2>1 DEF TypeOK
  <2>. QED BY <2>1, <2>2, <2>3, StepIsOnes
<1>4. Leased(p)' = Leased(p) /\ ToRelease(p)' = Leased(p)
  BY <1>1, <1>2, <1>3 DEF Leased, ToRelease
<1>5. LeasesAreOwned(p)'
  BY <1>2, <1>3, <1>4, LeasedHavePath DEF LeasesAreOwned, Mode, OwnersStay
<1>6. Orderly(p)'
  BY <1>1, <1>2, <1>4, <1>5
     DEF Orderly, AttemptIsOrderly, SessionIsOrderly, Attempting
<1>. QED BY <1>3, <1>6, StepWithoutLock

\* One lease is closed: a root's, or the catalog's when it is the last.
LEMMA ReleaseKeeps ==
  ASSUME IInv, NEW p \in Proc, At(p, "closing"),
         NEW g \in Gate, g \in ToRelease(p),
         g \in Root \/ ToRelease(p) = {g},
         SetLock(p, g, "none"), UNCHANGED <<owner, session>>
  PROVE  IInv'
<1>1. TypeOK' /\ OnlyMoves(p) /\ OwnersStay
  BY DEF SetLock, IInv, TypeOK, OnlyMoves, OwnersStay
<1>2. /\ lock'[p][g] = "none"
      /\ \A h \in Gate \ {g} : lock'[p][h] = lock[p][h]
  BY DEF SetLock, IInv, TypeOK
<1>3. Leased(p)' = Leased(p) \ {g} /\ ToRelease(p)' = ToRelease(p) \ {g}
  BY <1>2 DEF Leased, ToRelease
<1>4. ToRelease(p)' # {} => session[p].path \in ToRelease(p)'
  BY <1>3, ClosingFacts, PathAssumption
<1>5. LeasesAreOwned(p)'
  <2>1. \A h \in Leased(p)' : h \in Leased(p) /\ h \in Gate \ {g}
    BY <1>3 DEF Leased
  <2>. QED BY <1>2, <2>1, LeasedHavePath DEF LeasesAreOwned, Mode
<1>6. Orderly(p)'
  BY <1>4, <1>5, ClosingFacts
     DEF Orderly, AttemptIsOrderly, SessionIsOrderly, Attempting, At
<1>. QED BY <1>1, <1>2, <1>6, StepWithoutLock

LEMMA ReleaseRootKeeps ==
  ASSUME IInv, NEW p \in Proc, ReleaseRoot(p)
  PROVE  IInv'
<1>1. PICK r \in Root \cap ToRelease(p) : SetLock(p, r, "none")
  BY DEF ReleaseRoot
<1>2. r \in Gate
  BY DEF Gate
<1>3. At(p, "closing") /\ UNCHANGED <<owner, session>>
  BY DEF ReleaseRoot
<1>. QED BY <1>1, <1>2, <1>3, ReleaseKeeps

LEMMA ReleaseCatalogKeeps ==
  ASSUME IInv, NEW p \in Proc, ReleaseCatalog(p)
  PROVE  IInv'
<1> DEFINE g == session[p].path
<1>1. At(p, "closing") /\ ToRelease(p) = {g} /\ SetLock(p, g, "none")
      /\ UNCHANGED <<owner, session>>
  BY DEF ReleaseCatalog
<1>2. g \in Gate
  BY <1>1 DEF ToRelease, Leased
<1>. QED BY <1>1, <1>2, ReleaseKeeps

LEMMA ReleaseFailsKeeps ==
  ASSUME IInv, NEW p \in Proc, ReleaseFails(p)
  PROVE  IInv'
<1>1. PICK g \in ToRelease(p) :
        /\ g \in Root \/ ToRelease(p) = {g}
        /\ session' = [session EXCEPT ![p].stuck = @ \cup {g}]
  BY DEF ReleaseFails
<1>2. g \in Gate
  BY DEF ToRelease, Leased
<1>3. At(p, "closing") /\ lock' = lock /\ owner' = owner
  BY DEF ReleaseFails
<1>4. /\ session'[p].pc = "closing" /\ session'[p].gate = None
      /\ session'[p].path = session[p].path
      /\ session'[p].stuck = session[p].stuck \cup {g}
      /\ session'[p].exclusive = session[p].exclusive
  BY <1>1, <1>3, ClosingFacts DEF At, IInv, TypeOK
<1>5. TypeOK' /\ OnlyMoves(p) /\ OwnersStay
  <2> DEFINE s == [session[p] EXCEPT !.stuck = @ \cup {g}]
  <2>1. TypeOK /\ s \in Session
    BY <1>2 DEF IInv, TypeOK, Session
  <2>2. session' = [session EXCEPT ![p] = s]
    BY <1>1
  <2>3. /\ session' \in [Proc -> Session]
        /\ \A q \in Proc \ {p} : session'[q] = session[q]
    BY <2>1, <2>2, SessionFacts
  <2>4. /\ lock' \in [Proc -> [Gate -> {"none", "shared", "exclusive"}]]
        /\ owner' = owner /\ lock' = lock
    BY <1>3, <2>1 DEF TypeOK
  <2>. QED BY <2>1, <2>3, <2>4, StepIsOnes
<1>6. Leased(p)' = Leased(p) /\ ToRelease(p)' = ToRelease(p) \ {g}
  BY <1>3, <1>4, ClosingFacts DEF Leased, ToRelease
<1>7. ToRelease(p)' # {} => session[p].path \in ToRelease(p)'
  BY <1>1, <1>3, <1>6, ClosingFacts, PathAssumption
<1>8. LeasesAreOwned(p)'
  BY <1>3, <1>4, <1>6, LeasedHavePath DEF LeasesAreOwned, Mode
<1>9. Orderly(p)'
  BY <1>3, <1>4, <1>7, <1>8, ClosingFacts
     DEF Orderly, AttemptIsOrderly, SessionIsOrderly, Attempting
<1>. QED BY <1>3, <1>5, <1>9, StepWithoutLock

LEMMA EndCloseKeeps ==
  ASSUME IInv, NEW p \in Proc, EndClose(p)
  PROVE  IInv'
<1>1. At(p, "closing") /\ ToRelease(p) = {} /\ lock' = lock /\ owner' = owner
  BY DEF EndClose
<1>2. TypeOK' /\ OnlyMoves(p) /\ OwnersStay
  <2> DEFINE s == IF session[p].stuck = {}
                    THEN Closed ELSE [session[p] EXCEPT !.pc = "leaking"]
  <2>1. TypeOK /\ s \in Session
    BY DEF IInv, TypeOK, Session, Pc, Closed
  <2>2. session' = [session EXCEPT ![p] = s]
    BY DEF EndClose
  <2>3. /\ session' \in [Proc -> Session]
        /\ \A q \in Proc \ {p} : session'[q] = session[q]
    BY <2>1, <2>2, SessionFacts
  <2>4. lock' \in [Proc -> [Gate -> {"none", "shared", "exclusive"}]]
    BY <1>1, <2>1 DEF TypeOK
  <2>. QED BY <1>1, <2>1, <2>3, <2>4, StepIsOnes
<1>3. ASSUME session[p].stuck = {}
      PROVE  Orderly(p)'
  <2>1. session'[p] = Closed
    BY <1>3 DEF EndClose, IInv, TypeOK
  <2>2. Leased(p) = {}
    BY <1>1, <1>3 DEF ToRelease
  <2>3. Leased(p)' = {}
    BY <1>1, <2>1, <2>2, ClosingFacts DEF Leased, Closed
  <2>. QED BY <2>1, <2>3
     DEF Orderly, AttemptIsOrderly, SessionIsOrderly, LeasesAreOwned, Closed, Attempting
<1>4. ASSUME session[p].stuck # {}
      PROVE  Orderly(p)'
  <2>1. /\ session'[p].pc = "leaking" /\ session'[p].gate = None
        /\ session'[p].path = session[p].path
        /\ session'[p].stuck = session[p].stuck
        /\ session'[p].exclusive = session[p].exclusive
    BY <1>1, <1>4, ClosingFacts DEF EndClose, IInv, TypeOK
  <2>2. Leased(p)' = Leased(p) /\ ToRelease(p)' = {}
    BY <1>1, <2>1, ClosingFacts DEF Leased, ToRelease
  <2>3. LeasesAreOwned(p)'
    BY <1>1, <2>1, <2>2, LeasedHavePath DEF LeasesAreOwned, Mode
  <2>. QED BY <1>1, <2>1, <2>2, <2>3, ClosingFacts
     DEF Orderly, AttemptIsOrderly, SessionIsOrderly, Attempting
<1>5. Orderly(p)'
  BY <1>3, <1>4
<1>. QED BY <1>1, <1>2, <1>5, StepWithoutLock

LEMMA CrashKeeps ==
  ASSUME IInv, NEW p \in Proc, Crash(p)
  PROVE  IInv'
<1>1. TypeOK' /\ OnlyMoves(p) /\ OwnersStay
  BY DEF Crash, IInv, TypeOK, Pc, Closed, OnlyMoves, OwnersStay
<1>2. session'[p] = Closed /\ \A g \in Gate : lock'[p][g] = "none"
  BY DEF Crash, IInv, TypeOK
<1>3. Leased(p)' = {}
  BY <1>2 DEF Leased
<1>4. Orderly(p)'
  BY <1>2, <1>3
     DEF Orderly, AttemptIsOrderly, SessionIsOrderly, LeasesAreOwned, Closed, Attempting
<1>. QED BY <1>1, <1>2, <1>4, StepWithoutLock

LEMMA StepPreservesIInv == IInv /\ [Next]_vars => IInv'
<1> SUFFICES ASSUME IInv, [Next]_vars PROVE IInv'
  OBVIOUS
<1>1. CASE UNCHANGED vars
  BY <1>1 DEF vars, IInv, TypeOK, LocksExclude, AttemptIsOrderly, SessionIsOrderly,
     LeasesAreOwned, Leased, ToRelease, LockedMeanwhile, At, Mode
<1>2. ASSUME NEW p \in Proc, \E c \in Path, x \in BOOLEAN : Open(p, c, x)
      PROVE  IInv'
  BY <1>2, OpenKeeps
<1>3. ASSUME NEW p \in Proc, \E r \in Root : Bind(p, r)
      PROVE  IInv'
  BY <1>3, BindKeeps
<1>4. ASSUME NEW p \in Proc,
             Probe(p) \/ BeginCreate(p) \/ Create(p) \/ Acquire(p) \/ Check(p)
      PROVE  IInv'
  BY <1>4, ProbeKeeps, BeginCreateKeeps, CreateKeeps, AcquireKeeps, CheckKeeps
<1>5. ASSUME NEW p \in Proc, Busy(p) \/ Mismatch(p)
      PROVE  IInv'
  BY <1>5, BusyAndMismatchKeep
<1>6. ASSUME NEW p \in Proc,
             \/ StartClose(p) \/ ReleaseRoot(p) \/ ReleaseCatalog(p)
             \/ ReleaseFails(p) \/ EndClose(p) \/ Crash(p)
      PROVE  IInv'
  BY <1>6, StartCloseKeeps, ReleaseRootKeeps, ReleaseCatalogKeeps, ReleaseFailsKeeps,
     EndCloseKeeps, CrashKeeps
<1>. QED BY <1>1, <1>2, <1>3, <1>4, <1>5, <1>6 DEF Next

----------------------------------------------------------------------------
(* Gates are leases.                                                       *)

Held == [p \in Proc |-> [g \in Gate |-> LeaseOn(p, g)]]
Nothing == [mode |-> "none", path |-> None]

\* Who has no lease after a step has nothing.
LEMMA HeldByOthers ==
  ASSUME IInv, NEW q \in Proc, session'[q] = session[q], lock'[q] = lock[q]
  PROVE  \A g \in Gate : LeaseOn(q, g)' = LeaseOn(q, g)
BY DEF LeaseOn, Leased

LEMMA StuttersWhen ==
  ASSUME IInv, NEW p \in Proc, OnlyMoves(p), owner' = owner,
         \A g \in Gate : LeaseOn(p, g)' = LeaseOn(p, g)
  PROVE  UNCHANGED Leases!vars
<1>1. \A q \in Proc, g \in Gate : LeaseOn(q, g)' = LeaseOn(q, g)
  BY HeldByOthers DEF OnlyMoves
<1>. QED BY <1>1 DEF Leases!vars

LEMMA InitImplements == Init => Leases!Init
<1> SUFFICES ASSUME Init PROVE Leases!Init
  OBVIOUS
<1>1. \A p \in Proc, g \in Gate : LeaseOn(p, g) = Nothing
  BY DEF Init, LeaseOn, Leased, Nothing
<1>. QED BY <1>1 DEF Init, Leases!Init, Leases!Nothing, Nothing

\* Statements of an attempt that has not succeeded yet are not seen, but for the
\* one that claims the gate.
LEMMA CreateImplements ==
  ASSUME IInv, NEW p \in Proc, Create(p)
  PROVE  Leases!Next \/ UNCHANGED Leases!vars
<1> DEFINE g == session[p].gate
<1>1. session[p].pc \in Attempting
  BY DEF Create, At, Attempting
<1>2. g \in Gate /\ session[p].path \in Path
  BY <1>1, AttemptFacts
<1>3. OnlyMoves(p)
  BY DEF Create, SetLock, Goto, IInv, TypeOK, OnlyMoves
<1>4. /\ session'[p].gate = g /\ session'[p].path = session[p].path
      /\ \A h \in Gate \ {g} : lock'[p][h] = lock[p][h]
  BY <1>2 DEF Create, SetLock, Goto, IInv, TypeOK
<1>5. \A h \in Gate : LeaseOn(p, h)' = LeaseOn(p, h)
  BY <1>4 DEF LeaseOn, Leased
<1>6. \A q \in Proc, h \in Gate : LeaseOn(q, h)' = LeaseOn(q, h)
  BY <1>3, <1>5, HeldByOthers DEF OnlyMoves
<1>7. CASE owner[g] = None
  <2>1. owner' = [owner EXCEPT ![g] = session[p].path]
    BY <1>7 DEF Create
  <2>2. Leases!Claim(g, session[p].path)
    BY <1>6, <1>7, <2>1 DEF Leases!Claim
  <2>. QED BY <1>2, <2>2 DEF Leases!Next
<1>8. CASE owner[g] # None
  <2>1. owner' = owner
    BY <1>2, <1>8 DEF Create, IInv, TypeOK
  <2>. QED BY <1>3, <1>5, <2>1, StuttersWhen
<1>. QED BY <1>7, <1>8

\* The read that takes the shared lock, or confirms the exclusive one.
LEMMA CheckImplements ==
  ASSUME IInv, NEW p \in Proc, Check(p), NEW g, g = session[p].gate
  PROVE  Leases!Next
<1> DEFINE m == IF session[p].exclusive THEN "exclusive" ELSE "shared"
<1>1. session[p].pc \in Attempting /\ session[p].pc = "checking"
  BY DEF Check, At, Attempting
<1>2. /\ g \in Gate /\ owner[g] # None
      /\ lock[p][g] = IF session[p].exclusive THEN "exclusive" ELSE "none"
  BY <1>1, AttemptFacts DEF LockedMeanwhile, At
<1>3. /\ session'[p].gate = None /\ session'[p].path = session[p].path
      /\ lock'[p][g] = m
      /\ \A h \in Gate \ {g} : lock'[p][h] = lock[p][h]
  BY <1>2 DEF Check, SetLock, IInv, TypeOK
<1>4. owner' = owner /\ owner[g] = session[p].path /\ MayRead(p, g)
  BY DEF Check
<1>5. OnlyMoves(p)
  BY DEF Check, SetLock, IInv, TypeOK, OnlyMoves
<1>6. LeaseOn(p, g) = Nothing
  BY DEF LeaseOn, Leased, Nothing
<1>7. /\ LeaseOn(p, g)' = [mode |-> m, path |-> owner[g]]
      /\ \A h \in Gate \ {g} : LeaseOn(p, h)' = LeaseOn(p, h)
  <2>1. m # "none"
    OBVIOUS
  <2>2. Leased(p)' = Leased(p) \cup {g} /\ g \notin Leased(p)
    BY <1>2, <1>3, <2>1, NoneIsNoGate DEF Leased
  <2>3. LeaseOn(p, g)' = [mode |-> m, path |-> owner[g]]
    <3>1. LeaseOn(p, g)' = [mode |-> lock'[p][g], path |-> session'[p].path]
      BY <2>2 DEF LeaseOn
    <3>. QED BY <3>1, <1>3, <1>4
  <2>4. ASSUME NEW h \in Gate \ {g}
        PROVE  LeaseOn(p, h)' = LeaseOn(p, h)
    <3>1. h \in Leased(p)' <=> h \in Leased(p)
      BY <2>2
    <3>. QED BY <3>1, <1>3 DEF LeaseOn
  <2>. QED BY <2>3, <2>4
<1>8. \A q \in Proc \ {p}, h \in Gate : LeaseOn(q, h)' = LeaseOn(q, h)
  BY <1>5, HeldByOthers DEF OnlyMoves
<1>9. Held' = [Held EXCEPT ![p][g] = [mode |-> m, path |-> owner[g]]]
  <2> DEFINE new == [mode |-> m, path |-> owner[g]]
             Then == [q \in Proc |-> [h \in Gate |->
                        IF q = p /\ h = g THEN new ELSE LeaseOn(q, h)]]
  <2> HIDE DEF m, new
  <2>1. [Held EXCEPT ![p][g] = new] = Then
    BY <1>2 DEF Held
  <2>2. \A q \in Proc, h \in Gate : LeaseOn(q, h)' = IF q = p /\ h = g THEN new ELSE LeaseOn(q, h)
    <3> SUFFICES ASSUME NEW q \in Proc, NEW h \in Gate
                 PROVE  LeaseOn(q, h)' = IF q = p /\ h = g THEN new ELSE LeaseOn(q, h)
      OBVIOUS
    <3>1. CASE q = p /\ h = g
      BY <1>7, <3>1 DEF new, LeaseOn, Leased
    <3>2. CASE q = p /\ h # g
      BY <1>7, <3>2 DEF LeaseOn, Leased
    <3>3. CASE q # p
      BY <1>8, <3>3
    <3>. QED BY <3>1, <3>2, <3>3
  <2>3. Held' = Then
    BY <2>2 DEF Held
  <2>. QED BY <2>1, <2>3 DEF new
<1>10. \A q \in Proc : Held[q][g].mode # "exclusive"
  BY <1>2, <1>4, <1>6 DEF Held, LeaseOn, MayRead, Nothing
<1>11. ASSUME m = "exclusive", NEW q \in Proc
       PROVE  Held[q][g] = Nothing
  <2>1. q # p => lock[q][g] = "none"
    BY <1>2, <1>11 DEF IInv, LocksExclude
  <2>. QED BY <1>2, <1>6, <2>1 DEF Held, LeaseOn, Leased, Nothing
<1>12. Leases!Acquire(p, g, m)
  BY <1>2, <1>4, <1>6, <1>9, <1>10, <1>11
     DEF Leases!Acquire, Leases!Nothing, Nothing, Held
<1>. QED BY <1>2, <1>12 DEF Leases!Next

\* Some leases of p end, and it has no others than before.
LEMMA ReleaseImplements ==
  ASSUME IInv, NEW p \in Proc, OnlyMoves(p), owner' = owner,
         NEW gs \in SUBSET Gate,
         \A g \in gs : LeaseOn(p, g)' = Nothing,
         \A g \in Gate \ gs : LeaseOn(p, g)' = LeaseOn(p, g)
  PROVE  Leases!Next
<1>1. \A q \in Proc \ {p}, h \in Gate : LeaseOn(q, h)' = LeaseOn(q, h)
  BY HeldByOthers DEF OnlyMoves
<1>2. Held' = [Held EXCEPT ![p] = [g \in Gate |-> IF g \in gs THEN Nothing ELSE @[g]]]
  BY <1>1 DEF Held
<1>3. Leases!Release(p, gs)
  BY <1>2 DEF Leases!Release, Leases!Nothing, Nothing, Held
<1>. QED BY <1>3 DEF Leases!Next

\* While an attempt comes and goes, what p has besides stays as it is.
LEMMA AttemptIsUnseen ==
  ASSUME IInv, NEW p \in Proc, OnlyMoves(p), owner' = owner,
         NEW g \in Gate,
         session[p].gate = g \/ (session[p].gate = None /\ lock[p][g] = "none"),
         session'[p].gate = g \/ (session'[p].gate = None /\ lock'[p][g] = "none"),
         \A h \in Gate \ {g} : lock'[p][h] = lock[p][h],
         session'[p].path = session[p].path \/ Leased(p) = {}
  PROVE  UNCHANGED Leases!vars
<1>1. Leased(p)' = Leased(p)
  BY NoneIsNoGate DEF Leased
<1>2. g \notin Leased(p)
  BY DEF Leased
<1>3. ASSUME NEW h \in Gate
      PROVE  LeaseOn(p, h)' = LeaseOn(p, h)
  <2>1. CASE h \in Leased(p)
    BY <1>1, <1>2, <2>1 DEF LeaseOn
  <2>2. CASE h \notin Leased(p)
    BY <1>1, <2>2 DEF LeaseOn
  <2>. QED BY <2>1, <2>2
<1>. QED BY <1>3, StuttersWhen

LEMMA OpenIsUnseen ==
  ASSUME IInv, NEW p \in Proc, NEW c \in Path, NEW x \in BOOLEAN, Open(p, c, x)
  PROVE  UNCHANGED Leases!vars
<1>1. session'[p].gate = c /\ lock' = lock /\ owner' = owner /\ OnlyMoves(p)
  BY DEF Open, IInv, TypeOK, Closed, OnlyMoves
<1>2. session[p].gate = None /\ Leased(p) = {}
  BY DEF Open, At, IInv, SessionIsOrderly, Closed
<1>3. c \in Gate /\ lock[p][c] = "none"
  BY <1>2, NoneIsNoGate DEF Gate, Leased
<1>. QED BY <1>1, <1>2, <1>3, AttemptIsUnseen

LEMMA BindIsUnseen ==
  ASSUME IInv, NEW p \in Proc, NEW r \in Root, Bind(p, r)
  PROVE  UNCHANGED Leases!vars
<1>1. /\ session'[p].gate = r /\ session'[p].path = session[p].path
      /\ lock' = lock /\ owner' = owner /\ OnlyMoves(p)
  BY DEF Bind, IInv, TypeOK, OnlyMoves
<1>2. session[p].gate = None
  BY DEF Bind, At, IInv, SessionIsOrderly
<1>3. r \in Gate /\ lock[p][r] = "none"
  BY <1>2, NoneIsNoGate DEF Bind, Gate, Leased
<1>. QED BY <1>1, <1>2, <1>3, AttemptIsUnseen

LEMMA StatementsAreUnseen ==
  ASSUME IInv, NEW p \in Proc, Probe(p) \/ BeginCreate(p) \/ Acquire(p)
  PROVE  UNCHANGED Leases!vars
<1> DEFINE g == session[p].gate
<1>1. session[p].pc \in Attempting
  BY DEF Probe, BeginCreate, Acquire, At, Attempting
<1>2. g \in Gate
  BY <1>1, AttemptFacts
<1>3. /\ session'[p].gate = g /\ session'[p].path = session[p].path
      /\ owner' = owner /\ OnlyMoves(p)
  BY DEF Probe, BeginCreate, Acquire, Goto, SetLock, IInv, TypeOK, OnlyMoves
<1>4. \A h \in Gate \ {g} : lock'[p][h] = lock[p][h]
  BY DEF Probe, BeginCreate, Acquire, SetLock, IInv, TypeOK
<1>. QED BY <1>2, <1>3, <1>4, AttemptIsUnseen

LEMMA RefusalIsUnseen ==
  ASSUME IInv, NEW p \in Proc, Busy(p) \/ Mismatch(p)
  PROVE  UNCHANGED Leases!vars
<1> DEFINE g == session[p].gate
<1>1. session[p].pc \in Attempting /\ Refuse(p)
  BY DEF Busy, Mismatch, At, Attempting
<1>2. g \in Gate /\ (g = session[p].path => Leased(p) = {})
  BY <1>1, AttemptFacts
<1>3. /\ session'[p].gate = None /\ lock'[p][g] = "none"
      /\ g = session[p].path \/ session'[p].path = session[p].path
      /\ owner' = owner /\ OnlyMoves(p)
  BY <1>1, <1>2 DEF Refuse, SetLock, Closed, IInv, TypeOK, OnlyMoves
<1>4. \A h \in Gate \ {g} : lock'[p][h] = lock[p][h]
  BY <1>1, <1>2 DEF Refuse, SetLock, IInv, TypeOK
<1>. QED BY <1>2, <1>3, <1>4, AttemptIsUnseen

\* Neither is what a close does besides releasing.
LEMMA ClosingIsUnseen ==
  ASSUME IInv, NEW p \in Proc, StartClose(p) \/ ReleaseFails(p) \/ EndClose(p)
  PROVE  UNCHANGED Leases!vars
<1>1. session[p].gate = None /\ session'[p].gate = None
  BY DEF StartClose, ReleaseFails, EndClose, Goto, At, Closed, IInv, TypeOK, SessionIsOrderly
<1>2. OnlyMoves(p) /\ owner' = owner /\ lock' = lock
  BY DEF StartClose, ReleaseFails, EndClose, Goto, IInv, TypeOK, OnlyMoves
<1>3. Leased(p)' = Leased(p)
  BY <1>1, <1>2 DEF Leased
<1>4. session'[p].path = session[p].path \/ Leased(p) = {}
  <2>1. CASE StartClose(p) \/ ReleaseFails(p)
    BY <2>1 DEF StartClose, ReleaseFails, Goto, IInv, TypeOK
  <2>2. CASE EndClose(p) /\ session[p].stuck = {}
    BY <2>2 DEF EndClose, ToRelease
  <2>3. CASE EndClose(p) /\ session[p].stuck # {}
    BY <2>3 DEF EndClose, IInv, TypeOK
  <2>. QED BY <2>1, <2>2, <2>3
<1>5. ASSUME NEW h \in Gate
      PROVE  LeaseOn(p, h)' = LeaseOn(p, h)
  BY <1>2, <1>3, <1>4 DEF LeaseOn
<1>. QED BY <1>2, <1>5, StuttersWhen

LEMMA ReleaseOneImplements ==
  ASSUME IInv, NEW p \in Proc, ReleaseRoot(p) \/ ReleaseCatalog(p)
  PROVE  Leases!Next
<1>1. PICK g \in Gate : SetLock(p, g, "none")
  BY DEF ReleaseRoot, ReleaseCatalog, ToRelease, Leased
<1>2. OnlyMoves(p) /\ owner' = owner /\ session' = session
  BY <1>1 DEF ReleaseRoot, ReleaseCatalog, SetLock, IInv, TypeOK, OnlyMoves
<1>3. /\ lock'[p][g] = "none"
      /\ \A h \in Gate \ {g} : lock'[p][h] = lock[p][h]
  BY <1>1 DEF SetLock, IInv, TypeOK
<1>4. ASSUME NEW h \in Gate \ {g}
      PROVE  LeaseOn(p, h)' = LeaseOn(p, h)
  BY <1>2, <1>3 DEF LeaseOn, Leased
<1>5. \A h \in {g} : LeaseOn(p, h)' = Nothing
  <2> SUFFICES ASSUME NEW h \in {g} PROVE LeaseOn(p, h)' = Nothing
    OBVIOUS
  <2>. QED BY <1>3 DEF LeaseOn, Leased, Nothing
<1>6. {g} \in SUBSET Gate
  OBVIOUS
<1>. QED BY <1>2, <1>4, <1>5, <1>6, ReleaseImplements

LEMMA CrashImplements ==
  ASSUME IInv, NEW p \in Proc, Crash(p)
  PROVE  Leases!Next
<1>1. OnlyMoves(p) /\ owner' = owner
  BY DEF Crash, IInv, TypeOK, OnlyMoves
<1>2. \A g \in Gate : LeaseOn(p, g)' = Nothing
  BY DEF Crash, IInv, TypeOK, LeaseOn, Leased, Nothing
<1>. QED BY <1>1, <1>2, ReleaseImplements

LEMMA StepImplements ==
  IInv /\ [Next]_vars => [Leases!Next]_(Leases!vars)
<1> SUFFICES ASSUME IInv, [Next]_vars
             PROVE  Leases!Next \/ UNCHANGED Leases!vars
  OBVIOUS
<1>1. CASE UNCHANGED vars
  BY <1>1 DEF vars, Leases!vars, LeaseOn, Leased
<1>2. ASSUME NEW p \in Proc, \E c \in Path, x \in BOOLEAN : Open(p, c, x)
      PROVE  UNCHANGED Leases!vars
  BY <1>2, OpenIsUnseen
<1>3. ASSUME NEW p \in Proc, \E r \in Root : Bind(p, r)
      PROVE  UNCHANGED Leases!vars
  BY <1>3, BindIsUnseen
<1>4. ASSUME NEW p \in Proc,
             \/ Probe(p) \/ BeginCreate(p) \/ Acquire(p) \/ Busy(p) \/ Mismatch(p)
             \/ StartClose(p) \/ ReleaseFails(p) \/ EndClose(p)
      PROVE  UNCHANGED Leases!vars
  BY <1>4, StatementsAreUnseen, RefusalIsUnseen, ClosingIsUnseen
<1>5. ASSUME NEW p \in Proc,
             \/ Create(p) \/ Check(p) \/ ReleaseRoot(p) \/ ReleaseCatalog(p) \/ Crash(p)
      PROVE  Leases!Next \/ UNCHANGED Leases!vars
  BY <1>5, CreateImplements, CheckImplements, ReleaseOneImplements, CrashImplements
<1>. QED BY <1>1, <1>2, <1>3, <1>4, <1>5 DEF Next

----------------------------------------------------------------------------
(* The theorems.                                                           *)

\* The invariant holds for any processes, catalogs and roots (Lease.__init__,
\* Catalog.__init__, bind_storage, _close).
THEOREM InvariantHolds == Spec => []IInv
BY InitEstablishesIInv, StepPreservesIInv, PTL DEF Spec

\* Who may maintain a root is alone with it and with its catalog
\* (Catalog.require_maintenance).
THEOREM MaintainersAreAlone == Spec => []MaintenanceIsAlone
<1>1. IInv => MaintenanceIsAlone
  <2> SUFFICES ASSUME IInv, NEW p \in Proc, NEW q \in Proc, NEW r \in Root,
                      Maintaining(p, r), q # p
               PROVE  /\ ~ (At(q, "open") /\ session[q].path = session[p].path)
                      /\ r \notin Leased(q)
    BY DEF MaintenanceIsAlone
  <2>1. lock[p][r] = "exclusive" /\ r \in Gate
    BY LeasedHavePath DEF Maintaining, Mode
  <2>2. r \notin Leased(q)
    BY <2>1 DEF IInv, LocksExclude, Leased
  <2>3. session[p].path \in Leased(p)
    BY DEF Maintaining, At, IInv, SessionIsOrderly
  <2>4. lock[p][session[p].path] = "exclusive" /\ session[p].path \in Gate
    BY <2>3, LeasedHavePath DEF Maintaining, Mode
  <2>5. At(q, "open") => session[q].path \in Leased(q)
    BY DEF At, IInv, SessionIsOrderly
  <2>. QED BY <2>2, <2>4, <2>5 DEF IInv, LocksExclude, Leased
<1>. QED BY <1>1, InvariantHolds, PTL

\* A session holds its catalog's gate until all else is released, and nobody
\* without a session holds anything but what failed to close (Catalog._close).
THEOREM SessionsHaveLeases == Spec => []SessionsAreLeased
<1>1. IInv => SessionsAreLeased
  <2> SUFFICES ASSUME IInv, NEW p \in Proc
               PROVE  /\ At(p, "open") \/ (At(p, "closing") /\ ToRelease(p) # {}) =>
                           lock[p][session[p].path] = Mode(p)
                      /\ At(p, "closed") => \A g \in Gate : lock[p][g] = "none"
                      /\ At(p, "leaking") => Leased(p) \subseteq session[p].stuck
    BY DEF SessionsAreLeased, Mode
  <2>1. At(p, "open") \/ (At(p, "closing") /\ ToRelease(p) # {}) =>
          session[p].path \in Leased(p)
    BY DEF IInv, SessionIsOrderly, At, ToRelease
  <2>2. At(p, "closed") => \A g \in Gate : lock[p][g] = "none"
    BY NoneIsNoGate DEF IInv, SessionIsOrderly, At, Leased, Closed
  <2>3. At(p, "leaking") => Leased(p) \subseteq session[p].stuck
    BY DEF IInv, SessionIsOrderly, At, ToRelease
  <2>. QED BY <2>1, <2>2, <2>3, LeasedHavePath
<1>. QED BY <1>1, InvariantHolds, PTL

\* However many catalogs race for a fresh root, one gets it (Lease.__init__).
THEOREM RootHasOneCatalog == Spec => []OneCatalogPerRoot
<1>1. IInv => OneCatalogPerRoot
  <2> SUFFICES ASSUME IInv, NEW p \in Proc, NEW q \in Proc, NEW r \in Root,
                      r \in Leased(p), r \in Leased(q)
               PROVE  session[p].path = session[q].path
    BY DEF OneCatalogPerRoot
  <2>1. owner[r] = session[p].path /\ owner[r] = session[q].path
    BY LeasedHavePath
  <2>. QED BY <2>1
<1>. QED BY <1>1, InvariantHolds, PTL

\* The statements of leases implement atomic leases, on which BlobLifecycle relies.
THEOREM LeasesAreAtomic == Spec => GatesAreLeases
<1>1. Spec => Leases!Init
  BY InitImplements DEF Spec
<1>. QED BY <1>1, InvariantHolds, StepImplements, PTL DEF Spec, GatesAreLeases, Leases!Spec

----------------------------------------------------------------------------
(* What atomic leases are good for, whoever implements them.               *)

VARIABLE taken

Atomic == INSTANCE SharedLease WITH held <- taken

\* Atomic leases keep a gate to one catalog and exclusive holders alone, which is
\* all that maintenance and a root's catalog ask of access.open_gate.
THEOREM AtomicLeasesExclude == Atomic!Spec => []Atomic!LeasesExclude
<1> USE DEF Atomic!LeasesExclude, Atomic!Lease, Atomic!Nothing
<1>1. Atomic!Init => Atomic!LeasesExclude
  BY DEF Atomic!Init
<1>2. ASSUME Atomic!LeasesExclude, [Atomic!Next]_(Atomic!vars)
      PROVE  Atomic!LeasesExclude'
  <2>1. ASSUME NEW g \in Gate, NEW c \in Path, Atomic!Claim(g, c)
        PROVE  Atomic!LeasesExclude'
    BY <1>2, <2>1 DEF Atomic!Claim
  <2>2. ASSUME NEW p \in Proc, NEW g \in Gate, NEW m \in {"shared", "exclusive"},
               Atomic!Acquire(p, g, m)
        PROVE  Atomic!LeasesExclude'
    BY <1>2, <2>2 DEF Atomic!Acquire
  <2>3. ASSUME NEW p \in Proc, NEW gs \in SUBSET Gate, Atomic!Release(p, gs)
        PROVE  Atomic!LeasesExclude'
    BY <1>2, <2>3 DEF Atomic!Release
  <2>4. CASE UNCHANGED Atomic!vars
    BY <1>2, <2>4 DEF Atomic!vars
  <2>. QED BY <1>2, <2>1, <2>2, <2>3, <2>4 DEF Atomic!Next
<1>. QED BY <1>1, <1>2, PTL DEF Atomic!Spec
=============================================================================
