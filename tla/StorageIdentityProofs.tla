----------------------- MODULE StorageIdentityProofs ------------------------
(***************************************************************************)
(* The invariant IInv of StorageIdentity is inductive, for any processes,  *)
(* places and directories; OneIdentity and OwnersAreRecorded follow.       *)
(***************************************************************************)
EXTENDS StorageIdentity, TLAPS

\* Markers are only ever written where there are none.
Grows ==
  /\ foreign' = foreign
  /\ \A r \in Root : root[r] # None => root'[r] = root[r]
  /\ \A d \in Dir : local[d] # None => local'[d] = local[d]
  /\ \A l \in Prefix : remote[l] # None => remote'[l] = remote[l]

LEMMA RecordedStays ==
  ASSUME IInv, Grows, NEW m \in Local, Recorded(m)
  PROVE  Recorded(m)'
BY IdentityAssumption DEF IInv, TypeOK, Grows, Recorded, Local

\* What a process knows stays true while it takes no step.
LEMMA OthersStayOrderly ==
  ASSUME IInv, Grows, NEW p \in Proc, call'[p] = call[p]
  PROVE  CallIsOrderly(p)'
<1> DEFINE c == call[p]
<1>1. CallIsOrderly(p)
  BY DEF IInv
<1>2. c.pc = "reading" => c.at \in Root /\ root'[c.at] # None /\ c.dir = None
  BY <1>1 DEF CallIsOrderly, Grows
<1>3. ASSUME c.pc \in {"marked", "sent"}
      PROVE  c.id \in Id /\ Recorded(Marker(p, c.id))'
  <2>1. /\ c.id \in Id /\ c.at \in Prefix /\ c.dir \in Dir
        /\ Recorded(Marker(p, c.id))
    BY <1>1, <1>3 DEF CallIsOrderly
  <2>2. Marker(p, c.id) \in Local
    BY <2>1 DEF Marker, Local
  <2>3. Marker(p, c.id)' = Marker(p, c.id)
    BY DEF Marker
  <2>4. Recorded(Marker(p, c.id))'
    BY <2>1, <2>2, RecordedStays, <2>3 DEF Recorded, Grows, IInv, TypeOK, Local, Marker
  <2>. QED BY <2>1, <2>4
<1>4. ASSUME c.pc = "open"
      PROVE  \/ /\ c.at \in Root /\ root'[c.at] # None
                /\ c.id = root'[c.at] /\ c.dir = None
             \/ /\ c.at \in Prefix /\ c.dir \in Dir /\ c.id \in Id
                /\ remote'[c.at] = [id |-> c.id, by |-> c.dir]
  <2>1. CASE /\ c.at \in Root /\ root[c.at] # None
             /\ c.id = root[c.at] /\ c.dir = None
    BY <2>1, <1>4 DEF Grows
  <2>2. CASE /\ c.at \in Prefix /\ c.dir \in Dir /\ c.id \in Id
             /\ remote[c.at] = [id |-> c.id, by |-> c.dir]
    <3>1. remote[c.at] # None
      BY <2>2, IdentityAssumption DEF Remote
    <3>. QED BY <3>1, <2>2 DEF Grows
  <2>. QED BY <1>1, <1>4, <2>1, <2>2 DEF CallIsOrderly
<1>. QED
  BY <1>1, <1>2, <1>3, <1>4 DEF CallIsOrderly, Grows

\* A step of p keeps the invariant if its own part is in order and it sends
\* nothing to S3 that is not recorded.
LEMMA StepOfOne ==
  ASSUME IInv, Grows, TypeOK', remote' = remote,
         NEW p \in Proc, \A q \in Proc \ {p} : call'[q] = call[q],
         \A m \in flying' : m \in flying \/ Recorded(m)',
         CallIsOrderly(p)'
  PROVE  IInv'
<1>1. ASSUME NEW m \in flying' PROVE Recorded(m)'
  <2>1. CASE m \in flying
    BY <2>1, RecordedStays DEF IInv, TypeOK
  <2>. QED BY <2>1
<1>2. OwnersAreRecorded'
  <2> SUFFICES ASSUME NEW l \in Prefix, remote[l] # None
               PROVE  /\ local'[remote[l].by] = [at |-> l, id |-> remote[l].id, by |-> remote[l].by]
                      /\ l \notin foreign'
    BY DEF OwnersAreRecorded
  <2>1. /\ local[remote[l].by] = [at |-> l, id |-> remote[l].id, by |-> remote[l].by]
        /\ l \notin foreign
    BY DEF IInv, OwnersAreRecorded
  <2>2. remote[l] \in Remote
    BY DEF IInv, TypeOK
  <2>3. remote[l].by \in Dir /\ local[remote[l].by] \in Local
    BY <2>1, <2>2 DEF Remote, Local
  <2>. QED BY <2>1, <2>3, IdentityAssumption DEF Grows
<1>3. ASSUME NEW q \in Proc PROVE CallIsOrderly(q)'
  <2>1. CASE q = p
    BY <2>1
  <2>2. CASE q # p
    BY <2>2, OthersStayOrderly
  <2>. QED BY <2>1, <2>2
<1>. QED BY <1>1, <1>2, <1>3 DEF IInv

----------------------------------------------------------------------------
(* One lemma per action.                                                    *)

LEMMA PutLocalKeeps ==
  ASSUME IInv, NEW p \in Proc, NEW r \in Root, PutLocal(p, r)
  PROVE  IInv'
<1>1. root' \in [Root -> Id \cup {None}] /\ root'[r] # None
  BY IdentityAssumption DEF IInv, TypeOK, PutLocal, NewIds
<1>2. Grows
  BY DEF IInv, TypeOK, PutLocal, Grows
<1>3. TypeOK'
  BY <1>1 DEF IInv, TypeOK, PutLocal, Idle, Pc, Place
<1>4. CallIsOrderly(p)'
  BY <1>1 DEF IInv, TypeOK, PutLocal, Idle, CallIsOrderly
<1>. QED BY <1>2, <1>3, <1>4, StepOfOne DEF PutLocal, IInv, TypeOK

\* What TypeOK says of one call.
Call == [pc : Pc, at : Place \cup {None}, dir : Dir \cup {None}, id : Id \cup {None}]

LEMMA OneCallChanges ==
  ASSUME TypeOK, NEW p \in Proc, NEW s \in Call, call' = [call EXCEPT ![p] = s]
  PROVE  call' \in [Proc -> Call]
BY DEF TypeOK, Call

LEMMA ReadLocalKeeps ==
  ASSUME IInv, NEW p \in Proc, ReadLocal(p)
  PROVE  IInv'
<1>1. call[p].at \in Root /\ root[call[p].at] # None /\ call[p].dir = None
  BY DEF IInv, CallIsOrderly, ReadLocal, At
<1>2. Grows
  BY DEF ReadLocal, Grows
<1>3. TypeOK'
  <2>1. root[call[p].at] \in Id \cup {None}
    BY <1>1 DEF IInv, TypeOK
  <2> DEFINE s == [call[p] EXCEPT !.pc = "open", !.id = root[call[p].at]]
  <2>2. call' = [call EXCEPT ![p] = s]
    BY DEF ReadLocal
  <2>3. TypeOK /\ s \in Call
    <3>1. TypeOK /\ "open" \in Pc
      BY DEF IInv, Pc
    <3>. QED BY <2>1, <3>1 DEF TypeOK, Call
  <2>4. call' \in [Proc -> Call]
    BY <2>2, <2>3, OneCallChanges
  <2>. QED BY <2>3, <2>4 DEF TypeOK, ReadLocal, Call
<1>4. CallIsOrderly(p)'
  BY <1>1 DEF IInv, TypeOK, ReadLocal, CallIsOrderly
<1>. QED BY <1>2, <1>3, <1>4, StepOfOne DEF ReadLocal, IInv, TypeOK

LEMMA StartKeeps ==
  ASSUME IInv, NEW p \in Proc, NEW l \in Prefix, NEW d \in Dir, NEW fresh \in BOOLEAN,
         Start(p, l, d, fresh)
  PROVE  IInv'
<1>1. Grows
  BY DEF Start, Grows
<1>2. TypeOK'
  BY IdentityAssumption DEF IInv, TypeOK, Start, Pc, Place
<1>3. CallIsOrderly(p)'
  BY DEF IInv, TypeOK, Start, CallIsOrderly
<1>. QED BY <1>1, <1>2, <1>3, StepOfOne DEF Start, IInv, TypeOK

LEMMA TakeGateKeeps ==
  ASSUME IInv, NEW p \in Proc, TakeGate(p)
  PROVE  IInv'
<1>1. call[p].at \in Prefix /\ call[p].dir \in Dir
  BY DEF IInv, CallIsOrderly, TakeGate, At
<1>2. Grows
  BY DEF TakeGate, Grows
<1>3. TypeOK'
  <2> DEFINE s == [call[p] EXCEPT !.pc = "gated"]
  <2>1. TypeOK /\ s \in Call
    BY DEF IInv, TypeOK, Call, Pc
  <2>2. call' = [call EXCEPT ![p] = s]
    BY DEF TakeGate
  <2>3. call' \in [Proc -> Call]
    BY <2>1, <2>2, OneCallChanges
  <2>. QED BY <1>1, <2>1, <2>3 DEF TakeGate, TypeOK, Call
<1>4. CallIsOrderly(p)'
  BY <1>1 DEF IInv, TypeOK, TakeGate, CallIsOrderly
<1>. QED BY <1>2, <1>3, <1>4, StepOfOne DEF TakeGate, IInv, TypeOK

LEMMA FindMarkerKeeps ==
  ASSUME IInv, NEW p \in Proc, FindMarker(p)
  PROVE  IInv'
<1>1. /\ call[p].at \in Prefix /\ call[p].dir \in Dir
      /\ local[call[p].dir].id \in Id
  BY DEF IInv, CallIsOrderly, FindMarker, At, Local
<1>2. Grows
  BY DEF FindMarker, Grows
<1>3. TypeOK'
  <2> DEFINE s == [call[p] EXCEPT !.pc = "checking", !.id = local[call[p].dir].id]
  <2>0. TypeOK
    BY DEF IInv
  <2>1. s \in Call
    <3>1. call[p] \in Call
      BY <2>0 DEF TypeOK, Call
    <3>. QED BY <1>1, <3>1 DEF Call, Pc
  <2>2. call' = [call EXCEPT ![p] = s]
    BY DEF FindMarker
  <2>3. call' \in [Proc -> Call]
    BY <2>0, <2>1, <2>2, OneCallChanges
  <2>. QED BY <2>0, <2>3 DEF FindMarker, TypeOK, Call
<1>4. CallIsOrderly(p)'
  BY <1>1 DEF IInv, TypeOK, FindMarker, CallIsOrderly
<1>. QED BY <1>2, <1>3, <1>4, StepOfOne DEF FindMarker, IInv, TypeOK

\* The constructor has seen its own marker at the prefix.
LEMMA OpensKeeps ==
  ASSUME IInv, NEW p \in Proc, Opens(p),
         call[p].at \in Prefix, call[p].dir \in Dir, call[p].id \in Id,
         remote[call[p].at] = [id |-> call[p].id, by |-> call[p].dir],
         UNCHANGED <<root, made, local, remote, flying, foreign>>
  PROVE  IInv'
<1>1. Grows
  BY DEF Grows
<1>2. TypeOK'
  BY DEF IInv, TypeOK, Opens, Pc
<1>3. CallIsOrderly(p)'
  BY DEF IInv, TypeOK, Opens, CallIsOrderly
<1>. QED BY <1>1, <1>2, <1>3, StepOfOne DEF Opens, IInv, TypeOK

LEMMA CheckRemoteKeeps ==
  ASSUME IInv, NEW p \in Proc, CheckRemote(p)
  PROVE  IInv'
<1>1. call[p].at \in Prefix /\ call[p].dir \in Dir /\ call[p].id \in Id
  BY DEF IInv, CallIsOrderly, CheckRemote, At
<1>. QED BY <1>1, OpensKeeps DEF CheckRemote

LEMMA PutReturnsKeeps ==
  ASSUME IInv, NEW p \in Proc, PutReturns(p)
  PROVE  IInv'
<1>1. call[p].at \in Prefix /\ call[p].dir \in Dir /\ call[p].id \in Id
  BY DEF IInv, CallIsOrderly, PutReturns, At
<1>. QED BY <1>1, OpensKeeps DEF PutReturns

LEMMA ListEmptyKeeps ==
  ASSUME IInv, NEW p \in Proc, ListEmpty(p)
  PROVE  IInv'
<1>1. call[p].at \in Prefix /\ call[p].dir \in Dir
  BY DEF IInv, CallIsOrderly, ListEmpty, At
<1>2. Grows
  BY DEF ListEmpty, Grows
<1>3. TypeOK'
  BY <1>1 DEF IInv, TypeOK, ListEmpty, Pc
<1>4. CallIsOrderly(p)'
  BY <1>1 DEF IInv, TypeOK, ListEmpty, CallIsOrderly
<1>. QED BY <1>2, <1>3, <1>4, StepOfOne DEF ListEmpty, IInv, TypeOK

LEMMA WriteLocalKeeps ==
  ASSUME IInv, NEW p \in Proc, WriteLocal(p)
  PROVE  IInv'
<1>1. /\ call[p].at \in Prefix /\ call[p].dir \in Dir
      /\ call[p].at \notin foreign /\ local[call[p].dir] = None
  BY DEF IInv, CallIsOrderly, WriteLocal, At
<1>2. PICK i \in IdsFor(p) :
        /\ local' = [local EXCEPT ![call[p].dir] = Marker(p, i)]
        /\ call' = [call EXCEPT ![p].pc = "marked", ![p].id = i]
  BY DEF WriteLocal
<1>3. i \in Id
  BY DEF IdsFor, NewIds, IInv, TypeOK
<1>4. Marker(p, i) \in Local
  BY <1>1, <1>3 DEF Marker, Local
<1>5. Grows
  BY <1>1, <1>2 DEF WriteLocal, Grows, IInv, TypeOK
<1>6. TypeOK'
  <2>1. local' \in [Dir -> Local \cup {None, Torn}]
    BY <1>2, <1>4 DEF IInv, TypeOK
  <2>2. call'[p] = [call[p] EXCEPT !.pc = "marked", !.id = i]
    BY <1>2 DEF IInv, TypeOK
  <2>3. call'[p] \in [pc : Pc, at : Place \cup {None}, dir : Dir \cup {None},
                     id : Id \cup {None}]
    BY <1>3, <2>2 DEF IInv, TypeOK, Pc
  <2>. QED BY <1>2, <2>1, <2>3 DEF IInv, TypeOK, WriteLocal
<1>7. CallIsOrderly(p)'
  BY <1>1, <1>2, <1>3 DEF IInv, TypeOK, WriteLocal, CallIsOrderly, Recorded, Marker
<1>. QED BY <1>2, <1>5, <1>6, <1>7, StepOfOne DEF WriteLocal, IInv, TypeOK

LEMMA SendRemoteKeeps ==
  ASSUME IInv, NEW p \in Proc, SendRemote(p)
  PROVE  IInv'
<1>1. /\ call[p].at \in Prefix /\ call[p].dir \in Dir /\ call[p].id \in Id
      /\ Recorded(Marker(p, call[p].id))
  BY DEF IInv, CallIsOrderly, SendRemote, At
<1>2. Marker(p, call[p].id) \in Local
  BY <1>1 DEF Marker, Local
<1>3. Grows
  BY DEF SendRemote, Grows
<1>4. TypeOK'
  BY <1>2 DEF IInv, TypeOK, SendRemote, Pc
<1>5. Recorded(Marker(p, call[p].id))'
  BY <1>1 DEF SendRemote, Recorded, Marker, IInv, TypeOK
<1>6. CallIsOrderly(p)'
  BY <1>1 DEF IInv, TypeOK, SendRemote, CallIsOrderly, Recorded, Marker
<1>7. ASSUME NEW m \in flying' PROVE m \in flying \/ Recorded(m)'
  BY <1>1 DEF SendRemote, Recorded
<1>. QED BY <1>3, <1>4, <1>6, <1>7, StepOfOne DEF SendRemote, IInv, TypeOK

LEMMA LeaveKeeps ==
  ASSUME IInv, NEW p \in Proc, Leave(p)
  PROVE  IInv'
<1>1. Grows
  BY DEF Leave, Grows, IInv, TypeOK
<1>2. TypeOK'
  BY DEF IInv, TypeOK, Leave, Pc, Idle
<1>3. CallIsOrderly(p)'
  BY DEF IInv, TypeOK, Leave, CallIsOrderly, Idle
<1>. QED BY <1>1, <1>2, <1>3, StepOfOne DEF Leave, IInv, TypeOK

\* Whoever sent it, the put says what its directory says.
LEMMA LandKeeps ==
  ASSUME IInv, NEW m \in flying, Land(m)
  PROVE  IInv'
<1>1. m \in Local /\ Recorded(m)
  BY DEF IInv, TypeOK
<1>2. Grows
  BY <1>1 DEF Land, Grows, IInv, TypeOK, Local
<1>3. TypeOK'
  BY <1>1 DEF IInv, TypeOK, Land, Local, Remote
<1>4. \A n \in flying' : Recorded(n)'
  BY DEF IInv, Land, Recorded
<1>5. OwnersAreRecorded'
  <2> SUFFICES ASSUME NEW l \in Prefix, remote'[l] # None
               PROVE  /\ local[remote'[l].by] = [at |-> l, id |-> remote'[l].id, by |-> remote'[l].by]
                      /\ l \notin foreign
    BY DEF OwnersAreRecorded, Land
  <2>1. CASE remote[l] # None
    BY <2>1 DEF Land, IInv, OwnersAreRecorded, TypeOK
  <2>2. CASE remote[l] = None
    <3>1. l = m.at /\ remote'[l] = [id |-> m.id, by |-> m.by]
      BY <2>2 DEF Land, IInv, TypeOK
    <3>. QED BY <3>1, <1>1 DEF Recorded, Local
  <2>. QED BY <2>1, <2>2
<1>6. ASSUME NEW p \in Proc PROVE CallIsOrderly(p)'
  BY <1>2, OthersStayOrderly DEF Land
<1>. QED BY <1>3, <1>4, <1>5, <1>6 DEF IInv

\* A copy names the directory it was made for, so no put repeats it.
LEMMA CopyMarkerKeeps ==
  ASSUME IInv, NEW d \in Dir, NEW e \in Dir, CopyMarker(d, e)
  PROVE  IInv'
<1>1. Grows
  BY DEF CopyMarker, Grows, IInv, TypeOK
<1>2. TypeOK'
  BY DEF CopyMarker, IInv, TypeOK
<1>3. ASSUME NEW m \in flying PROVE Recorded(m)'
  BY <1>1, RecordedStays DEF IInv, TypeOK
<1>4. OwnersAreRecorded'
  <2> SUFFICES ASSUME NEW l \in Prefix, remote[l] # None
               PROVE  /\ local'[remote[l].by] = [at |-> l, id |-> remote[l].id, by |-> remote[l].by]
                      /\ l \notin foreign
    BY DEF OwnersAreRecorded, CopyMarker
  <2>1. /\ local[remote[l].by] = [at |-> l, id |-> remote[l].id, by |-> remote[l].by]
        /\ l \notin foreign
    BY DEF IInv, OwnersAreRecorded
  <2>2. remote[l] \in Remote
    BY DEF IInv, TypeOK
  <2>3. remote[l].by \in Dir /\ local[remote[l].by] \in Local
    BY <2>1, <2>2 DEF Remote, Local
  <2>. QED BY <1>1, <2>1, <2>3, IdentityAssumption DEF Grows
<1>5. ASSUME NEW p \in Proc PROVE CallIsOrderly(p)'
  BY <1>1, OthersStayOrderly DEF CopyMarker
<1>. QED BY <1>2, <1>3, <1>4, <1>5 DEF IInv, CopyMarker

----------------------------------------------------------------------------
LEMMA InitGivesIInv == Init => IInv
<1> SUFFICES ASSUME Init PROVE IInv
  OBVIOUS
<1>1. TypeOK
  BY DEF Init, TypeOK, Idle, Pc
<1>2. OwnersAreRecorded
  BY DEF Init, OwnersAreRecorded
<1>3. ASSUME NEW p \in Proc PROVE CallIsOrderly(p)
  BY DEF Init, CallIsOrderly, Idle
<1>. QED BY <1>1, <1>2, <1>3 DEF Init, IInv

LEMMA StutterKeeps == IInv /\ UNCHANGED vars => IInv'
<1> SUFFICES ASSUME IInv, UNCHANGED vars PROVE IInv'
  OBVIOUS
<1>1. TypeOK' /\ OwnersAreRecorded'
  BY DEF IInv, vars, TypeOK, OwnersAreRecorded
<1>2. ASSUME NEW m \in flying' PROVE Recorded(m)'
  BY DEF IInv, vars, Recorded
<1>3. ASSUME NEW p \in Proc PROVE CallIsOrderly(p)'
  BY OthersStayOrderly DEF vars, Grows
<1>. QED BY <1>1, <1>2, <1>3 DEF IInv

LEMMA NextKeepsIInv == IInv /\ [Next]_vars => IInv'
<1> SUFFICES ASSUME IInv, [Next]_vars PROVE IInv'
  OBVIOUS
<1>1. CASE UNCHANGED vars
  BY <1>1, StutterKeeps
<1>2. CASE \E p \in Proc, r \in Root : PutLocal(p, r)
  BY <1>2, PutLocalKeeps
<1>3. CASE \E p \in Proc, l \in Prefix, d \in Dir, fresh \in BOOLEAN : Start(p, l, d, fresh)
  BY <1>3, StartKeeps
<1>4. CASE \E p \in Proc : ReadLocal(p) \/ TakeGate(p) \/ FindMarker(p) \/ CheckRemote(p)
  BY <1>4, ReadLocalKeeps, TakeGateKeeps, FindMarkerKeeps, CheckRemoteKeeps
<1>5. CASE \E p \in Proc : \/ ListEmpty(p) \/ WriteLocal(p) \/ SendRemote(p)
                          \/ PutReturns(p) \/ Leave(p)
  BY <1>5, ListEmptyKeeps, WriteLocalKeeps, SendRemoteKeeps, PutReturnsKeeps, LeaveKeeps
<1>6. CASE \E m \in flying : Land(m)
  BY <1>6, LandKeeps
<1>7. CASE \E d, e \in Dir : CopyMarker(d, e)
  BY <1>7, CopyMarkerKeeps
<1>. QED BY <1>1, <1>2, <1>3, <1>4, <1>5, <1>6, <1>7 DEF Next

\* In every reachable state of every instance (S3Storage.__init__ and
\* LocalStorage.__init__), calls know what they have seen and every put on its
\* way to S3 repeats a marker that is on disk.
THEOREM InvariantHolds == Spec => []IInv
BY InitGivesIInv, NextKeepsIInv, PTL DEF Spec

\* Whoever has a storage open at a place knows it by one id and, on S3, under
\* one coordination directory, however many processes initialize it at once and
\* whenever their puts arrive.
THEOREM IdentityIsOne == Spec => []OneIdentity
<1>1. IInv => OneIdentity
  <2> SUFFICES ASSUME IInv, NEW p \in Proc, NEW q \in Proc, At(p, "open"), At(q, "open"),
                      call[p].at = call[q].at
               PROVE  call[p].id = call[q].id /\ call[p].dir = call[q].dir
    BY DEF OneIdentity
  <2>1. CallIsOrderly(p) /\ CallIsOrderly(q)
    BY DEF IInv
  <2>2. CASE call[p].at \in Root
    BY <2>1, <2>2, IdentityAssumption DEF CallIsOrderly, At
  <2>3. CASE call[p].at \in Prefix
    <3>1. /\ remote[call[p].at] = [id |-> call[p].id, by |-> call[p].dir]
          /\ remote[call[p].at] = [id |-> call[q].id, by |-> call[q].dir]
      BY <2>1, <2>3, IdentityAssumption DEF CallIsOrderly, At
    <3>. QED BY <3>1
  <2>. QED BY <2>1, <2>2, <2>3 DEF CallIsOrderly, At
<1>. QED BY <1>1, InvariantHolds, PTL

\* The owner a prefix names has the marker that says so, hence can always open
\* it again; and no prefix with foreign objects gets an owner.
THEOREM OwnerIsRecorded == Spec => []OwnersAreRecorded
<1>1. IInv => OwnersAreRecorded
  BY DEF IInv
<1>. QED BY <1>1, InvariantHolds, PTL
=============================================================================
