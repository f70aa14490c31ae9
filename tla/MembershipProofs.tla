-------------------------- MODULE MembershipProofs --------------------------
(***************************************************************************)
(* Proofs about Membership, for any nodes, profiles, lease lengths and     *)
(* bounds.  Each operation on the storage is first shown to keep it well   *)
(* typed and to keep the leases of usable nodes current; the steps follow. *)
(***************************************************************************)
EXTENDS Membership, TLAPS

\* The state machine leads from lifecycle states to lifecycle states.
LEMMA NextStateType ==
  ASSUME NEW s \in NodeStates, NEW e
  PROVE  NextState(s, e) \in NodeStates
  BY DEF NextState, NodeStates, Participates

\* A node that joins is usable: it enters one of the planning states.
LEMMA InitialStateType ==
  ASSUME NEW p
  PROVE  InitialState(p) \in NodeStates /\ Participates(InitialState(p))
  BY DEF InitialState, NodeStates, Participates

\* A rejoining node enters the state a new node with its profile would.
LEMMA RejoinState ==
  ASSUME NEW p
  PROVE  NextState("suspended", JoinEvent(p)) = InitialState(p)
  BY DEF NextState, JoinEvent, InitialState, Participates

\* issueLease returns a lease, of the epoch it was asked for.
LEMMA IssueLeaseType ==
  ASSUME NEW p \in Profile, NEW s \in NodeStates, NEW e \in Nat
  PROVE  /\ IssueLease(p, s, e) \in Lease
         /\ IssueLease(p, s, e).epoch = e
  BY MembershipAssumption
  DEF IssueLease, Lease, Lesser, Profile, CanHostRequired, MembershipAssumption

\* The record of a node that joins is a member record.
LEMMA JoinedType ==
  ASSUME NEW p \in Profile, NEW s \in NodeStates, NEW e \in Nat
  PROVE  Joined(p, s, e) \in MemberRecord
  BY MembershipAssumption, IssueLeaseType
  DEF Joined, MemberRecord, MembershipAssumption

\* Storing a record changes that node's entry and no other.
LEMMA PutType ==
  ASSUME NEW st, IsStorage(st), NEW n \in Nodes, NEW r \in MemberRecord
  PROVE  /\ IsStorage(Put(st, n, r))
         /\ DOMAIN Put(st, n, r) = DOMAIN st \cup {n}
         /\ Put(st, n, r)[n] = r
         /\ \A m \in DOMAIN st \ {n} : Put(st, n, r)[m] = st[m]
  BY DEF Put, IsStorage

-----------------------------------------------------------------------------
(* Every operation keeps the storage well typed.                           *)

\* nodeAppeared keeps the storage well typed.
LEMMA AppearedType ==
  ASSUME NEW st, IsStorage(st), NEW n \in Nodes, NEW p \in Profile,
         NEW e \in Nat
  PROVE  IsStorage(Appeared(st, n, p, e))
<1>1. CASE n \notin DOMAIN st
  BY <1>1, InitialStateType, JoinedType, PutType DEF Appeared
<1>2. CASE n \in DOMAIN st /\ st[n].state = "suspended"
  <2>1. Appeared(st, n, p, e) = Put(st, n, Joined(p, InitialState(p), e))
    <3>1. Appeared(st, n, p, e)
            = Put(st, n, Joined(p, NextState(st[n].state, JoinEvent(p)), e))
      BY <1>2 DEF Appeared
    <3>2. NextState(st[n].state, JoinEvent(p)) = InitialState(p)
      BY <1>2, RejoinState
    <3>3. QED
      BY <3>1, <3>2
  <2>2. Joined(p, InitialState(p), e) \in MemberRecord
    BY InitialStateType, JoinedType
  <2>3. IsStorage(Put(st, n, Joined(p, InitialState(p), e)))
    BY <2>2, PutType
  <2>4. QED
    BY <2>1, <2>3
<1>3. CASE n \in DOMAIN st /\ st[n].state # "suspended"
  <2>1. st[n] \in MemberRecord /\ 0 \in 0..MissLimit
    BY <1>3, MembershipAssumption DEF IsStorage, MembershipAssumption
  <2>2. [st[n] EXCEPT !.profile = p, !.missed = 0] \in MemberRecord
    BY <2>1 DEF MemberRecord
  <2>3. QED
    BY <1>3, <2>2, PutType DEF Appeared
<1>4. QED
  BY <1>1, <1>2, <1>3

\* heartbeatSucceeded keeps the storage well typed.
LEMMA HeardType ==
  ASSUME NEW st, IsStorage(st), NEW n \in Nodes, NEW e \in Nat
  PROVE  IsStorage(Heard(st, n, e))
<1>1. CASE n \in DOMAIN st
  <2>1. st[n] \in MemberRecord
    BY <1>1 DEF IsStorage
  <2> DEFINE lease == IF Participates(st[n].state)
                        THEN IssueLease(st[n].profile, st[n].state, e)
                        ELSE st[n].lease
  <2>2. lease \in Lease /\ 0 \in 0..MissLimit
    BY <2>1, IssueLeaseType, MembershipAssumption
    DEF MemberRecord, MembershipAssumption
  <2> HIDE DEF lease
  <2>3. [st[n] EXCEPT !.missed = 0, !.lease = lease] \in MemberRecord
    BY <2>1, <2>2 DEF MemberRecord
  <2>4. QED
    BY <1>1, <2>3, PutType DEF Heard, lease
<1>2. QED
  BY <1>1 DEF Heard

\* heartbeatFailed keeps the storage well typed.
LEMMA MissedType ==
  ASSUME NEW st, IsStorage(st), NEW n \in Nodes
  PROVE  IsStorage(Missed(st, n))
<1>1. CASE n \in DOMAIN st
  <2>1. [st[n] EXCEPT !.missed = Lesser(@ + 1, MissLimit)] \in MemberRecord
    BY <1>1, MembershipAssumption
    DEF IsStorage, MemberRecord, MembershipAssumption, Lesser
  <2>2. QED
    BY <1>1, <2>1, PutType DEF Missed
<1>2. QED
  BY <1>1 DEF Missed

\* Applying a lifecycle event keeps the storage well typed.
LEMMA MovedType ==
  ASSUME NEW st, IsStorage(st), NEW n \in Nodes, NEW e
  PROVE  IsStorage(Moved(st, n, e))
<1>1. CASE n \in DOMAIN st
  <2>1. st[n] \in MemberRecord
    BY <1>1 DEF IsStorage
  <2>2. [st[n] EXCEPT !.state = NextState(@, e)] \in MemberRecord
    BY <2>1, NextStateType DEF MemberRecord
  <2>3. QED
    BY <1>1, <2>2, PutType DEF Moved
<1>2. QED
  BY <1>1 DEF Moved

\* The eviction pass of tick keeps the storage well typed and forgets nobody.
LEMMA SweptType ==
  ASSUME NEW st, IsStorage(st)
  PROVE  IsStorage(Swept(st)) /\ DOMAIN Swept(st) = DOMAIN st
<1>1. DOMAIN Swept(st) = DOMAIN st
  BY DEF Swept
<1>2. ASSUME NEW n \in DOMAIN st PROVE Swept(st)[n] \in MemberRecord
  <2>1. st[n] \in MemberRecord
    BY DEF IsStorage
  <2>2. [st[n] EXCEPT !.state = NextState(@, Verdict(st[n]))] \in MemberRecord
    BY <2>1, NextStateType DEF MemberRecord
  <2>3. QED
    BY <2>1, <2>2 DEF Swept
<1>3. QED
  BY <1>1, <1>2 DEF IsStorage, Swept

\* reissueLeases keeps the storage well typed and forgets nobody.
LEMMA ReissuedType ==
  ASSUME NEW st, IsStorage(st), NEW e \in Nat
  PROVE  IsStorage(Reissued(st, e)) /\ DOMAIN Reissued(st, e) = DOMAIN st
<1>1. DOMAIN Reissued(st, e) = DOMAIN st
  BY DEF Reissued
<1>2. ASSUME NEW n \in DOMAIN st PROVE Reissued(st, e)[n] \in MemberRecord
  <2>1. st[n] \in MemberRecord
    BY DEF IsStorage
  <2>2. IssueLease(st[n].profile, st[n].state, e) \in Lease
    BY <2>1, IssueLeaseType DEF MemberRecord
  <2>3. QED
    BY <2>1, <2>2 DEF Reissued, MemberRecord
<1>3. QED
  BY <1>1, <1>2 DEF IsStorage, Reissued

\* The passing of time keeps the storage well typed and forgets nobody.
LEMMA AgedType ==
  ASSUME NEW st, IsStorage(st)
  PROVE  IsStorage(Aged(st)) /\ DOMAIN Aged(st) = DOMAIN st
<1>1. DOMAIN Aged(st) = DOMAIN st
  BY DEF Aged
<1>2. ASSUME NEW n \in DOMAIN st PROVE Aged(st)[n] \in MemberRecord
  <2>1. st[n] \in MemberRecord
    BY DEF IsStorage
  <2>2. QED
    BY <2>1 DEF Aged, MemberRecord, Lease
<1>3. QED
  BY <1>1, <1>2 DEF IsStorage, Aged

-----------------------------------------------------------------------------
\* The empty service is well typed.
LEMMA TypeInit == Init => TypeOK
  BY MembershipAssumption DEF Init, TypeOK, IsStorage, MembershipAssumption

\* Every call of the host keeps the service well typed.
LEMMA TypeStep == TypeOK /\ [Next]_vars => TypeOK'
<1> SUFFICES ASSUME TypeOK, [Next]_vars PROVE TypeOK'
  OBVIOUS
<1> USE MembershipAssumption DEF TypeOK, MembershipAssumption
<1>1. ASSUME NEW n \in Nodes, NEW p \in Offers[n], NodeAppeared(n, p)
      PROVE  TypeOK'
  BY <1>1, AppearedType DEF NodeAppeared
<1>2. ASSUME NEW n \in Nodes, HeartbeatSucceeded(n) PROVE TypeOK'
  BY <1>2, HeardType DEF HeartbeatSucceeded
<1>3. ASSUME NEW n \in Nodes, HeartbeatFailed(n) PROVE TypeOK'
  BY <1>3, MissedType DEF HeartbeatFailed
<1>4. ASSUME NEW n \in Nodes, NodeAnnouncedDrain(n) PROVE TypeOK'
  BY <1>4, MovedType DEF NodeAnnouncedDrain
<1>5. ASSUME NEW n \in Nodes, NEW e \in HostEvents, Apply(n, e) PROVE TypeOK'
  BY <1>5, MovedType DEF Apply
<1>6. CASE TickSameEpoch
  BY <1>6, SweptType DEF TickSameEpoch
<1>7. CASE TickNewEpoch
  <2>1. IsStorage(storage') /\ epoch' \in Nat /\ sinceEpoch' \in 0..Dwell
    BY <1>7, SweptType, ReissuedType DEF TickNewEpoch
  <2>2. epochMembers' \subseteq Nodes
    BY <1>7, SweptType DEF TickNewEpoch, PlanningSet, IsStorage
  <2>3. QED
    BY <2>1, <2>2
<1>8. CASE Elapse
  BY <1>8, AgedType DEF Elapse, Lesser
<1>9. CASE UNCHANGED vars
  BY <1>9 DEF vars
<1>10. QED
  BY <1>1, <1>2, <1>3, <1>4, <1>5, <1>6, <1>7, <1>8, <1>9 DEF Next, Tick

\* Type correctness: every record the service keeps is one of a known node.
THEOREM TypeCorrect == Spec => []TypeOK
<1>1. QED
  BY TypeInit, TypeStep, PTL DEF Spec

-----------------------------------------------------------------------------
(* What leases authorise.  The inductive invariant relates the lease of a  *)
(* usable node to its state and its profile, for all nodes at once; the    *)
(* three invariants of Membership are its parts.  It needs to know that    *)
(* the profile kept is one the node offers.                                *)

\* Events that make a suspended node usable, or demote a usable one, without
\* a new lease: apply(_:to:) moves the state only.
Unleased == {"joinedAsCore", "joinedAsElastic", "joinedAsOpportunistic",
             "returnedToForeground", "powerDuress"}

Authorised(n, r, e) ==
  /\ r.profile \in Offers[n]
  /\ Participates(r.state) =>
       /\ r.lease.epoch = e
       /\ r.lease.remaining <= Support[r.profile.link]
       /\ r.lease.required => CanHostRequired(r.state)

AllAuthorised(st, e) == \A n \in DOMAIN st : Authorised(n, st[n], e)

AuthorityInv == TypeOK /\ AllAuthorised(storage, epoch)

\* A device does not change its operating system.
FixedLinks == \A n \in Nodes : \A p, q \in Offers[n] : p.link = q.link

\* A lease just issued is of the epoch asked for, is within what the OS of the
\* node honours, and allows required stages only in the states that may hold one.
LEMMA LeaseAuthorises ==
  ASSUME NEW n \in Nodes, NEW p \in Offers[n], NEW s \in NodeStates,
         NEW e \in Nat
  PROVE  /\ IssueLease(p, s, e).epoch = e
         /\ IssueLease(p, s, e).remaining <= Support[p.link]
         /\ IssueLease(p, s, e).required => CanHostRequired(s)
<1>1. p \in Profile /\ Support[p.link] \in Nat
  BY MembershipAssumption DEF MembershipAssumption, Profile
<1>2. QED
  BY <1>1, MembershipAssumption DEF IssueLease, Lesser, MembershipAssumption

\* The record of a node that joins holds such a lease.
LEMMA JoinedAuthorised ==
  ASSUME NEW n \in Nodes, NEW p \in Offers[n], NEW s \in NodeStates,
         NEW e \in Nat
  PROVE  Authorised(n, Joined(p, s, e), e)
  BY LeaseAuthorises DEF Authorised, Joined

\* Storing one authorised record keeps all records authorised.
LEMMA PutAuthorised ==
  ASSUME NEW st, IsStorage(st), NEW n \in Nodes, NEW r \in MemberRecord,
         NEW e \in Nat, AllAuthorised(st, e), Authorised(n, r, e)
  PROVE  AllAuthorised(Put(st, n, r), e)
<1>1. /\ DOMAIN Put(st, n, r) = DOMAIN st \cup {n}
      /\ Put(st, n, r)[n] = r
      /\ \A m \in DOMAIN st \ {n} : Put(st, n, r)[m] = st[m]
  BY PutType
<1>2. ASSUME NEW m \in DOMAIN st \cup {n}
      PROVE  Authorised(m, Put(st, n, r)[m], e)
  <2>1. CASE m = n
    BY <2>1, <1>1
  <2>2. CASE m # n
    <3>1. m \in DOMAIN st /\ Put(st, n, r)[m] = st[m]
      BY <2>2, <1>1
    <3>2. QED
      BY <3>1 DEF AllAuthorised
  <2>3. QED
    BY <2>1, <2>2
<1>3. QED
  BY <1>1, <1>2 DEF AllAuthorised

\* nodeAppeared keeps all records authorised, provided a node's link model does
\* not change: a refresh takes the new profile and keeps the old lease.
LEMMA AppearedAuthorised ==
  ASSUME FixedLinks, NEW st, IsStorage(st), NEW n \in Nodes,
         NEW p \in Offers[n], NEW e \in Nat, AllAuthorised(st, e)
  PROVE  AllAuthorised(Appeared(st, n, p, e), e)
<1>1. p \in Profile
  BY MembershipAssumption DEF MembershipAssumption
<1>2. Joined(p, InitialState(p), e) \in MemberRecord
  BY <1>1, InitialStateType, JoinedType
<1>3. AllAuthorised(Put(st, n, Joined(p, InitialState(p), e)), e)
  BY <1>2, InitialStateType, JoinedAuthorised, PutAuthorised
<1>4. CASE n \notin DOMAIN st
  BY <1>3, <1>4 DEF Appeared
<1>5. CASE n \in DOMAIN st /\ st[n].state = "suspended"
  <2>1. NextState(st[n].state, JoinEvent(p)) = InitialState(p)
    BY <1>5, RejoinState
  <2>2. Appeared(st, n, p, e)
          = Put(st, n, Joined(p, NextState(st[n].state, JoinEvent(p)), e))
    BY <1>5 DEF Appeared
  <2>3. QED
    BY <2>1, <2>2, <1>3
<1>6. CASE n \in DOMAIN st /\ st[n].state # "suspended"
  <2> DEFINE r == [st[n] EXCEPT !.profile = p, !.missed = 0]
  <2>1. st[n] \in MemberRecord /\ 0 \in 0..MissLimit /\ Authorised(n, st[n], e)
    BY <1>6, MembershipAssumption
    DEF IsStorage, MembershipAssumption, AllAuthorised
  <2>2. r \in MemberRecord
    BY <1>1, <2>1 DEF MemberRecord
  <2>3. r.profile = p /\ r.state = st[n].state /\ r.lease = st[n].lease
    BY <2>1 DEF MemberRecord
  <2>4. st[n].profile.link = p.link
    BY <2>1 DEF Authorised, FixedLinks
  <2> HIDE DEF r
  <2>5. Authorised(n, r, e)
    BY <2>1, <2>3, <2>4 DEF Authorised
  <2>6. AllAuthorised(Put(st, n, r), e)
    BY <2>2, <2>5, PutAuthorised
  <2>7. QED
    BY <1>6, <2>6 DEF Appeared, r
<1>7. QED
  BY <1>4, <1>5, <1>6

\* heartbeatSucceeded keeps all records authorised.
LEMMA HeardAuthorised ==
  ASSUME NEW st, IsStorage(st), NEW n \in Nodes, NEW e \in Nat,
         AllAuthorised(st, e)
  PROVE  AllAuthorised(Heard(st, n, e), e)
<1>1. CASE n \in DOMAIN st
  <2> DEFINE lease == IF Participates(st[n].state)
                        THEN IssueLease(st[n].profile, st[n].state, e)
                        ELSE st[n].lease
             r == [st[n] EXCEPT !.missed = 0, !.lease = lease]
  <2>1. st[n] \in MemberRecord /\ 0 \in 0..MissLimit /\ Authorised(n, st[n], e)
    BY <1>1, MembershipAssumption
    DEF IsStorage, MembershipAssumption, AllAuthorised
  <2>2. lease \in Lease
    BY <2>1, IssueLeaseType DEF MemberRecord
  <2>3. Participates(st[n].state) =>
          /\ lease.epoch = e
          /\ lease.remaining <= Support[st[n].profile.link]
          /\ lease.required => CanHostRequired(st[n].state)
    BY <2>1, LeaseAuthorises DEF MemberRecord, Authorised
  <2> HIDE DEF lease
  <2>4. r \in MemberRecord
    BY <2>1, <2>2 DEF MemberRecord
  <2>5. r.profile = st[n].profile /\ r.state = st[n].state /\ r.lease = lease
    BY <2>1 DEF MemberRecord
  <2> HIDE DEF r
  <2>6. Authorised(n, r, e)
    BY <2>1, <2>3, <2>5 DEF Authorised
  <2>7. AllAuthorised(Put(st, n, r), e)
    BY <2>4, <2>6, PutAuthorised
  <2>8. QED
    BY <1>1, <2>7 DEF Heard, r, lease
<1>2. QED
  BY <1>1 DEF Heard

\* heartbeatFailed keeps all records authorised.
LEMMA MissedAuthorised ==
  ASSUME NEW st, IsStorage(st), NEW n \in Nodes, NEW e \in Nat,
         AllAuthorised(st, e)
  PROVE  AllAuthorised(Missed(st, n), e)
<1>1. CASE n \in DOMAIN st
  <2> DEFINE r == [st[n] EXCEPT !.missed = Lesser(@ + 1, MissLimit)]
  <2>1. st[n] \in MemberRecord /\ Authorised(n, st[n], e)
    BY <1>1 DEF IsStorage, AllAuthorised
  <2>2. r \in MemberRecord
    BY <2>1, MembershipAssumption DEF MemberRecord, MembershipAssumption, Lesser
  <2>3. r.profile = st[n].profile /\ r.state = st[n].state
                                  /\ r.lease = st[n].lease
    BY <2>1 DEF MemberRecord
  <2> HIDE DEF r
  <2>4. Authorised(n, r, e)
    BY <2>1, <2>3 DEF Authorised
  <2>5. AllAuthorised(Put(st, n, r), e)
    BY <2>2, <2>4, PutAuthorised
  <2>6. QED
    BY <1>1, <2>5 DEF Missed, r
<1>2. QED
  BY <1>1 DEF Missed

\* An event that neither rejoins nor demotes leaves a node as it is or makes
\* it unusable.
LEMMA LeasedEvents ==
  ASSUME NEW s, NEW e, e \notin Unleased, Participates(NextState(s, e))
  PROVE  NextState(s, e) = s
  BY DEF NextState, Participates, Unleased

\* An event that neither revives nor demotes keeps all records authorised.
LEMMA MovedAuthorised ==
  ASSUME NEW st, IsStorage(st), NEW n \in Nodes, NEW ev, ev \notin Unleased,
         NEW e \in Nat, AllAuthorised(st, e)
  PROVE  AllAuthorised(Moved(st, n, ev), e)
<1>1. CASE n \in DOMAIN st
  <2> DEFINE r == [st[n] EXCEPT !.state = NextState(@, ev)]
  <2>1. st[n] \in MemberRecord /\ Authorised(n, st[n], e)
    BY <1>1 DEF IsStorage, AllAuthorised
  <2>2. r \in MemberRecord
    BY <2>1, NextStateType DEF MemberRecord
  <2>3. /\ r.profile = st[n].profile
        /\ r.state = NextState(st[n].state, ev)
        /\ r.lease = st[n].lease
    BY <2>1 DEF MemberRecord
  <2> HIDE DEF r
  <2>4. Authorised(n, r, e)
    BY <2>1, <2>3, LeasedEvents DEF Authorised
  <2>5. AllAuthorised(Put(st, n, r), e)
    BY <2>2, <2>4, PutAuthorised
  <2>6. QED
    BY <1>1, <2>5 DEF Moved, r
<1>2. QED
  BY <1>1 DEF Moved

\* The eviction pass keeps all records authorised.
LEMMA SweptAuthorised ==
  ASSUME NEW st, IsStorage(st), NEW e \in Nat, AllAuthorised(st, e)
  PROVE  AllAuthorised(Swept(st), e)
<1> SUFFICES ASSUME NEW n \in DOMAIN st PROVE Authorised(n, Swept(st)[n], e)
  BY DEF AllAuthorised, Swept
<1> DEFINE r == [st[n] EXCEPT !.state = NextState(@, Verdict(st[n]))]
<1>1. st[n] \in MemberRecord /\ Authorised(n, st[n], e)
  BY DEF IsStorage, AllAuthorised
<1>2. /\ r.profile = st[n].profile
      /\ r.state = NextState(st[n].state, Verdict(st[n]))
      /\ r.lease = st[n].lease
  BY <1>1 DEF MemberRecord
<1>3. Verdict(st[n]) \notin Unleased
  BY DEF Verdict, Unleased
<1>4. Swept(st)[n] \in {r, st[n]}
  BY DEF Swept
<1> HIDE DEF r
<1>5. Authorised(n, r, e)
  BY <1>1, <1>2, <1>3, LeasedEvents DEF Authorised
<1>6. QED
  BY <1>1, <1>4, <1>5

\* After reissueLeases all records are authorised in the new epoch, whatever
\* leases they held.
LEMMA ReissuedAuthorised ==
  ASSUME NEW st, IsStorage(st), NEW e \in Nat,
         \A n \in DOMAIN st : st[n].profile \in Offers[n]
  PROVE  AllAuthorised(Reissued(st, e), e)
<1> SUFFICES ASSUME NEW n \in DOMAIN st
             PROVE  Authorised(n, Reissued(st, e)[n], e)
  BY DEF AllAuthorised, Reissued
<1> DEFINE lease == IssueLease(st[n].profile, st[n].state, e)
           r == [st[n] EXCEPT !.lease = lease]
<1>1. st[n] \in MemberRecord /\ n \in Nodes
  BY DEF IsStorage
<1>2. /\ lease.epoch = e
      /\ lease.remaining <= Support[st[n].profile.link]
      /\ lease.required => CanHostRequired(st[n].state)
  BY <1>1, LeaseAuthorises DEF MemberRecord
<1> HIDE DEF lease
<1>3. r.profile = st[n].profile /\ r.state = st[n].state /\ r.lease = lease
  BY <1>1 DEF MemberRecord
<1> HIDE DEF r
<1>4. CASE Participates(st[n].state)
  <2>1. Reissued(st, e)[n] = r
    BY <1>4 DEF Reissued, r, lease
  <2>2. QED
    BY <2>1, <1>2, <1>3 DEF Authorised
<1>5. CASE ~Participates(st[n].state)
  BY <1>5 DEF Reissued, Authorised
<1>6. QED
  BY <1>4, <1>5

\* The passing of time keeps all records authorised.
LEMMA AgedAuthorised ==
  ASSUME NEW st, IsStorage(st), NEW e \in Nat, AllAuthorised(st, e)
  PROVE  AllAuthorised(Aged(st), e)
<1> SUFFICES ASSUME NEW n \in DOMAIN st PROVE Authorised(n, Aged(st)[n], e)
  BY DEF AllAuthorised, Aged
<1>1. st[n] \in MemberRecord /\ Authorised(n, st[n], e)
  BY DEF IsStorage, AllAuthorised
<1>2. st[n].lease \in Lease /\ Support[st[n].profile.link] \in Nat
  BY <1>1, MembershipAssumption DEF MemberRecord, Profile, MembershipAssumption
<1>3. /\ Aged(st)[n].profile = st[n].profile
      /\ Aged(st)[n].state = st[n].state
      /\ Aged(st)[n].lease.epoch = st[n].lease.epoch
      /\ Aged(st)[n].lease.required = st[n].lease.required
      /\ Aged(st)[n].lease.remaining <= st[n].lease.remaining
      /\ Aged(st)[n].lease.remaining \in Nat
  BY <1>1, <1>2 DEF Aged, MemberRecord, Lease
<1>4. QED
  BY <1>1, <1>2, <1>3 DEF Authorised, Lease

-----------------------------------------------------------------------------
(* The authority theorems.  They hold for a host that keeps to two rules:  *)
(* a node's link model never changes, and apply(_:to:) is not used for the *)
(* events that change what a node may do without issuing a lease.  The     *)
(* shipped hosts keep both: none of them calls apply(_:to:).               *)

HostRules == FixedLinks /\ HostEvents \cap Unleased = {}

\* The inductive invariant holds of the empty service.
LEMMA AuthorityInit == Init => AuthorityInv
  BY TypeInit DEF Init, AuthorityInv, AllAuthorised

\* Every call of a host that keeps the rules preserves the inductive invariant.
LEMMA AuthorityStep ==
  ASSUME HostRules
  PROVE  AuthorityInv /\ [Next]_vars => AuthorityInv'
<1> SUFFICES ASSUME AuthorityInv, [Next]_vars PROVE AuthorityInv'
  OBVIOUS
<1>1. TypeOK'
  BY TypeStep DEF AuthorityInv
<1>2. /\ IsStorage(storage)
      /\ epoch \in Nat
      /\ AllAuthorised(storage, epoch)
  BY DEF AuthorityInv, TypeOK
<1> SUFFICES AllAuthorised(storage', epoch')
  BY <1>1 DEF AuthorityInv, AllAuthorised
<1>3. ASSUME NEW n \in Nodes, NEW p \in Offers[n], NodeAppeared(n, p)
      PROVE  AllAuthorised(storage', epoch')
  BY <1>2, <1>3, AppearedAuthorised DEF NodeAppeared, HostRules
<1>4. ASSUME NEW n \in Nodes, HeartbeatSucceeded(n)
      PROVE  AllAuthorised(storage', epoch')
  BY <1>2, <1>4, HeardAuthorised DEF HeartbeatSucceeded
<1>5. ASSUME NEW n \in Nodes, HeartbeatFailed(n)
      PROVE  AllAuthorised(storage', epoch')
  BY <1>2, <1>5, MissedAuthorised DEF HeartbeatFailed
<1>6. ASSUME NEW n \in Nodes, NodeAnnouncedDrain(n)
      PROVE  AllAuthorised(storage', epoch')
  <2>1. "enteredBackground" \notin Unleased
    BY DEF Unleased
  <2>2. AllAuthorised(Moved(storage, n, "enteredBackground"), epoch)
    BY <1>2, <2>1, MovedAuthorised
  <2>3. QED
    BY <1>6, <2>2 DEF NodeAnnouncedDrain
<1>7. ASSUME NEW n \in Nodes, NEW e \in HostEvents, Apply(n, e)
      PROVE  AllAuthorised(storage', epoch')
  <2>1. e \notin Unleased
    BY DEF HostRules
  <2>2. AllAuthorised(Moved(storage, n, e), epoch)
    BY <1>2, <2>1, MovedAuthorised
  <2>3. QED
    BY <1>7, <2>2 DEF Apply
<1>8. CASE TickSameEpoch
  BY <1>2, <1>8, SweptAuthorised DEF TickSameEpoch
<1>9. CASE TickNewEpoch
  <2>1. IsStorage(Swept(storage)) /\ AllAuthorised(Swept(storage), epoch)
    BY <1>2, SweptType, SweptAuthorised
  <2>2. \A n \in DOMAIN Swept(storage) : Swept(storage)[n].profile \in Offers[n]
    BY <2>1 DEF AllAuthorised, Authorised
  <2>3. epoch + 1 \in Nat
    BY <1>2
  <2>4. AllAuthorised(Reissued(Swept(storage), epoch + 1), epoch + 1)
    BY <2>1, <2>2, <2>3, ReissuedAuthorised
  <2>5. QED
    BY <1>9, <2>4 DEF TickNewEpoch
<1>10. CASE Elapse
  BY <1>2, <1>10, AgedAuthorised DEF Elapse
<1>11. CASE UNCHANGED vars
  BY <1>2, <1>11 DEF vars
<1>12. QED
  BY <1>3, <1>4, <1>5, <1>6, <1>7, <1>8, <1>9, <1>10, <1>11 DEF Next, Tick

\* The inductive invariant contains the three invariants of Membership.
LEMMA AuthorityImplies ==
  AuthorityInv =>
    NoStaleAuthority /\ LeaseWithinOSLimit /\ RequiredLeaseFitsState
  BY DEF AuthorityInv, AllAuthorised, Authorised, NoStaleAuthority,
         LeaseWithinOSLimit, RequiredLeaseFitsState, PlanningSet

\* The inductive invariant holds throughout.
LEMMA AuthorityInvariant ==
  ASSUME HostRules
  PROVE  Spec => []AuthorityInv
<1>1. AuthorityInv /\ [Next]_vars => AuthorityInv'
  BY AuthorityStep
<1>2. QED
  BY <1>1, AuthorityInit, PTL DEF Spec

\* No node the planner may use holds a lease of another epoch.
THEOREM NoStaleAuthorityHolds ==
  ASSUME HostRules
  PROVE  Spec => []NoStaleAuthority
<1>1. AuthorityInv => NoStaleAuthority
  BY AuthorityImplies
<1>2. QED
  BY <1>1, AuthorityInvariant, PTL

\* No usable node is promised more time than its OS can honour.
THEOREM LeaseWithinOSLimitHolds ==
  ASSUME HostRules
  PROVE  Spec => []LeaseWithinOSLimit
<1>1. AuthorityInv => LeaseWithinOSLimit
  BY AuthorityImplies
<1>2. QED
  BY <1>1, AuthorityInvariant, PTL

\* A lease for required stages is held only in a state that may host them.
THEOREM RequiredLeaseFitsStateHolds ==
  ASSUME HostRules
  PROVE  Spec => []RequiredLeaseFitsState
<1>1. AuthorityInv => RequiredLeaseFitsState
  BY AuthorityImplies
<1>2. QED
  BY <1>1, AuthorityInvariant, PTL

-----------------------------------------------------------------------------
(* What a step may never do to a node, as properties of each operation.    *)

\* nodeAppeared never leads out of draining, and revives only with a new lease.
LEMMA AppearedMoves ==
  ASSUME NEW st, IsStorage(st), NEW n \in Nodes, NEW p \in Profile,
         NEW e \in Nat, NEW m \in DOMAIN st
  PROVE  /\ OnlyLeaves(st[m], Appeared(st, n, p, e)[m])
         /\ StartsAfresh(st[m], Appeared(st, n, p, e)[m], e)
<1>1. CASE m # n
  <2>1. Appeared(st, n, p, e)[m] = st[m]
    BY <1>1 DEF Appeared, Put
  <2>2. QED
    BY <2>1 DEF OnlyLeaves, StartsAfresh, Participates
<1>2. CASE m = n /\ st[n].state = "suspended"
  <2> DEFINE r == Joined(p, NextState(st[n].state, JoinEvent(p)), e)
  <2>1. Appeared(st, n, p, e)[m] = r
    BY <1>2 DEF Appeared, Put
  <2>2. r.missed = 0 /\ r.lease = IssueLease(r.profile, r.state, e)
    BY DEF Joined
  <2> HIDE DEF r
  <2>3. QED
    BY <1>2, <2>1, <2>2 DEF OnlyLeaves, StartsAfresh
<1>3. CASE m = n /\ st[n].state # "suspended"
  <2>1. st[n] \in MemberRecord
    BY <1>3 DEF IsStorage
  <2>2. Appeared(st, n, p, e)[m] = [st[n] EXCEPT !.profile = p, !.missed = 0]
    BY <1>3 DEF Appeared, Put
  <2>3. Appeared(st, n, p, e)[m].state = st[n].state
    BY <2>1, <2>2 DEF MemberRecord
  <2>4. QED
    BY <1>3, <2>3 DEF OnlyLeaves, StartsAfresh
<1>4. QED
  BY <1>1, <1>2, <1>3

\* Neither an answer nor a miss moves a node.
LEMMA ProbesMoveNobody ==
  ASSUME NEW st, IsStorage(st), NEW n \in Nodes, NEW e \in Nat,
         NEW m \in DOMAIN st
  PROVE  /\ Heard(st, n, e)[m].state = st[m].state
         /\ Missed(st, n)[m].state = st[m].state
<1>0. st[m] \in MemberRecord
  BY DEF IsStorage
<1>1. Heard(st, n, e)[m].state = st[m].state
  <2> DEFINE lease == IF Participates(st[n].state)
                        THEN IssueLease(st[n].profile, st[n].state, e)
                        ELSE st[n].lease
             r == [st[n] EXCEPT !.missed = 0, !.lease = lease]
  <2>1. m = n => r.state = st[m].state
    BY <1>0 DEF MemberRecord
  <2>2. n \in DOMAIN st => Heard(st, n, e)[m] = IF m = n THEN r ELSE st[m]
    BY DEF Heard, Put
  <2> HIDE DEF r
  <2>3. n \notin DOMAIN st => Heard(st, n, e) = st
    BY DEF Heard
  <2>4. QED
    BY <2>1, <2>2, <2>3
<1>2. Missed(st, n)[m].state = st[m].state
  BY <1>0 DEF Missed, Put, MemberRecord
<1>3. QED
  BY <1>1, <1>2

\* Nor do time and new leases.
LEMMA LeasesMoveNobody ==
  ASSUME NEW st, IsStorage(st), NEW e \in Nat, NEW m \in DOMAIN st
  PROVE  /\ Aged(st)[m].state = st[m].state
         /\ Reissued(st, e)[m].state = st[m].state
<1>0. st[m] \in MemberRecord
  BY DEF IsStorage
<1> QED
  BY <1>0 DEF Aged, Reissued, MemberRecord

Joins == {"joinedAsCore", "joinedAsElastic", "joinedAsOpportunistic",
          "returnedToForeground"}

\* No event leads from draining but to suspended, and only a join leads out of
\* suspended.
LEMMA EventsMoveForward ==
  ASSUME NEW s, NEW e
  PROVE  /\ s = "draining" => NextState(s, e) \in {"draining", "suspended"}
         /\ s = "suspended" /\ e \notin Joins => NextState(s, e) = "suspended"
  BY DEF NextState, Joins, Participates

\* Applying an event changes at most the state, as the state machine says.
LEMMA MovedMoves ==
  ASSUME NEW st, IsStorage(st), NEW n \in Nodes, NEW ev, NEW m \in DOMAIN st
  PROVE  \/ Moved(st, n, ev)[m].state = st[m].state
         \/ Moved(st, n, ev)[m].state = NextState(st[m].state, ev)
<1>0. st[m] \in MemberRecord
  BY DEF IsStorage
<1> QED
  BY <1>0 DEF Moved, Put, MemberRecord

\* The eviction pass never leads out of draining but to suspended.
LEMMA SweptMoves ==
  ASSUME NEW st, IsStorage(st), NEW m \in DOMAIN st
  PROVE  \/ Swept(st)[m] = st[m]
         \/ Swept(st)[m].state = "suspended"
<1> DEFINE r == [st[m] EXCEPT !.state = NextState(@, Verdict(st[m]))]
<1>1. st[m] \in MemberRecord
  BY DEF IsStorage
<1>2. Swept(st)[m] = st[m] \/ (Verdict(st[m]) # "stays" /\ Swept(st)[m] = r)
  BY DEF Swept, Evicted
<1>3. r.state = NextState(st[m].state, Verdict(st[m]))
  BY <1>1 DEF MemberRecord
<1> HIDE DEF r
<1>4. Verdict(st[m]) # "stays" =>
        NextState(st[m].state, Verdict(st[m])) = "suspended"
  BY DEF Verdict, NextState, Participates
<1>5. QED
  BY <1>2, <1>3, <1>4

\* A drain is never undone: whoever is draining drains on or is suspended.
THEOREM DrainIsOneWayHolds == Spec => DrainIsOneWay
<1>1. TypeOK /\ [Next]_vars => [DrainStep]_vars
  <2> SUFFICES ASSUME TypeOK, Next, NEW m \in DOMAIN storage
               PROVE  OnlyLeaves(storage[m], storage'[m])
    BY DEF DrainStep
  <2>1. IsStorage(storage) /\ epoch \in Nat
    BY DEF TypeOK
  <2>2. ASSUME NEW n \in Nodes, NEW p \in Offers[n], NodeAppeared(n, p)
        PROVE  OnlyLeaves(storage[m], storage'[m])
    <3>1. p \in Profile
      BY MembershipAssumption DEF MembershipAssumption
    <3>2. QED
      BY <2>1, <2>2, <3>1, AppearedMoves DEF NodeAppeared
  <2>3. ASSUME NEW n \in Nodes, HeartbeatSucceeded(n)
        PROVE  OnlyLeaves(storage[m], storage'[m])
    BY <2>1, <2>3, ProbesMoveNobody DEF HeartbeatSucceeded, OnlyLeaves
  <2>4. ASSUME NEW n \in Nodes, HeartbeatFailed(n)
        PROVE  OnlyLeaves(storage[m], storage'[m])
    BY <2>1, <2>4, ProbesMoveNobody DEF HeartbeatFailed, OnlyLeaves
  <2>5. ASSUME NEW n \in Nodes, NodeAnnouncedDrain(n)
        PROVE  OnlyLeaves(storage[m], storage'[m])
    BY <2>1, <2>5, MovedMoves, EventsMoveForward
    DEF NodeAnnouncedDrain, OnlyLeaves
  <2>6. ASSUME NEW n \in Nodes, NEW e \in HostEvents, Apply(n, e)
        PROVE  OnlyLeaves(storage[m], storage'[m])
    BY <2>1, <2>6, MovedMoves, EventsMoveForward DEF Apply, OnlyLeaves
  <2>7. OnlyLeaves(storage[m], Swept(storage)[m])
    BY <2>1, SweptMoves DEF OnlyLeaves
  <2>8. CASE TickSameEpoch
    BY <2>7, <2>8 DEF TickSameEpoch
  <2>9. CASE TickNewEpoch
    <3>1. /\ IsStorage(Swept(storage))
          /\ m \in DOMAIN Swept(storage)
          /\ epoch + 1 \in Nat
      BY <2>1, SweptType
    <3>2. Reissued(Swept(storage), epoch + 1)[m].state = Swept(storage)[m].state
      BY <3>1, LeasesMoveNobody
    <3>3. QED
      BY <2>7, <2>9, <3>2 DEF TickNewEpoch, OnlyLeaves
  <2>10. CASE Elapse
    <3>1. Aged(storage)[m].state = storage[m].state
      BY <2>1, LeasesMoveNobody
    <3>2. QED
      BY <2>10, <3>1 DEF Elapse, OnlyLeaves
  <2>11. QED
    BY <2>2, <2>3, <2>4, <2>5, <2>6, <2>8, <2>9, <2>10 DEF Next, Tick
<1>2. QED
  BY <1>1, TypeCorrect, PTL DEF Spec, DrainIsOneWay

\* Who comes back from suspension starts afresh, whatever it did before: on a
\* host that reports a return as an appearance, not through apply(_:to:).
THEOREM RejoinStartsAfreshHolds ==
  ASSUME HostEvents \cap Joins = {}
  PROVE  Spec => RejoinStartsAfresh
<1>1. TypeOK /\ [Next]_vars => [RejoinStep]_vars
  <2> SUFFICES ASSUME TypeOK, Next, NEW m \in DOMAIN storage
               PROVE  StartsAfresh(storage[m], storage'[m], epoch')
    BY DEF RejoinStep
  <2>1. IsStorage(storage) /\ epoch \in Nat
    BY DEF TypeOK
  <2>2. ASSUME NEW n \in Nodes, NEW p \in Offers[n], NodeAppeared(n, p)
        PROVE  StartsAfresh(storage[m], storage'[m], epoch')
    <3>1. p \in Profile
      BY MembershipAssumption DEF MembershipAssumption
    <3>2. QED
      BY <2>1, <2>2, <3>1, AppearedMoves DEF NodeAppeared
  <2>3. storage'[m].state = "suspended" =>
          StartsAfresh(storage[m], storage'[m], epoch')
    BY DEF StartsAfresh, Participates
  <2>4. storage'[m].state = storage[m].state =>
          StartsAfresh(storage[m], storage'[m], epoch')
    BY DEF StartsAfresh, Participates
  <2>5. ASSUME NEW n \in Nodes, HeartbeatSucceeded(n)
        PROVE  StartsAfresh(storage[m], storage'[m], epoch')
    BY <2>1, <2>4, <2>5, ProbesMoveNobody DEF HeartbeatSucceeded
  <2>6. ASSUME NEW n \in Nodes, HeartbeatFailed(n)
        PROVE  StartsAfresh(storage[m], storage'[m], epoch')
    BY <2>1, <2>4, <2>6, ProbesMoveNobody DEF HeartbeatFailed
  <2>7. ASSUME NEW n \in Nodes, NEW e, e \notin Joins,
               storage' = Moved(storage, n, e)
        PROVE  StartsAfresh(storage[m], storage'[m], epoch')
    <3>1. \/ storage'[m].state = storage[m].state
          \/ storage'[m].state = NextState(storage[m].state, e)
      BY <2>1, <2>7, MovedMoves
    <3>2. storage[m].state = "suspended" => storage'[m].state = "suspended"
      BY <2>7, <3>1, EventsMoveForward
    <3>3. QED
      BY <3>2 DEF StartsAfresh, Participates
  <2>8. ASSUME NEW n \in Nodes, NodeAnnouncedDrain(n)
        PROVE  StartsAfresh(storage[m], storage'[m], epoch')
    <3>1. "enteredBackground" \notin Joins
      BY DEF Joins
    <3>2. QED
      BY <2>7, <2>8, <3>1 DEF NodeAnnouncedDrain
  <2>9. ASSUME NEW n \in Nodes, NEW e \in HostEvents, Apply(n, e)
        PROVE  StartsAfresh(storage[m], storage'[m], epoch')
    BY <2>7, <2>9 DEF Apply
  <2>10. \/ Swept(storage)[m].state = storage[m].state
         \/ Swept(storage)[m].state = "suspended"
    BY <2>1, SweptMoves
  <2>11. CASE TickSameEpoch
    BY <2>3, <2>4, <2>10, <2>11 DEF TickSameEpoch
  <2>12. CASE TickNewEpoch
    <3>1. /\ IsStorage(Swept(storage))
          /\ m \in DOMAIN Swept(storage)
          /\ epoch + 1 \in Nat
      BY <2>1, SweptType
    <3>2. Reissued(Swept(storage), epoch + 1)[m].state = Swept(storage)[m].state
      BY <3>1, LeasesMoveNobody
    <3>3. QED
      BY <2>3, <2>4, <2>10, <2>12, <3>2 DEF TickNewEpoch
  <2>13. CASE Elapse
    <3>1. Aged(storage)[m].state = storage[m].state
      BY <2>1, LeasesMoveNobody
    <3>2. QED
      BY <2>4, <2>13, <3>1 DEF Elapse
  <2>14. QED
    BY <2>2, <2>5, <2>6, <2>8, <2>9, <2>11, <2>12, <2>13 DEF Next, Tick
<1>2. QED
  BY <1>1, TypeCorrect, PTL DEF Spec, RejoinStartsAfresh

-----------------------------------------------------------------------------
(* Epochs.                                                                 *)

\* Whoever survives a sweep as usable is answering.
LEMMA SurvivorsAnswer ==
  ASSUME NEW st, IsStorage(st), NEW m \in PlanningSet(Swept(st))
  PROVE  Swept(st)[m].missed < MissLimit
<1>1. m \in DOMAIN st /\ Participates(Swept(st)[m].state)
  BY DEF PlanningSet, Swept
<1>2. Swept(st)[m] = st[m]
  BY <1>1, SweptMoves DEF Participates
<1>3. m \notin Evicted(st)
  <2>1. st[m] \in MemberRecord
    BY <1>1 DEF IsStorage
  <2>2. SUFFICES ASSUME m \in Evicted(st) PROVE FALSE
    OBVIOUS
  <2>3. Swept(st)[m] = [st[m] EXCEPT !.state = NextState(@, Verdict(st[m]))]
    BY <1>1, <2>2 DEF Swept
  <2>4. Swept(st)[m].state = NextState(st[m].state, Verdict(st[m]))
    BY <2>1, <2>3 DEF MemberRecord
  <2>5. Verdict(st[m]) # "stays"
    BY <2>2 DEF Evicted
  <2>6. NextState(st[m].state, Verdict(st[m])) = "suspended"
    BY <2>5 DEF Verdict, NextState, Participates
  <2>7. QED
    BY <1>1, <2>4, <2>6 DEF Participates
<1>4. st[m].missed \in Nat /\ MissLimit \in Nat
  BY <1>1, MembershipAssumption
  DEF IsStorage, MemberRecord, MembershipAssumption
<1>5. QED
  BY <1>1, <1>2, <1>3, <1>4 DEF Evicted, Verdict

\* The members of a new epoch are answering and hold full leases of it.
THEOREM EpochStartsCleanHolds == Spec => EpochStartsClean
<1>1. TypeOK /\ [Next]_vars => [EpochStep]_vars
  <2> SUFFICES ASSUME TypeOK, Next, epoch' # epoch, NEW m \in epochMembers'
               PROVE  AnswersAndHolds(storage'[m], epoch')
    BY DEF EpochStep
  <2>1. TickNewEpoch
    BY DEF Next, Tick, NodeAppeared, HeartbeatSucceeded, HeartbeatFailed,
           NodeAnnouncedDrain, Apply, TickSameEpoch, Elapse
  <2> DEFINE st == Swept(storage)
             lease == IssueLease(st[m].profile, st[m].state, epoch + 1)
             r == [st[m] EXCEPT !.lease = lease]
  <2>2. IsStorage(st) /\ epoch + 1 \in Nat /\ m \in PlanningSet(st)
    BY <2>1, SweptType DEF TypeOK, TickNewEpoch
  <2>3. st[m].missed < MissLimit
    BY <2>2, SurvivorsAnswer DEF TypeOK
  <2> HIDE DEF st
  <2>4. st[m] \in MemberRecord /\ Participates(st[m].state) /\ m \in DOMAIN st
    BY <2>2 DEF IsStorage, PlanningSet
  <2>5. storage'[m] = r
    BY <2>1, <2>4 DEF TickNewEpoch, Reissued, st
  <2>6. /\ lease.epoch = epoch + 1
        /\ lease.remaining = Lesser(LeaseDuration, Support[st[m].profile.link])
    BY DEF IssueLease
  <2> HIDE DEF lease
  <2>7. r.missed = st[m].missed /\ r.lease = lease /\ r.profile = st[m].profile
    BY <2>4 DEF MemberRecord
  <2>8. epoch' = epoch + 1
    BY <2>1 DEF TickNewEpoch
  <2>9. QED
    BY <2>3, <2>5, <2>6, <2>7, <2>8 DEF AnswersAndHolds
<1>2. QED
  BY <1>1, TypeCorrect, PTL DEF Spec, EpochStartsClean

\* The membership service implements the versioned ring: epochs are numbered
\* in order, last their dwell time and are started for the usable nodes.
THEOREM ImplementsEpochs == Spec => EpochsSpec
<1>1. Init => Epochs!Init
  BY DEF Init, Epochs!Init, PlanningSet
<1>2. TypeOK /\ [Next]_vars => [Epochs!Next]_(Epochs!vars)
  <2> SUFFICES ASSUME TypeOK, TypeOK', [Next]_vars
               PROVE  Epochs!Next \/ UNCHANGED Epochs!vars
    BY TypeStep
  <2>1. /\ PlanningSet(storage)' \in SUBSET Nodes
        /\ sinceEpoch \in Nat /\ Dwell \in Nat /\ sinceEpoch <= Dwell
    BY MembershipAssumption DEF TypeOK, PlanningSet, IsStorage, MembershipAssumption
  <2>2. CASE UNCHANGED <<epoch, sinceEpoch, epochMembers>>
    BY <2>1, <2>2 DEF Epochs!Next, Epochs!Churn
  <2>3. CASE TickNewEpoch
    <3>1. IsStorage(Swept(storage)) /\ epoch + 1 \in Nat
      BY SweptType DEF TypeOK
    <3>2. PlanningSet(storage)' = PlanningSet(Swept(storage))
      <4>1. storage' = Reissued(Swept(storage), epoch + 1)
        BY <2>3 DEF TickNewEpoch
      <4>2. /\ DOMAIN storage' = DOMAIN Swept(storage)
            /\ \A n \in DOMAIN storage' :
                 storage'[n].state = Swept(storage)[n].state
        BY <3>1, <4>1, ReissuedType, LeasesMoveNobody
      <4>3. QED
        BY <4>2 DEF PlanningSet
    <3>3. QED
      BY <2>1, <2>3, <3>2 DEF TickNewEpoch, EpochDue, Epochs!Next, Epochs!Begin
  <2>4. CASE Elapse
    <3>1. PlanningSet(storage)' = PlanningSet(storage)
      <4>1. /\ DOMAIN storage' = DOMAIN storage
            /\ \A n \in DOMAIN storage : storage'[n].state = storage[n].state
        BY <2>4, AgedType, LeasesMoveNobody DEF Elapse, TypeOK
      <4>2. QED
        BY <4>1 DEF PlanningSet
    <3>2. CASE sinceEpoch < Dwell
      <4>1. sinceEpoch' = sinceEpoch + 1
        BY <2>1, <2>4, <3>2 DEF Elapse, Lesser
      <4>2. QED
        BY <2>4, <3>1, <3>2, <4>1 DEF Elapse, Epochs!Next, Epochs!Pass
    <3>3. CASE sinceEpoch = Dwell
      <4>1. sinceEpoch' = sinceEpoch
        BY <2>1, <2>4, <3>3 DEF Elapse, Lesser
      <4>2. QED
        BY <2>4, <3>1, <4>1 DEF Elapse, Epochs!vars
    <3>4. QED
      BY <2>1, <3>2, <3>3
  <2>5. QED
    BY <2>2, <2>3, <2>4
    DEF Next, vars, Tick, NodeAppeared, HeartbeatSucceeded, HeartbeatFailed,
        NodeAnnouncedDrain, Apply, TickSameEpoch
<1>3. QED
  BY <1>1, <1>2, TypeCorrect, PTL DEF Spec, EpochsSpec, Epochs!Spec
=============================================================================
