----------------------------- MODULE Membership -----------------------------
(***************************************************************************)
(* The membership service of one ring host: which nodes are known, what    *)
(* lifecycle state each is in, the lease it holds, and the epoch the ring  *)
(* is in (NodeState.swift, Lease.swift, Epoch.swift,                       *)
(* MembershipService.swift).  The service owns no timer and does no I/O:   *)
(* a host reports what it saw and calls tick, so every action below is one *)
(* call of the host, in any order.                                         *)
(*                                                                         *)
(* Time is kept relative to now: a lease holds the time it has left and    *)
(* sinceEpoch the time since the epoch last changed.  sinceEpoch and the   *)
(* count of missed heartbeats stop at the bound the code compares them     *)
(* with, since it asks only whether the bound is reached.                  *)
(***************************************************************************)
EXTENDS Naturals, FiniteSets

CONSTANTS
  Nodes,          \* node identities
  Offers,         \* Offers[n]: the profiles node n may publish
  Support,        \* Support[l]: the longest lease an OS of link model l honours
  LeaseDuration,  \* config.leaseDuration
  MissLimit,      \* config.missedHeartbeatsBeforeEviction
  Dwell,          \* config.minimumEpochDwellTime
  HostEvents,     \* the lifecycle events this host passes to apply(_:to:)
  MaxEpoch        \* bound: no epoch beyond this one is started

Links == {"desktopUnrestricted", "androidForegroundService", "iosSuspended"}
Connectivity == {"coreDesktop", "elasticMobile", "opportunisticMobile"}
Profile == [link : Links, connectivity : Connectivity, declares : BOOLEAN]

NodeStates ==
  {"activeCore", "activeElastic", "opportunistic", "draining", "suspended"}
NodeEvents ==
  {"joinedAsCore", "joinedAsElastic", "joinedAsOpportunistic",
   "enteredBackground", "returnedToForeground", "drainRequested",
   "drainCompleted", "leaseExpired", "heartbeatLost", "powerDuress"}

ASSUME MembershipAssumption ==
  /\ Offers \in [Nodes -> SUBSET Profile]
  /\ Support \in [Links -> Nat]
  /\ LeaseDuration \in Nat
  /\ MissLimit \in Nat
  /\ Dwell \in Nat
  /\ HostEvents \subseteq NodeEvents
  /\ MaxEpoch \in Nat

VARIABLES
  storage,        \* the member record of every node heard of so far
  epoch,          \* currentEpoch
  sinceEpoch,     \* time since lastEpochChangedAt, up to Dwell
  epochMembers    \* lastEpochMembers: who the current epoch was started for

vars == <<storage, epoch, sinceEpoch, epochMembers>>

Lesser(a, b) == IF a <= b THEN a ELSE b

-----------------------------------------------------------------------------
(* The node state machine.                                                 *)

CanHostRequired(s) == s \in {"activeCore", "activeElastic"}

Participates(s) == s \in {"activeCore", "activeElastic", "opportunistic"}

\* A bug variant: the answer nil is stored as the state.
NextStateNil(s, e) ==
  CASE s = "suspended" /\ e \in {"joinedAsCore", "joinedAsElastic"}
         -> "activeCore"
    [] s = "draining" /\ e = "drainCompleted"   -> "suspended"
    [] s # "suspended" /\ e \in {"leaseExpired", "heartbeatLost"} -> "suspended"
    [] OTHER -> "nil"

\* The state after event e in state s: s itself where the code answers nil.
NextState(s, e) ==
  CASE s = "suspended" /\ e = "joinedAsCore"    -> "activeCore"
    [] s = "suspended" /\ e = "joinedAsElastic" -> "activeElastic"
    [] s = "suspended" /\ e \in {"joinedAsOpportunistic", "returnedToForeground"}
         -> "opportunistic"
    [] Participates(s) /\ e \in {"enteredBackground", "drainRequested"}
         -> "draining"
    [] s = "activeElastic" /\ e = "powerDuress" -> "opportunistic"
    [] s \in {"activeCore", "opportunistic"} /\ e = "powerDuress" -> "draining"
    [] s = "draining" /\ e = "drainCompleted"   -> "suspended"
    [] s # "suspended" /\ e \in {"leaseExpired", "heartbeatLost"} -> "suspended"
    [] OTHER -> s

InitialState(p) ==
  CASE p.declares /\ p.connectivity = "coreDesktop"   -> "activeCore"
    [] p.declares /\ p.connectivity = "elasticMobile" -> "activeElastic"
    [] OTHER -> "opportunistic"

JoinEvent(p) ==
  CASE InitialState(p) = "activeCore"    -> "joinedAsCore"
    [] InitialState(p) = "activeElastic" -> "joinedAsElastic"
    [] OTHER -> "joinedAsOpportunistic"

-----------------------------------------------------------------------------
(* Leases.  The stage types a lease allows are all of them or the          *)
(* non-required ones; remaining is the time left.                          *)

Lease == [epoch : Nat, remaining : Nat, required : BOOLEAN]

\* Bug variants: the lease length as configured, and all stages for everyone.
IssueLeaseUnclamped(p, s, e) ==
  [epoch |-> e, remaining |-> LeaseDuration, required |-> CanHostRequired(s)]

IssueLeaseForAll(p, s, e) ==
  [epoch     |-> e,
   remaining |-> Lesser(LeaseDuration, Support[p.link]),
   required  |-> TRUE]

IssueLease(p, s, e) ==
  [epoch     |-> e,
   remaining |-> Lesser(LeaseDuration, Support[p.link]),
   required  |-> CanHostRequired(s)]

IsValid(lease) == lease.remaining > 0

\* Lease.canHost of a required stage expected to take d.
CanHost(lease, d) == IsValid(lease) /\ lease.required /\ d < lease.remaining

MemberRecord ==
  [state : NodeStates, profile : Profile, missed : 0..MissLimit, lease : Lease]

IsStorage(st) ==
  /\ DOMAIN st \subseteq Nodes
  /\ st = [n \in DOMAIN st |-> st[n]]
  /\ \A n \in DOMAIN st : st[n] \in MemberRecord

PlanningSet(st) == {n \in DOMAIN st : Participates(st[n].state)}

Put(st, n, r) == [m \in DOMAIN st \cup {n} |-> IF m = n THEN r ELSE st[m]]

-----------------------------------------------------------------------------
(* What each call does to the storage, as functions of it: a host may make *)
(* several calls in one step.                                              *)

Joined(p, s, e) ==
  [state |-> s, profile |-> p, missed |-> 0, lease |-> IssueLease(p, s, e)]

\* Bug variants: any unusable node rejoins; a rejoin keeps the old lease.
AppearedRevives(st, n, p, e) ==
  IF n \notin DOMAIN st \/ ~Participates(st[n].state)
    THEN Put(st, n, Joined(p, InitialState(p), e))
    ELSE Put(st, n, [st[n] EXCEPT !.profile = p, !.missed = 0])

AppearedOldLease(st, n, p, e) ==
  IF n \notin DOMAIN st
    THEN Put(st, n, Joined(p, InitialState(p), e))
    ELSE Put(st, n,
           [st[n] EXCEPT !.profile = p, !.missed = 0,
                         !.state = NextState(@, JoinEvent(p))])

\* A suspended record rejoins, any other is refreshed and keeps its lease.
Appeared(st, n, p, e) ==
  IF n \notin DOMAIN st
    THEN Put(st, n, Joined(p, InitialState(p), e))
  ELSE IF st[n].state = "suspended"
    THEN Put(st, n, Joined(p, NextState(st[n].state, JoinEvent(p)), e))
  ELSE Put(st, n, [st[n] EXCEPT !.profile = p, !.missed = 0])

\* A bug variant: an answer does not renew the lease.
HeardUnrenewed(st, n, e) ==
  IF n \notin DOMAIN st THEN st ELSE Put(st, n, [st[n] EXCEPT !.missed = 0])

Heard(st, n, e) ==
  IF n \notin DOMAIN st THEN st
  ELSE Put(st, n,
         [st[n] EXCEPT !.missed = 0,
                       !.lease = IF Participates(st[n].state)
                                   THEN IssueLease(st[n].profile, st[n].state, e)
                                   ELSE @])

Missed(st, n) ==
  IF n \notin DOMAIN st THEN st
  ELSE Put(st, n, [st[n] EXCEPT !.missed = Lesser(@ + 1, MissLimit)])

Moved(st, n, e) ==
  IF n \notin DOMAIN st THEN st
  ELSE Put(st, n, [st[n] EXCEPT !.state = NextState(@, e)])

\* A bug variant: one more miss is waited for.
VerdictLate(r) ==
  CASE r.state = "draining"                             -> "drainCompleted"
    [] Participates(r.state) /\ r.missed > MissLimit    -> "heartbeatLost"
    [] Participates(r.state) /\ ~IsValid(r.lease)       -> "leaseExpired"
    [] OTHER                                            -> "stays"

\* What one pass of tick decides about a record.
Verdict(r) ==
  CASE r.state = "draining"                                 -> "drainCompleted"
    [] Participates(r.state) /\ r.missed >= MissLimit       -> "heartbeatLost"
    [] Participates(r.state) /\ r.missed < MissLimit
                             /\ ~IsValid(r.lease)           -> "leaseExpired"
    [] OTHER                                                -> "stays"

Evicted(st) == {n \in DOMAIN st : Verdict(st[n]) # "stays"}

Swept(st) ==
  [n \in DOMAIN st |->
     IF n \in Evicted(st)
       THEN [st[n] EXCEPT !.state = NextState(@, Verdict(st[n]))]
       ELSE st[n]]

\* A bug variant: an epoch change leaves the leases alone.
ReissuedNever(st, e) == st

Reissued(st, e) ==
  [n \in DOMAIN st |->
     IF Participates(st[n].state)
       THEN [st[n] EXCEPT !.lease = IssueLease(st[n].profile, st[n].state, e)]
       ELSE st[n]]

Aged(st) ==
  [n \in DOMAIN st |->
     [st[n] EXCEPT !.lease.remaining = IF @ > 0 THEN @ - 1 ELSE 0]]

-----------------------------------------------------------------------------
(* The calls of the host.                                                  *)

Init ==
  /\ storage = [n \in {} |-> n]
  /\ epoch = 0
  /\ sinceEpoch = 0
  /\ epochMembers = {}

NodeAppeared(n, p) ==
  /\ storage' = Appeared(storage, n, p, epoch)
  /\ UNCHANGED <<epoch, sinceEpoch, epochMembers>>

HeartbeatSucceeded(n) ==
  /\ storage' = Heard(storage, n, epoch)
  /\ UNCHANGED <<epoch, sinceEpoch, epochMembers>>

HeartbeatFailed(n) ==
  /\ storage' = Missed(storage, n)
  /\ UNCHANGED <<epoch, sinceEpoch, epochMembers>>

NodeAnnouncedDrain(n) ==
  /\ storage' = Moved(storage, n, "enteredBackground")
  /\ UNCHANGED <<epoch, sinceEpoch, epochMembers>>

Apply(n, e) ==
  /\ storage' = Moved(storage, n, e)
  /\ UNCHANGED <<epoch, sinceEpoch, epochMembers>>

\* A bug variant: an epoch is replaced as soon as the set differs.
EpochDueAtOnce(st) == PlanningSet(st) # epochMembers

\* An epoch starts when the planning set differs from the one the current
\* epoch was started for and that epoch has dwelt long enough.
EpochDue(st) == PlanningSet(st) # epochMembers /\ sinceEpoch >= Dwell

\* A bug variant: a change that is not taken up yet restarts the dwell time.
TickSameEpochDebounced ==
  /\ ~EpochDue(Swept(storage))
  /\ storage' = Swept(storage)
  /\ sinceEpoch' = IF PlanningSet(storage') # epochMembers THEN 0 ELSE sinceEpoch
  /\ UNCHANGED <<epoch, epochMembers>>

TickSameEpoch ==
  /\ ~EpochDue(Swept(storage))
  /\ storage' = Swept(storage)
  /\ UNCHANGED <<epoch, sinceEpoch, epochMembers>>

TickNewEpoch ==
  /\ epoch < MaxEpoch
  /\ EpochDue(Swept(storage))
  /\ epoch' = epoch + 1
  /\ sinceEpoch' = 0
  /\ epochMembers' = PlanningSet(Swept(storage))
  /\ storage' = Reissued(Swept(storage), epoch + 1)

Tick == TickSameEpoch \/ TickNewEpoch

Elapse ==
  /\ storage' = Aged(storage)
  /\ sinceEpoch' = Lesser(sinceEpoch + 1, Dwell)
  /\ UNCHANGED <<epoch, epochMembers>>

Next ==
  \/ \E n \in Nodes : \E p \in Offers[n] : NodeAppeared(n, p)
  \/ \E n \in Nodes : \/ HeartbeatSucceeded(n)
                      \/ HeartbeatFailed(n)
                      \/ NodeAnnouncedDrain(n)
  \/ \E n \in Nodes, e \in HostEvents : Apply(n, e)
  \/ Tick
  \/ Elapse

Spec == Init /\ [][Next]_vars

\* The host calls tick every heartbeat interval, and time passes.
FairSpec == Spec /\ WF_vars(Tick) /\ WF_vars(Elapse)

-----------------------------------------------------------------------------
(* Properties.                                                             *)

TypeOK ==
  /\ IsStorage(storage)
  /\ epoch \in Nat
  /\ sinceEpoch \in 0..Dwell
  /\ epochMembers \subseteq Nodes

\* A lease naming a stale epoch must never authorise work in the current one
\* (reissueLeases): every node the planner may use holds a lease of the
\* current epoch, through joins, drains, evictions and rejoins in any order.
NoStaleAuthority ==
  \A n \in PlanningSet(storage) : storage[n].lease.epoch = epoch

\* A node is never promised more time than its OS can honour (issueLease),
\* whatever lease it held before and whatever it re-published since.
LeaseWithinOSLimit ==
  \A n \in PlanningSet(storage) :
    storage[n].lease.remaining <= Support[storage[n].profile.link]

\* A lease for required stages is held only by nodes that may hold one
\* (canHostRequiredStage): in particular never by an opportunistic node.
RequiredLeaseFitsState ==
  \A n \in PlanningSet(storage) :
    storage[n].lease.required => CanHostRequired(storage[n].state)

OnlyLeaves(r, after) ==
  r.state = "draining" => after.state \in {"draining", "suspended"}

StartsAfresh(r, after, e) ==
  r.state = "suspended" /\ Participates(after.state) =>
    /\ after.missed = 0
    /\ after.lease = IssueLease(after.profile, after.state, e)

AnswersAndHolds(r, e) ==
  /\ r.missed < MissLimit
  /\ r.lease.epoch = e
  /\ r.lease.remaining = Lesser(LeaseDuration, Support[r.profile.link])

DrainStep == \A n \in DOMAIN storage : OnlyLeaves(storage[n], storage'[n])

RejoinStep ==
  \A n \in DOMAIN storage : StartsAfresh(storage[n], storage'[n], epoch')

EpochStep ==
  epoch' # epoch => \A n \in epochMembers' : AnswersAndHolds(storage'[n], epoch')

\* A departing node is never rescued (NodeStateMachine.next, nodeAppeared):
\* from draining it can only be suspended, however often it is heard from.
DrainIsOneWay == [][DrainStep]_vars

\* A node that comes back from suspension starts afresh: full lease of the
\* epoch it rejoins in and no inherited misses, so that nothing it did before
\* can evict it again (nodeAppeared).
RejoinStartsAfresh == [][RejoinStep]_vars

\* Nobody the failure detector has given up on is carried into a new epoch:
\* its members are answering, and the lease each holds is one of this epoch
\* that has not run out (tick: evictions come before the epoch change).
EpochStartsClean == [][EpochStep]_vars

\* The service implements the versioned ring of RingEpochs.
Epochs == INSTANCE RingEpochs
            WITH usable <- PlanningSet(storage), age <- sinceEpoch,
                 members <- epochMembers

EpochsSpec == Epochs!Spec

\* However long membership flaps, a planning set that differs from the
\* epoch's members is eventually taken up by an epoch (tick), or the change is
\* undone, or the bound on epochs is reached: deferring never starves it.
ChangesAreTakenUp ==
  PlanningSet(storage) # epochMembers ~>
    (PlanningSet(storage) = epochMembers \/ epoch = MaxEpoch)
=============================================================================
