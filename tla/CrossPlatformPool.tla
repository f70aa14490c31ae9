-------------------------- MODULE CrossPlatformPool --------------------------
(***************************************************************************)
(* The hub of a pool of Windows, macOS, iOS and Android peers              *)
(* (CrossPlatformPool.swift): the membership service and the planner,      *)
(* with a seat per platform.  The host calls connect, the heartbeat        *)
(* reports, announceDrain, tick and planRAMPool in any order; every action *)
(* but Elapse is one of these calls.                                       *)
(*                                                                         *)
(* A device has one platform and one memory size; what it re-publishes     *)
(* when it connects again is whether it is short of power.  The messages   *)
(* the pool mirrors to a transport change nothing in it and are left out.  *)
(***************************************************************************)
EXTENDS Naturals, Sequences, StagePlanner

CONSTANTS
  IdOrder,        \* the devices, in the order of their identities
  Platform,       \* Platform[n]: the platform device n connects as
  Published,      \* Published[n]: its capability profile
  Usable,         \* Usable[n]: its usable memory
  Trusted,        \* the devices whose profile is trusted with a required stage
  Battery,        \* the devices that may be short of power
  Support, LeaseDuration, MissLimit, Dwell, MaxEpoch,   \* as in Membership
  Models,         \* the models a plan may be asked for
  StageDuration,  \* estimatedStageDuration
  Nil             \* nil

Nodes == Range(IdOrder)
Required == Range([i \in DOMAIN IdOrder |-> Platform[IdOrder[i]]])

ASSUME PoolAssumption ==
  /\ IdOrder \in Seq(Nodes)
  /\ IsInjective(IdOrder)
  /\ Usable \in [Nodes -> Nat]
  /\ Trusted \subseteq Nodes
  /\ Battery \subseteq Nodes
  /\ Models \subseteq Model
  /\ StageDuration \in Nat

VARIABLES
  storage, epoch, sinceEpoch, epochMembers,   \* membership
  duress,           \* devices whose last published profile is under duress
  platformByNode,
  nodeByPlatform,
  returned          \* what the last call returned to the host

membership == <<storage, epoch, sinceEpoch, epochMembers>>
seats == <<platformByNode, nodeByPlatform>>
vars == <<membership, duress, seats, returned>>

M == INSTANCE Membership
       WITH Offers <- [n \in Nodes |-> {Published[n]}], HostEvents <- {}

ASSUME PoolConfig ==
  /\ Published \in [Nodes -> M!Profile]
  /\ Support \in [M!Links -> Nat]
  /\ LeaseDuration \in Nat
  /\ MissLimit \in Nat
  /\ Dwell \in Nat
  /\ MaxEpoch \in Nat

Missing == Required \ DOMAIN nodeByPlatform

Without(f, S) == [x \in DOMAIN f \ S |-> f[x]]

Set(f, x, v) == [y \in DOMAIN f \cup {x} |-> IF y = x THEN v ELSE f[y]]

-----------------------------------------------------------------------------
(* connect.                                                                *)

\* The previous occupant of the seat, if it is another device.
Replaced(n) ==
  {nodeByPlatform[p] : p \in {Platform[n]} \cap DOMAIN nodeByPlatform} \ {n}

Drained(st, S) ==
  [m \in DOMAIN st |->
     IF m \in S THEN [st[m] EXCEPT !.state = M!NextState(@, "enteredBackground")]
                ELSE st[m]]

\* A bug variant: the seat changes hands and the old occupant stays usable.
ConnectBeside(n, short) ==
  /\ storage' = M!Appeared(storage, n, Published[n], epoch)
  /\ duress' = IF short THEN duress \cup {n} ELSE duress \ {n}
  /\ platformByNode' = Set(platformByNode, n, Platform[n])
  /\ nodeByPlatform' = Set(nodeByPlatform, Platform[n], n)
  /\ returned' = [connected |-> n]
  /\ UNCHANGED <<epoch, sinceEpoch, epochMembers>>

Connect(n, short) ==
  LET present == \E p \in DOMAIN nodeByPlatform :
                   p = Platform[n] /\ nodeByPlatform[p] = n
  IN  /\ storage' = M!Appeared(Drained(storage, Replaced(n)), n, Published[n],
                               epoch)
      /\ duress' = IF short THEN duress \cup {n} ELSE duress \ {n}
      /\ IF present
           THEN UNCHANGED seats
           ELSE /\ platformByNode' =
                     Set(Without(platformByNode, Replaced(n)), n, Platform[n])
                /\ nodeByPlatform' = Set(nodeByPlatform, Platform[n], n)
      /\ returned' = IF present THEN Nil ELSE [connected |-> n]
      /\ UNCHANGED <<epoch, sinceEpoch, epochMembers>>

-----------------------------------------------------------------------------
(* The reports, which are passed on to the membership service.             *)

Reported == UNCHANGED <<duress, seats>> /\ returned' = Nil

HeartbeatSucceeded(n) == M!HeartbeatSucceeded(n) /\ Reported

HeartbeatFailed(n) == M!HeartbeatFailed(n) /\ Reported

AnnounceDrain(n) == M!NodeAnnouncedDrain(n) /\ Reported

-----------------------------------------------------------------------------
(* tick gives up the seats of the evicted.                                 *)

\* A bug variant: the seat is looked up by device only.
VacateByNodeOnly ==
  /\ platformByNode' = Without(platformByNode, M!Evicted(storage))
  /\ UNCHANGED nodeByPlatform

Vacate ==
  LET gone == M!Evicted(storage) \cap DOMAIN platformByNode
  IN  /\ platformByNode' = Without(platformByNode, gone)
      /\ nodeByPlatform' =
           Without(nodeByPlatform,
                   {p \in DOMAIN nodeByPlatform :
                      \E n \in gone : platformByNode[n] = p
                                      /\ nodeByPlatform[p] = n})

\* The membership change is there, and waits for the dwell time.
Deferred ==
  /\ M!PlanningSet(M!Swept(storage)) # epochMembers
  /\ sinceEpoch < Dwell

Tick ==
  /\ M!Tick
  /\ Vacate
  /\ returned' = Nil
  /\ UNCHANGED duress

-----------------------------------------------------------------------------
(* planRAMPool.                                                            *)

\* A bug variant: the lease need not outlast the stage.
MayHoldUnleased(st, n) ==
  M!CanHostRequired(st[n].state) /\ n \notin duress

\* eligibleMembers.
MayHold(st, n) ==
  /\ M!CanHostRequired(st[n].state)
  /\ Published[n].declares
  /\ n \in Trusted
  /\ n \notin duress
  /\ M!CanHost(st[n].lease, StageDuration)

Position(n) == CHOOSE i \in DOMAIN IdOrder : IdOrder[i] = n

\* The devices of S in the order of their identities.
Sorted(S) ==
  CHOOSE s \in [1..Cardinality(S) -> S] :
    \A i, j \in DOMAIN s : i < j => Position(s[i]) < Position(s[j])

Eligible(st) == Sorted({n \in M!PlanningSet(st) : MayHold(st, n)})

AssignedPlatforms(plan, seated) ==
  {seated[n] : n \in DOMAIN seated \cap
                     {plan.assignments[i].node : i \in DOMAIN plan.assignments}}

\* lift is how the planner's division was rounded.
Pooled(m, st, e, seated, lift) ==
  LET plan == Planned(m, Eligible(st), Usable, e, lift)
  IN  IF M!PlanningSet(st) = {} THEN Nil
      ELSE IF plan.outcome # "plan" THEN plan
      ELSE IF AssignedPlatforms(plan, seated) # Required THEN Nil
      ELSE plan

\* A bug variant: a deferred change does not hold the plan back.
PlanRAMPoolAnyway(m) ==
  /\ Missing = {}
  /\ M!Tick
  /\ Vacate
  /\ \E lift \in Roundings(Capacities(m, Eligible(storage'), Usable)) :
       returned' = IF Missing' # {} THEN Nil
                   ELSE Pooled(m, storage', epoch', platformByNode', lift)
  /\ UNCHANGED duress

PlanRAMPool(m) ==
  \/ /\ Missing # {}
     /\ returned' = Nil
     /\ UNCHANGED <<membership, duress, seats>>
  \/ /\ Missing = {}
     /\ M!Tick
     /\ Vacate
     /\ \E lift \in Roundings(Capacities(m, Eligible(storage'), Usable)) :
          returned' = IF Deferred \/ Missing' # {} THEN Nil
                      ELSE Pooled(m, storage', epoch', platformByNode', lift)
     /\ UNCHANGED duress

Elapse ==
  /\ M!Elapse
  /\ returned' = Nil
  /\ UNCHANGED <<duress, seats>>

-----------------------------------------------------------------------------
Init ==
  /\ M!Init
  /\ duress = {}
  /\ platformByNode = [n \in {} |-> n]
  /\ nodeByPlatform = [p \in {} |-> p]
  /\ returned = Nil

Next ==
  \/ \E n \in Battery : Connect(n, TRUE)
  \/ \E n \in Nodes : \/ Connect(n, FALSE)
                      \/ HeartbeatSucceeded(n)
                      \/ HeartbeatFailed(n)
                      \/ AnnounceDrain(n)
  \/ Tick
  \/ \E m \in Models : PlanRAMPool(m)
  \/ Elapse

Spec == Init /\ [][Next]_vars

-----------------------------------------------------------------------------
Plans == IF returned = Nil \/ "outcome" \notin DOMAIN returned THEN {}
         ELSE {returned} \cap {r \in {returned} : r.outcome = "plan"}

TypeOK ==
  /\ M!TypeOK
  /\ duress \subseteq Nodes
  /\ platformByNode \in [DOMAIN platformByNode -> Required]
  /\ DOMAIN platformByNode \subseteq Nodes
  /\ nodeByPlatform \in [DOMAIN nodeByPlatform -> Nodes]
  /\ DOMAIN nodeByPlatform \subseteq Required

\* The seats and the membership service agree, through replacements, drains,
\* evictions and reconnects: a seat is held by a device that is not suspended
\* and knows the seat, and a device the planner may use holds the seat of its
\* platform, so that no platform is pooled twice (connect, tick).
SeatsMatchMembership ==
  /\ \A p \in DOMAIN nodeByPlatform :
       LET n == nodeByPlatform[p]
       IN  /\ n \in DOMAIN storage /\ storage[n].state # "suspended"
           /\ n \in DOMAIN platformByNode /\ platformByNode[n] = p
  /\ \A n \in M!PlanningSet(storage) :
       Platform[n] \in DOMAIN nodeByPlatform /\ nodeByPlatform[Platform[n]] = n

\* A plan is never handed out for a membership its epoch was not started for
\* (planRAMPool): it names the current epoch, and who is in it was a member
\* when the epoch began.
PlanIsForItsEpoch ==
  \A plan \in Plans :
    /\ plan.epoch = epoch
    /\ M!PlanningSet(storage) = epochMembers
    /\ \A i \in DOMAIN plan.assignments : plan.assignments[i].node \in epochMembers

\* A pooled plan can be carried out: it covers the model, every platform holds
\* a part of it that its memory can take and is not a layer beyond its share,
\* and it is trusted and powered, with a lease that outlasts the stage.
PlanCanBeCarriedOut ==
  \A plan \in Plans :
    /\ CoversModel(plan)
    /\ FitsEveryNode(plan, Usable)
    /\ WithinEntitlement(plan, Usable)
    /\ {Platform[plan.assignments[i].node] : i \in DOMAIN plan.assignments} = Required
    /\ \A i \in DOMAIN plan.assignments :
         LET n == plan.assignments[i].node
         IN  /\ n \in Trusted /\ n \notin duress
             /\ storage[n].lease.remaining > StageDuration

\* peerConnected implies planning membership (connect).
PeerConnectedIsPlanned ==
  returned # Nil /\ "connected" \in DOMAIN returned =>
    returned.connected \in M!PlanningSet(storage)

\* The pool is a versioned ring, as the membership service is.
Epochs == INSTANCE RingEpochs
            WITH usable <- M!PlanningSet(storage), age <- sinceEpoch,
                 members <- epochMembers
=============================================================================
