----------------------- MODULE CrossPlatformPoolProofs -----------------------
(***************************************************************************)
(* The pool, for any devices, platforms and limits: types, seats that      *)
(* agree with the membership, plans that are for the current epoch and can *)
(* be carried out, leases that keep the promises of the membership         *)
(* service, and the abstract epochs.                                       *)
(*                                                                         *)
(* The invariant of the seats adds what the property leaves implicit:      *)
(* every record has a state, and a device is only ever entered under its   *)
(* own platform, so that a device that takes a seat and one that loses it  *)
(* are the only ones a call of connect touches.  The planner's part in a   *)
(* plan is PlanIsSound of StagePlannerProofs.  Leases and epochs rest on   *)
(* the lemmas about the operators of the service in MembershipProofs:      *)
(* connect makes several of its calls in one step.                         *)
(***************************************************************************)
EXTENDS CrossPlatformPool, StagePlannerProofs

HasState(r) == "state" \in DOMAIN r /\ r.state \in M!NodeStates

States(st) == \A n \in DOMAIN st : HasState(st[n])

-----------------------------------------------------------------------------
(* What the calls of the membership service do to the states.              *)

\* The same devices in the same states.
Same(st, after) ==
  /\ DOMAIN after = DOMAIN st
  /\ \A n \in DOMAIN st : HasState(after[n]) /\ after[n].state = st[n].state

\* A record that is put in place of one with the same state changes no state.
LEMMA PutSame ==
  ASSUME NEW st, NEW n \in DOMAIN st, NEW r, States(st), HasState(r),
         r.state = st[n].state
  PROVE  Same(st, M!Put(st, n, r))
  BY DEF M!Put, Same, States

\* A heartbeat that was answered changes no state.
LEMMA HeardSame ==
  ASSUME NEW st, NEW n, NEW e, States(st)
  PROVE  Same(st, M!Heard(st, n, e))
<1>1. CASE n \notin DOMAIN st
  BY <1>1 DEF M!Heard, Same, States
<1>2. CASE n \in DOMAIN st
  <2> DEFINE r == [st[n] EXCEPT !.missed = 0,
                     !.lease = IF M!Participates(st[n].state)
                                 THEN M!IssueLease(st[n].profile, st[n].state, e)
                                 ELSE @]
  <2>1. HasState(r) /\ r.state = st[n].state
    BY <1>2 DEF States, HasState
  <2>2. M!Heard(st, n, e) = M!Put(st, n, r)
    BY <1>2 DEF M!Heard
  <2> HIDE DEF r
  <2>3. QED
    BY <1>2, <2>1, <2>2, PutSame
<1>3. QED
  BY <1>1, <1>2

\* Nor does one that was missed.
LEMMA MissedSame ==
  ASSUME NEW st, NEW n, States(st)
  PROVE  Same(st, M!Missed(st, n))
<1>1. CASE n \notin DOMAIN st
  BY <1>1 DEF M!Missed, Same, States
<1>2. CASE n \in DOMAIN st
  <2> DEFINE r == [st[n] EXCEPT !.missed = M!Lesser(@ + 1, MissLimit)]
  <2>1. HasState(r) /\ r.state = st[n].state
    BY <1>2 DEF States, HasState
  <2>2. M!Missed(st, n) = M!Put(st, n, r)
    BY <1>2 DEF M!Missed
  <2> HIDE DEF r
  <2>3. QED
    BY <1>2, <2>1, <2>2, PutSame
<1>3. QED
  BY <1>1, <1>2

\* Nor does the time that passes.
LEMMA AgedSame ==
  ASSUME NEW st, States(st)
  PROVE  Same(st, M!Aged(st))
  BY DEF M!Aged, Same, States, HasState

\* Nor does a new epoch, which only issues the leases again.
LEMMA ReissuedSame ==
  ASSUME NEW st, NEW e, States(st)
  PROVE  Same(st, M!Reissued(st, e))
  BY DEF M!Reissued, Same, States, HasState

\* The state a device is in once it left the foreground.
Background(s) == M!NextState(s, "enteredBackground")

\* Leaving the foreground takes a device out of the planning set, and suspends
\* nobody.
LEMMA BackgroundState ==
  ASSUME NEW s \in M!NodeStates
  PROVE  /\ Background(s) \in M!NodeStates
         /\ ~M!Participates(Background(s))
         /\ s # "suspended" => Background(s) # "suspended"
  BY DEF Background, M!NodeStates, M!NextState, M!Participates

\* The devices of S leave the foreground, the others stay as they are.
Drains(st, after, S) ==
  /\ DOMAIN after = DOMAIN st
  /\ \A n \in DOMAIN st :
       /\ HasState(after[n])
       /\ after[n].state = IF n \in S THEN Background(st[n].state) ELSE st[n].state

\* The calls of connect drain exactly the devices that are displaced.
LEMMA DrainedDrains ==
  ASSUME NEW st, NEW S, States(st)
  PROVE  Drains(st, Drained(st, S), S)
<1>1. DOMAIN Drained(st, S) = DOMAIN st
  BY DEF Drained
<1>2. ASSUME NEW n \in DOMAIN st
      PROVE  /\ HasState(Drained(st, S)[n])
             /\ Drained(st, S)[n].state =
                  IF n \in S THEN Background(st[n].state) ELSE st[n].state
  <2>1. HasState(st[n])
    BY DEF States
  <2>2. Background(st[n].state) \in M!NodeStates
    BY <2>1, BackgroundState DEF HasState
  <2>3. CASE n \in S
    <3>1. Drained(st, S)[n] = [st[n] EXCEPT !.state = Background(st[n].state)]
      BY <2>3 DEF Drained, Background
    <3>2. QED
      BY <2>1, <2>2, <2>3, <3>1 DEF HasState
  <2>4. CASE n \notin S
    BY <2>1, <2>4 DEF Drained
  <2>5. QED
    BY <2>3, <2>4
<1>3. QED
  BY <1>1, <1>2 DEF Drains

\* An announced drain drains exactly the device it names.
LEMMA MovedDrains ==
  ASSUME NEW st, NEW n, States(st)
  PROVE  Drains(st, M!Moved(st, n, "enteredBackground"), {n})
<1>1. CASE n \notin DOMAIN st
  BY <1>1 DEF M!Moved, Drains, States
<1>2. CASE n \in DOMAIN st
  <2> DEFINE r == [st[n] EXCEPT !.state = M!NextState(@, "enteredBackground")]
  <2>1. HasState(st[n]) /\ Background(st[n].state) \in M!NodeStates
    BY <1>2, BackgroundState DEF States, HasState
  <2>2. HasState(r) /\ r.state = Background(st[n].state)
    BY <2>1 DEF HasState, Background
  <2>3. M!Moved(st, n, "enteredBackground") = M!Put(st, n, r)
    BY <1>2 DEF M!Moved
  <2> HIDE DEF r
  <2>4. QED
    BY <1>2, <2>2, <2>3 DEF M!Put, Drains, States
<1>3. QED
  BY <1>1, <1>2

\* A device that appears is known and not suspended afterwards.
Appears(st, after, n) ==
  /\ DOMAIN after = DOMAIN st \cup {n}
  /\ HasState(after[n]) /\ after[n].state # "suspended"
  /\ \A m \in DOMAIN st \ {n} : after[m] = st[m]

\* nodeAppeared touches only the device that appears, and revives it.
LEMMA AppearedAppears ==
  ASSUME NEW st, NEW n, NEW p, NEW e, States(st)
  PROVE  Appears(st, M!Appeared(st, n, p, e), n)
<1>1. M!InitialState(p) \in M!NodeStates \ {"suspended"}
  BY DEF M!InitialState, M!NodeStates
<1>2. M!NextState("suspended", M!JoinEvent(p)) \in M!NodeStates \ {"suspended"}
  BY DEF M!JoinEvent, M!NextState, M!NodeStates
<1>3. \E r : /\ M!Appeared(st, n, p, e) = M!Put(st, n, r)
             /\ HasState(r) /\ r.state # "suspended"
  <2>1. CASE n \notin DOMAIN st
    <3> WITNESS M!Joined(p, M!InitialState(p), e)
    <3>1. QED
      BY <1>1, <2>1 DEF M!Appeared, M!Joined, HasState
  <2>2. CASE n \in DOMAIN st /\ st[n].state = "suspended"
    <3> WITNESS M!Joined(p, M!NextState("suspended", M!JoinEvent(p)), e)
    <3>1. QED
      BY <1>2, <2>2 DEF M!Appeared, M!Joined, HasState
  <2>3. CASE n \in DOMAIN st /\ st[n].state # "suspended"
    <3> WITNESS [st[n] EXCEPT !.profile = p, !.missed = 0]
    <3>1. QED
      BY <2>3 DEF M!Appeared, HasState, States
  <2>4. QED
    BY <2>1, <2>2, <2>3
<1>4. QED
  BY <1>3 DEF M!Put, Appears

\* tick suspends whom it evicts and leaves the others.
LEMMA SweptState ==
  ASSUME NEW st, States(st)
  PROVE  /\ DOMAIN M!Swept(st) = DOMAIN st
         /\ \A n \in DOMAIN st :
              /\ HasState(M!Swept(st)[n])
              /\ M!Swept(st)[n].state =
                   IF n \in M!Evicted(st) THEN "suspended" ELSE st[n].state
<1>1. ASSUME NEW n \in DOMAIN st, n \in M!Evicted(st)
      PROVE  M!NextState(st[n].state, M!Verdict(st[n])) = "suspended"
  BY <1>1 DEF M!Evicted, M!Verdict, M!NextState, M!Participates
<1>2. "suspended" \in M!NodeStates
  BY DEF M!NodeStates
<1>3. QED
  BY <1>1, <1>2 DEF M!Swept, States, HasState

-----------------------------------------------------------------------------
(* The invariant.                                                          *)

\* A seated device is known to the membership service and not suspended.
SeatsAreHeld ==
  \A p \in DOMAIN nodeByPlatform :
    LET n == nodeByPlatform[p]
    IN  /\ n \in DOMAIN storage /\ storage[n].state # "suspended"
        /\ n \in DOMAIN platformByNode /\ platformByNode[n] = p

\* A device of the planning set has its seat.
PlannedAreSeated ==
  \A n \in M!PlanningSet(storage) :
    Platform[n] \in DOMAIN nodeByPlatform /\ nodeByPlatform[Platform[n]] = n

PoolInv ==
  /\ States(storage)
  /\ \A n \in DOMAIN platformByNode : platformByNode[n] = Platform[n]
  /\ SeatsAreHeld
  /\ PlannedAreSeated

\* The invariant says what the property says.
LEMMA PoolInvImplies == PoolInv => SeatsMatchMembership
  BY DEF PoolInv, SeatsAreHeld, PlannedAreSeated, SeatsMatchMembership

\* A call that leaves the seats and suspends or revives nobody.
LEMMA StatesKeep ==
  ASSUME PoolInv, UNCHANGED seats, DOMAIN storage' = DOMAIN storage,
         \A n \in DOMAIN storage :
           /\ HasState(storage'[n])
           /\ storage[n].state # "suspended" => storage'[n].state # "suspended"
           /\ M!Participates(storage'[n].state) => M!Participates(storage[n].state)
  PROVE  PoolInv'
<1>1. States(storage)' /\ M!PlanningSet(storage)' \subseteq M!PlanningSet(storage)
  BY DEF States, M!PlanningSet
<1>2. SeatsAreHeld'
  BY DEF PoolInv, SeatsAreHeld, seats
<1>3. PlannedAreSeated'
  BY <1>1 DEF PoolInv, PlannedAreSeated, seats
<1>4. QED
  BY <1>1, <1>2, <1>3 DEF PoolInv, seats

\* A call that leaves the seats and all states keeps the invariant.
LEMMA SameKeeps ==
  ASSUME PoolInv, UNCHANGED seats, Same(storage, storage')
  PROVE  PoolInv'
  BY StatesKeep DEF Same

\* So does one that leaves the seats and drains some devices.
LEMMA DrainsKeep ==
  ASSUME PoolInv, UNCHANGED seats, NEW S, Drains(storage, storage', S)
  PROVE  PoolInv'
<1>1. ASSUME NEW n \in DOMAIN storage
      PROVE  /\ HasState(storage'[n])
             /\ storage[n].state # "suspended" => storage'[n].state # "suspended"
             /\ M!Participates(storage'[n].state) => M!Participates(storage[n].state)
  <2>1. storage[n].state \in M!NodeStates
    BY DEF PoolInv, States, HasState
  <2>2. QED
    BY <2>1, BackgroundState DEF Drains
<1>2. QED
  BY <1>1, StatesKeep DEF Drains

\* connect: the seat of the device's platform changes hands at most, and the
\* one who held it leaves the planning set in the same call.
LEMMA ConnectKeeps ==
  ASSUME PoolInv, NEW n \in Nodes, NEW short \in BOOLEAN, Connect(n, short)
  PROVE  PoolInv'
<1> DEFINE old == Replaced(n)
           present == \E p \in DOMAIN nodeByPlatform :
                        p = Platform[n] /\ nodeByPlatform[p] = n
<1>1. PICK st : /\ Drains(storage, st, old) /\ States(st)
                /\ storage' = M!Appeared(st, n, Published[n], epoch)
  BY DrainedDrains DEF Connect, PoolInv, Drains, States
<1>2. /\ present => UNCHANGED seats
      /\ ~present => /\ platformByNode' = Set(Without(platformByNode, old), n, Platform[n])
                     /\ nodeByPlatform' = Set(nodeByPlatform, Platform[n], n)
  BY DEF Connect, seats
<1>3. /\ n \notin old
      /\ \A m : m \in old <=> /\ m # n /\ Platform[n] \in DOMAIN nodeByPlatform
                              /\ m = nodeByPlatform[Platform[n]]
  <2>1. old = {nodeByPlatform[p] : p \in {Platform[n]} \cap DOMAIN nodeByPlatform} \ {n}
    BY DEF Replaced
  <2> HIDE DEF old
  <2>2. QED
    BY ONLY <2>1
<1> HIDE DEF old
<1>4. /\ DOMAIN storage' = DOMAIN storage \cup {n}
      /\ HasState(storage'[n]) /\ storage'[n].state # "suspended"
      /\ \A m \in DOMAIN storage \ {n} :
           /\ HasState(storage'[m])
           /\ storage'[m].state = IF m \in old THEN Background(storage[m].state)
                                               ELSE storage[m].state
  <2>1. Appears(st, storage', n)
    BY <1>1, AppearedAppears
  <2>2. QED
    BY <1>1, <2>1 DEF Drains, Appears
<1>5. States(storage)'
  BY <1>4 DEF States
<1>6. ASSUME NEW m \in DOMAIN storage
      PROVE  storage[m].state \in M!NodeStates
  BY DEF PoolInv, States, HasState
<1>7. \* Nobody else comes into the planning set, and the replaced leaves it.
      \A m \in M!PlanningSet(storage)' \ {n} :
        m \in M!PlanningSet(storage) /\ m \notin old
  BY <1>4, <1>6, BackgroundState DEF M!PlanningSet
<1>8. CASE present
  <2>1. UNCHANGED seats /\ old = {}
    BY <1>2, <1>3, <1>8
  <2>2. SeatsAreHeld'
    BY <1>4, <2>1 DEF PoolInv, SeatsAreHeld, seats
  <2>3. PlannedAreSeated'
    BY <1>7, <1>8, <2>1 DEF PoolInv, PlannedAreSeated, seats
  <2>4. QED
    BY <1>5, <2>1, <2>2, <2>3 DEF PoolInv, seats
<1>9. CASE ~present
  <2> HIDE DEF present
  <2>1. /\ DOMAIN nodeByPlatform' = DOMAIN nodeByPlatform \cup {Platform[n]}
        /\ nodeByPlatform'[Platform[n]] = n
        /\ \A p \in DOMAIN nodeByPlatform \ {Platform[n]} :
             nodeByPlatform'[p] = nodeByPlatform[p]
    BY <1>2, <1>9 DEF Set
  <2>2. /\ DOMAIN platformByNode' = (DOMAIN platformByNode \ old) \cup {n}
        /\ platformByNode'[n] = Platform[n]
        /\ \A m \in (DOMAIN platformByNode \ old) \ {n} :
             platformByNode'[m] = platformByNode[m]
    BY <1>2, <1>9 DEF Set, Without
  <2>3. \A m \in DOMAIN platformByNode' : platformByNode'[m] = Platform[m]
    BY <2>2 DEF PoolInv
  <2>4. SeatsAreHeld'
    <3> SUFFICES ASSUME NEW p \in DOMAIN nodeByPlatform'
                 PROVE  LET m == nodeByPlatform'[p]
                        IN  /\ m \in DOMAIN storage' /\ storage'[m].state # "suspended"
                            /\ m \in DOMAIN platformByNode' /\ platformByNode'[m] = p
      BY DEF SeatsAreHeld
    <3>1. CASE p = Platform[n]
      BY <1>4, <2>1, <2>2, <3>1
    <3>2. CASE p # Platform[n]
      <4> DEFINE m == nodeByPlatform[p]
      <4>1. p \in DOMAIN nodeByPlatform /\ nodeByPlatform'[p] = m
        BY <2>1, <3>2
      <4>2. /\ m \in DOMAIN storage /\ storage[m].state # "suspended"
            /\ m \in DOMAIN platformByNode /\ platformByNode[m] = p
        BY <4>1 DEF PoolInv, SeatsAreHeld
      <4>3. Platform[m] = p /\ m # n
        BY <3>2, <4>2 DEF PoolInv
      <4> HIDE DEF m
      <4>4. m \notin old
        <5>1. SUFFICES ASSUME m \in old PROVE FALSE
          OBVIOUS
        <5>2. Platform[n] \in DOMAIN nodeByPlatform /\ m = nodeByPlatform[Platform[n]]
          BY <1>3, <5>1
        <5>3. platformByNode[m] = Platform[n]
          BY <5>2 DEF PoolInv, SeatsAreHeld
        <5>4. QED
          BY <3>2, <4>2, <5>3
      <4>5. QED
        BY <1>4, <2>2, <4>1, <4>2, <4>3, <4>4
    <3>3. QED
      BY <3>1, <3>2
  <2>5. PlannedAreSeated'
    <3> SUFFICES ASSUME NEW m \in M!PlanningSet(storage)'
                 PROVE  /\ Platform[m] \in DOMAIN nodeByPlatform'
                        /\ nodeByPlatform'[Platform[m]] = m
      BY DEF PlannedAreSeated
    <3>1. CASE m = n
      BY <2>1, <3>1
    <3>2. CASE m # n
      <4>1. m \in M!PlanningSet(storage) /\ m \notin old
        BY <1>7, <3>2
      <4>2. Platform[m] \in DOMAIN nodeByPlatform /\ nodeByPlatform[Platform[m]] = m
        BY <4>1 DEF PoolInv, PlannedAreSeated
      <4>3. Platform[m] # Platform[n]
        BY <1>3, <3>2, <4>1, <4>2
      <4>4. QED
        BY <2>1, <4>2, <4>3
    <3>3. QED
      BY <3>1, <3>2
  <2>6. QED
    BY <1>5, <2>3, <2>4, <2>5 DEF PoolInv
<1>10. QED
  BY <1>8, <1>9

\* tick: who is evicted and seated gives up the seat.
LEMMA TickKeeps ==
  ASSUME PoolInv, M!Tick, Vacate
  PROVE  PoolInv'
<1> DEFINE gone == M!Evicted(storage) \cap DOMAIN platformByNode
           free == {p \in DOMAIN nodeByPlatform :
                      \E n \in gone : platformByNode[n] = p /\ nodeByPlatform[p] = n}
<1>1. /\ DOMAIN storage' = DOMAIN storage
      /\ \A n \in DOMAIN storage :
           /\ HasState(storage'[n])
           /\ storage'[n].state = IF n \in M!Evicted(storage) THEN "suspended"
                                                              ELSE storage[n].state
  <2>1. /\ DOMAIN M!Swept(storage) = DOMAIN storage
        /\ States(M!Swept(storage))
        /\ \A n \in DOMAIN storage :
             M!Swept(storage)[n].state = IF n \in M!Evicted(storage)
                                           THEN "suspended" ELSE storage[n].state
    BY SweptState DEF PoolInv, States
  <2>2. CASE storage' = M!Swept(storage)
    BY <2>1, <2>2 DEF States
  <2>3. CASE storage' = M!Reissued(M!Swept(storage), epoch + 1)
    <3>1. Same(M!Swept(storage), storage')
      BY <2>1, <2>3, ReissuedSame
    <3>2. QED
      BY <2>1, <3>1 DEF Same
  <2>4. QED
    BY <2>2, <2>3 DEF M!Tick, M!TickSameEpoch, M!TickNewEpoch
<1>2. /\ platformByNode' = Without(platformByNode, gone)
      /\ nodeByPlatform' = Without(nodeByPlatform, free)
  BY DEF Vacate
<1>3. \A p \in DOMAIN nodeByPlatform :
        p \in free <=> nodeByPlatform[p] \in M!Evicted(storage)
  BY DEF PoolInv, SeatsAreHeld
<1> HIDE DEF free, gone
<1>4. /\ DOMAIN nodeByPlatform' = DOMAIN nodeByPlatform \ free
      /\ \A p \in DOMAIN nodeByPlatform \ free : nodeByPlatform'[p] = nodeByPlatform[p]
      /\ DOMAIN platformByNode' = DOMAIN platformByNode \ gone
      /\ \A n \in DOMAIN platformByNode \ gone : platformByNode'[n] = platformByNode[n]
  BY <1>2 DEF Without
<1>5. States(storage)'
  BY <1>1 DEF States
<1>6. SeatsAreHeld'
  <2> SUFFICES ASSUME NEW p \in DOMAIN nodeByPlatform'
               PROVE  LET n == nodeByPlatform'[p]
                      IN  /\ n \in DOMAIN storage' /\ storage'[n].state # "suspended"
                          /\ n \in DOMAIN platformByNode' /\ platformByNode'[n] = p
    BY DEF SeatsAreHeld
  <2> DEFINE n == nodeByPlatform[p]
  <2>1. p \in DOMAIN nodeByPlatform /\ nodeByPlatform'[p] = n /\ n \notin M!Evicted(storage)
    BY <1>3, <1>4
  <2>2. /\ n \in DOMAIN storage /\ storage[n].state # "suspended"
        /\ n \in DOMAIN platformByNode /\ platformByNode[n] = p
    BY <2>1 DEF PoolInv, SeatsAreHeld
  <2>3. n \notin gone
    BY <2>1 DEF gone
  <2> HIDE DEF n
  <2>4. QED
    BY <1>1, <1>4, <2>1, <2>2, <2>3
<1>7. PlannedAreSeated'
  <2> SUFFICES ASSUME NEW n \in M!PlanningSet(storage)'
               PROVE  /\ Platform[n] \in DOMAIN nodeByPlatform'
                      /\ nodeByPlatform'[Platform[n]] = n
    BY DEF PlannedAreSeated
  <2>1. n \in M!PlanningSet(storage) /\ n \notin M!Evicted(storage)
    BY <1>1 DEF M!PlanningSet, M!Participates
  <2>2. Platform[n] \in DOMAIN nodeByPlatform /\ nodeByPlatform[Platform[n]] = n
    BY <2>1 DEF PoolInv, PlannedAreSeated
  <2>3. QED
    BY <1>3, <1>4, <2>1, <2>2
<1>8. QED
  BY <1>4, <1>5, <1>6, <1>7 DEF PoolInv

\* The invariant of the seats holds of every run of the pool.
LEMMA PoolInvariant == Spec => []PoolInv
<1>1. Init => PoolInv
  BY DEF Init, M!Init, PoolInv, States, SeatsAreHeld, PlannedAreSeated, M!PlanningSet
<1>2. PoolInv /\ [Next]_vars => PoolInv'
  <2> SUFFICES ASSUME PoolInv, [Next]_vars
               PROVE  PoolInv'
    OBVIOUS
  <2>a. States(storage)
    BY DEF PoolInv
  <2>1. CASE UNCHANGED <<storage, seats>>
    BY <2>1, <2>a DEF PoolInv, SeatsAreHeld, PlannedAreSeated, M!PlanningSet, seats,
                      States
  <2>2. CASE \E n \in Battery : Connect(n, TRUE)
    BY <2>2, ConnectKeeps, PoolAssumption DEF PoolAssumption
  <2>3. CASE \E n \in Nodes : Connect(n, FALSE)
    BY <2>3, ConnectKeeps
  <2>4. CASE \E n \in Nodes : HeartbeatSucceeded(n) \/ HeartbeatFailed(n)
    <3>1. UNCHANGED seats /\ Same(storage, storage')
      BY <2>a, <2>4, HeardSame, MissedSame
      DEF HeartbeatSucceeded, HeartbeatFailed, M!HeartbeatSucceeded,
          M!HeartbeatFailed, Reported
    <3>2. QED
      BY <3>1, SameKeeps
  <2>5. CASE \E n \in Nodes : AnnounceDrain(n)
    <3>1. PICK n \in Nodes : AnnounceDrain(n)
      BY <2>5
    <3>2. UNCHANGED seats /\ Drains(storage, storage', {n})
      BY <2>a, <3>1, MovedDrains DEF AnnounceDrain, M!NodeAnnouncedDrain, Reported
    <3>3. QED
      BY <3>2, DrainsKeep
  <2>6. CASE Tick
    BY <2>6, TickKeeps DEF Tick
  <2>7. CASE \E m \in Models : PlanRAMPool(m)
    <3>1. PICK m \in Models : PlanRAMPool(m)
      BY <2>7
    <3>2. CASE Missing # {}
      BY <2>1, <3>1, <3>2 DEF PlanRAMPool, membership
    <3>3. CASE Missing = {}
      BY <3>1, <3>3, TickKeeps DEF PlanRAMPool
    <3>4. QED
      BY <3>2, <3>3
  <2>8. CASE Elapse
    BY <2>8, <2>a, AgedSame, SameKeeps DEF Elapse, M!Elapse
  <2>9. CASE UNCHANGED vars
    BY <2>1, <2>9 DEF vars, membership
  <2>10. QED
    BY <2>2, <2>3, <2>4, <2>5, <2>6, <2>7, <2>8, <2>9 DEF Next
<1>3. QED
  BY <1>1, <1>2, PTL DEF Spec

\* Seats and membership agree: a seat is held by a device that is not suspended,
\* and a device the planner may use holds the seat of its platform, for any
\* number of devices that compete for any number of platforms.
THEOREM SeatsMatchMembershipHolds == Spec => []SeatsMatchMembership
  BY PoolInvariant, PoolInvImplies, PTL

-----------------------------------------------------------------------------
(* Types.  The membership service's own lemmas, for this host's constants. *)

MP == INSTANCE MembershipProofs
        WITH Offers <- [n \in Nodes |-> {Published[n]}], HostEvents <- {}

\* The constants of the pool are what the service assumes of its own.
LEMMA ServiceAssumption == MP!MembershipAssumption
  BY PoolConfig
  DEF PoolConfig, MP!MembershipAssumption, MP!Profile, MP!Links, MP!Connectivity,
      MP!NodeEvents, M!Profile, M!Links, M!Connectivity

\* The operators of the two copies of Membership are the same.
LEMMA SameStorageOperators ==
  /\ \A st : MP!IsStorage(st) <=> M!IsStorage(st)
  /\ \A st, n, e : MP!Heard(st, n, e) = M!Heard(st, n, e)
  /\ \A st, n : MP!Missed(st, n) = M!Missed(st, n)
  /\ \A st, n, e : MP!Moved(st, n, e) = M!Moved(st, n, e)
  /\ \A st : MP!Swept(st) = M!Swept(st)
  /\ \A st, e : MP!Reissued(st, e) = M!Reissued(st, e)
  /\ \A st : MP!Aged(st) = M!Aged(st)
  /\ \A st, n, p, e : MP!Appeared(st, n, p, e) = M!Appeared(st, n, p, e)
<1>1. \A s : MP!Participates(s) = M!Participates(s)
  BY DEF MP!Participates, M!Participates
<1>2. \A s, e : MP!NextState(s, e) = M!NextState(s, e)
  BY <1>1 DEF MP!NextState, M!NextState
<1>3. \A p, s, e : MP!IssueLease(p, s, e) = M!IssueLease(p, s, e)
  BY DEF MP!IssueLease, M!IssueLease, MP!CanHostRequired, M!CanHostRequired,
         MP!Lesser, M!Lesser
<1>4. \A st, n, r : MP!Put(st, n, r) = M!Put(st, n, r)
  BY DEF MP!Put, M!Put
<1>5. \A r : MP!Verdict(r) = M!Verdict(r)
  BY <1>1 DEF MP!Verdict, M!Verdict, MP!IsValid, M!IsValid
<1>6. \A st : MP!IsStorage(st) <=> M!IsStorage(st)
  BY DEF MP!IsStorage, M!IsStorage, MP!MemberRecord, M!MemberRecord,
         MP!NodeStates, M!NodeStates, MP!Profile, M!Profile, MP!Links, M!Links,
         MP!Connectivity, M!Connectivity, MP!Lease, M!Lease
<1>7. \A st, n, e : MP!Heard(st, n, e) = M!Heard(st, n, e)
  BY <1>1, <1>3, <1>4 DEF MP!Heard, M!Heard
<1>8. \A st, n : MP!Missed(st, n) = M!Missed(st, n)
  BY <1>4 DEF MP!Missed, M!Missed, MP!Lesser, M!Lesser
<1>9. \A st, n, e : MP!Moved(st, n, e) = M!Moved(st, n, e)
  BY <1>2, <1>4 DEF MP!Moved, M!Moved
<1>10. \A st : MP!Swept(st) = M!Swept(st)
  BY <1>2, <1>5 DEF MP!Swept, M!Swept, MP!Evicted, M!Evicted
<1>11. \A st, e : MP!Reissued(st, e) = M!Reissued(st, e)
  BY <1>1, <1>3 DEF MP!Reissued, M!Reissued
<1>12. \A st : MP!Aged(st) = M!Aged(st)
  BY DEF MP!Aged, M!Aged
<1>13. \A st, n, p, e : MP!Appeared(st, n, p, e) = M!Appeared(st, n, p, e)
  <2>1. \A p : MP!InitialState(p) = M!InitialState(p)
    BY DEF MP!InitialState, M!InitialState
  <2>2. \A p : MP!JoinEvent(p) = M!JoinEvent(p)
    BY <2>1 DEF MP!JoinEvent, M!JoinEvent
  <2>3. QED
    BY <1>2, <1>3, <1>4, <2>1, <2>2
    DEF MP!Appeared, M!Appeared, MP!Joined, M!Joined
<1>14. QED
  BY <1>6, <1>7, <1>8, <1>9, <1>10, <1>11, <1>12, <1>13

\* Every call of the service keeps its storage well typed.
LEMMA StorageStays ==
  ASSUME NEW st, M!IsStorage(st), NEW e \in Nat
  PROVE  /\ \A n \in Nodes : /\ M!IsStorage(M!Appeared(st, n, Published[n], e))
                             /\ M!IsStorage(M!Heard(st, n, e))
                             /\ M!IsStorage(M!Missed(st, n))
                             /\ \A v : M!IsStorage(M!Moved(st, n, v))
         /\ M!IsStorage(M!Swept(st))
         /\ M!IsStorage(M!Reissued(st, e))
         /\ M!IsStorage(M!Aged(st))
<1>1. MP!IsStorage(st) /\ MP!MembershipAssumption
  BY SameStorageOperators, ServiceAssumption
<1>2. ASSUME NEW n \in Nodes
      PROVE  /\ M!IsStorage(M!Appeared(st, n, Published[n], e))
             /\ M!IsStorage(M!Heard(st, n, e))
             /\ M!IsStorage(M!Missed(st, n))
             /\ \A v : M!IsStorage(M!Moved(st, n, v))
  <2>1. Published[n] \in MP!Profile
    BY PoolConfig DEF PoolConfig, MP!Profile, M!Profile, MP!Links, M!Links,
                      MP!Connectivity, M!Connectivity
  <2>2. MP!IsStorage(MP!Appeared(st, n, Published[n], e))
    BY <1>1, <2>1, MP!AppearedType
  <2>3. MP!IsStorage(MP!Heard(st, n, e))
    BY <1>1, MP!HeardType
  <2>4. MP!IsStorage(MP!Missed(st, n))
    BY <1>1, MP!MissedType
  <2>5. \A v : MP!IsStorage(MP!Moved(st, n, v))
    BY <1>1, MP!MovedType
  <2>6. QED
    BY <2>2, <2>3, <2>4, <2>5, SameStorageOperators
<1>3. MP!IsStorage(MP!Swept(st)) /\ MP!IsStorage(MP!Reissued(st, e))
                                 /\ MP!IsStorage(MP!Aged(st))
  BY <1>1, MP!SweptType, MP!ReissuedType, MP!AgedType
<1>4. QED
  BY <1>2, <1>3, SameStorageOperators

\* So does draining those whose seat another takes.
LEMMA DrainedStays ==
  ASSUME NEW st, M!IsStorage(st), NEW S
  PROVE  M!IsStorage(Drained(st, S))
<1>1. DOMAIN Drained(st, S) = DOMAIN st
      /\ Drained(st, S) = [n \in DOMAIN st |-> Drained(st, S)[n]]
  BY DEF Drained
<1>2. ASSUME NEW n \in DOMAIN st
      PROVE  Drained(st, S)[n] \in M!MemberRecord
  <2>1. st[n] \in M!MemberRecord
    BY DEF M!IsStorage
  <2>2. st[n].state \in M!NodeStates
    BY <2>1 DEF M!MemberRecord
  <2>3. Background(st[n].state) \in M!NodeStates
    BY <2>2, BackgroundState
  <2>4. CASE n \in S
    <3>1. Drained(st, S)[n] = [st[n] EXCEPT !.state = Background(st[n].state)]
      BY <2>4 DEF Drained, Background
    <3>2. QED
      BY <2>1, <2>3, <3>1 DEF M!MemberRecord
  <2>5. CASE n \notin S
    BY <2>1, <2>5 DEF Drained
  <2>6. QED
    BY <2>4, <2>5
<1>3. QED
  BY <1>1, <1>2 DEF M!IsStorage

\* The platform of a device is a required one.
LEMMA PlatformIsRequired ==
  ASSUME NEW n \in Nodes
  PROVE  Platform[n] \in Required
<1>1. PICK i \in DOMAIN IdOrder : IdOrder[i] = n
  BY DEF Nodes, Range
<1>2. QED
  BY <1>1 DEF Required, Range

SeatsType ==
  /\ platformByNode \in [DOMAIN platformByNode -> Required]
  /\ DOMAIN platformByNode \subseteq Nodes
  /\ nodeByPlatform \in [DOMAIN nodeByPlatform -> Nodes]
  /\ DOMAIN nodeByPlatform \subseteq Required

\* Seats that are given up leave the other seats as they were.
LEMMA VacateType ==
  ASSUME SeatsType, Vacate
  PROVE  SeatsType'
<1>1. ASSUME NEW f, NEW S, NEW T, f \in [DOMAIN f -> T]
      PROVE  /\ Without(f, S) \in [DOMAIN Without(f, S) -> T]
             /\ DOMAIN Without(f, S) \subseteq DOMAIN f
  BY <1>1 DEF Without
<1>2. /\ platformByNode' \in [DOMAIN platformByNode' -> Required]
      /\ DOMAIN platformByNode' \subseteq DOMAIN platformByNode
  <2>1. PICK S : platformByNode' = Without(platformByNode, S)
    BY DEF Vacate
  <2>2. QED
    BY <1>1, <2>1 DEF SeatsType
<1>3. /\ nodeByPlatform' \in [DOMAIN nodeByPlatform' -> Nodes]
      /\ DOMAIN nodeByPlatform' \subseteq DOMAIN nodeByPlatform
  <2>1. PICK S : nodeByPlatform' = Without(nodeByPlatform, S)
    BY DEF Vacate
  <2>2. QED
    BY <1>1, <2>1 DEF SeatsType
<1>4. QED
  BY <1>2, <1>3 DEF SeatsType

\* A seat that is taken is the one of the device's platform.
LEMMA ConnectSeatsType ==
  ASSUME SeatsType, NEW n \in Nodes, NEW short, Connect(n, short)
  PROVE  SeatsType'
<1>1. CASE UNCHANGED seats
  BY <1>1 DEF SeatsType, seats
<1>2. CASE /\ platformByNode' =
                Set(Without(platformByNode, Replaced(n)), n, Platform[n])
           /\ nodeByPlatform' = Set(nodeByPlatform, Platform[n], n)
  <2>1. Platform[n] \in Required
    BY PlatformIsRequired
  <2>2. platformByNode' \in [DOMAIN platformByNode' -> Required]
        /\ DOMAIN platformByNode' \subseteq Nodes
    BY <1>2, <2>1 DEF SeatsType, Set, Without
  <2>3. nodeByPlatform' \in [DOMAIN nodeByPlatform' -> Nodes]
        /\ DOMAIN nodeByPlatform' \subseteq Required
    BY <1>2, <2>1 DEF SeatsType, Set
  <2>4. QED
    BY <2>2, <2>3 DEF SeatsType
<1>3. QED
  BY <1>1, <1>2 DEF Connect, seats

\* tick keeps the service well typed.
LEMMA TickType ==
  ASSUME M!TypeOK, M!Tick
  PROVE  M!TypeOK'
<1>1. M!IsStorage(M!Swept(storage)) /\ epoch \in Nat /\ epoch + 1 \in Nat
  BY StorageStays DEF M!TypeOK
<1>2. CASE M!TickSameEpoch
  BY <1>1, <1>2 DEF M!TickSameEpoch, M!TypeOK
<1>3. CASE M!TickNewEpoch
  <2>1. M!IsStorage(storage')
    BY <1>1, <1>3, StorageStays DEF M!TickNewEpoch
  <2>2. epochMembers' \subseteq Nodes
    BY <1>1, <1>3 DEF M!TickNewEpoch, M!PlanningSet, M!IsStorage
  <2>3. 0 \in 0..Dwell
    BY PoolConfig DEF PoolConfig
  <2>4. QED
    BY <1>1, <1>3, <2>1, <2>2, <2>3 DEF M!TickNewEpoch, M!TypeOK
<1>4. QED
  BY <1>2, <1>3 DEF M!Tick

\* Members have records, seats are of platforms, and epochs are numbers: for any
\* devices, limits and models.
THEOREM TypeCorrect == Spec => []TypeOK
<1>1. Init => TypeOK
  BY PoolConfig
  DEF Init, M!Init, TypeOK, M!TypeOK, M!IsStorage, PoolConfig
<1>2. TypeOK /\ [Next]_vars => TypeOK'
  <2> SUFFICES ASSUME TypeOK, [Next]_vars
               PROVE  M!TypeOK' /\ duress' \subseteq Nodes /\ SeatsType'
    BY DEF TypeOK, SeatsType
  <2>a. /\ M!TypeOK /\ duress \subseteq Nodes /\ SeatsType
        /\ M!IsStorage(storage) /\ epoch \in Nat /\ sinceEpoch \in 0..Dwell
        /\ epochMembers \subseteq Nodes
    BY DEF TypeOK, SeatsType, M!TypeOK
  <2>1. CASE UNCHANGED seats /\ UNCHANGED duress /\ UNCHANGED membership
    BY <2>1, <2>a DEF membership, seats, M!TypeOK, SeatsType
  <2>2. CASE \E n \in Nodes, short \in BOOLEAN : Connect(n, short)
    <3>1. PICK n \in Nodes, short \in BOOLEAN : Connect(n, short)
      BY <2>2
    <3>2. M!IsStorage(storage')
      <4>1. M!IsStorage(Drained(storage, Replaced(n)))
        BY <2>a, DrainedStays
      <4>2. storage' = M!Appeared(Drained(storage, Replaced(n)), n, Published[n], epoch)
        BY <3>1 DEF Connect
      <4>3. QED
        BY <2>a, <4>1, <4>2, StorageStays
    <3>3. duress' \subseteq Nodes /\ UNCHANGED <<epoch, sinceEpoch, epochMembers>>
      BY <2>a, <3>1 DEF Connect
    <3>4. SeatsType'
      BY <2>a, <3>1, ConnectSeatsType
    <3>5. QED
      BY <2>a, <3>2, <3>3, <3>4 DEF M!TypeOK
  <2>3. CASE \E n \in Nodes : HeartbeatSucceeded(n) \/ HeartbeatFailed(n) \/ AnnounceDrain(n)
    <3>1. PICK n \in Nodes : HeartbeatSucceeded(n) \/ HeartbeatFailed(n) \/ AnnounceDrain(n)
      BY <2>3
    <3>2. \/ storage' = M!Heard(storage, n, epoch)
          \/ storage' = M!Missed(storage, n)
          \/ storage' = M!Moved(storage, n, "enteredBackground")
      BY <3>1 DEF HeartbeatSucceeded, HeartbeatFailed, AnnounceDrain,
                  M!HeartbeatSucceeded, M!HeartbeatFailed, M!NodeAnnouncedDrain
    <3>3. M!IsStorage(storage')
      BY <2>a, <3>2, StorageStays
    <3>4. UNCHANGED <<epoch, sinceEpoch, epochMembers>> /\ UNCHANGED <<duress, seats>>
      BY <3>1 DEF HeartbeatSucceeded, HeartbeatFailed, AnnounceDrain, Reported,
                  M!HeartbeatSucceeded, M!HeartbeatFailed, M!NodeAnnouncedDrain
    <3>5. QED
      BY <2>a, <3>3, <3>4 DEF M!TypeOK, SeatsType, seats
  <2>4. CASE M!Tick /\ Vacate /\ UNCHANGED duress
    BY <2>4, <2>a, TickType, VacateType
  <2>5. CASE Elapse
    <3>1. M!IsStorage(storage')
      BY <2>a, <2>5, StorageStays DEF Elapse, M!Elapse
    <3>2. sinceEpoch' \in 0..Dwell
      BY <2>a, <2>5, PoolConfig DEF Elapse, M!Elapse, M!Lesser, PoolConfig
    <3>3. UNCHANGED <<epoch, epochMembers>> /\ UNCHANGED <<duress, seats>>
      BY <2>5 DEF Elapse, M!Elapse
    <3>4. QED
      BY <2>a, <3>1, <3>2, <3>3 DEF M!TypeOK, SeatsType, seats
  <2>6. QED
    <3>1. Battery \subseteq Nodes
      BY PoolAssumption DEF PoolAssumption
    <3>2. CASE \E m \in Models : PlanRAMPool(m)
      BY <2>1, <2>4, <3>2 DEF PlanRAMPool, seats
    <3>3. CASE UNCHANGED vars
      BY <2>1, <3>3 DEF vars
    <3>4. CASE Tick
      BY <2>4, <3>4 DEF Tick
    <3>5. CASE (\E n \in Battery : Connect(n, TRUE)) \/ (\E n \in Nodes : Connect(n, FALSE))
      BY <2>2, <3>1, <3>5
    <3>6. QED
      BY <2>3, <2>5, <3>2, <3>3, <3>4, <3>5 DEF Next
<1>3. QED
  BY <1>1, <1>2, PTL DEF Spec

-----------------------------------------------------------------------------
(* The order of the identities.                                            *)

\* A device has one place in the order, and no two have the same.
LEMMA PositionIs ==
  ASSUME NEW n \in Nodes
  PROVE  Position(n) \in Nat /\ IdOrder[Position(n)] = n
<1>1. \E i \in DOMAIN IdOrder : IdOrder[i] = n
  BY DEF Nodes, Range
<1>2. Position(n) \in DOMAIN IdOrder /\ IdOrder[Position(n)] = n
  BY <1>1 DEF Position
<1>3. DOMAIN IdOrder = 1..Len(IdOrder) /\ Len(IdOrder) \in Nat
  <2>1. IdOrder \in Seq(Nodes)
    BY PoolAssumption DEF PoolAssumption
  <2>2. QED
    BY <2>1, LenProperties
<1>4. QED
  BY <1>2, <1>3

\* There are finitely many devices.
LEMMA NodesAreFinite == IsFiniteSet(Nodes)
<1> DEFINE D == 1..Len(IdOrder)
<1>1. IdOrder \in Seq(Nodes)
  BY PoolAssumption DEF PoolAssumption
<1>2. IdOrder \in [D -> Nodes] /\ Len(IdOrder) \in Nat
  BY <1>1, LenProperties
<1>3. IsFiniteSet(D)
  BY <1>2, FS_Interval
<1>4. \A n \in Nodes : \E i \in D : IdOrder[i] = n
  BY <1>2 DEF Nodes, Range
<1>5. IdOrder \in Surjection(D, Nodes)
  <2> HIDE DEF D
  <2>1. QED
    BY <1>2, <1>4 DEF Surjection
<1>6. QED
  <2> HIDE DEF D
  <2>1. QED
    BY <1>3, <1>5, FS_Surjection

\* The devices of a set can be put in order.
LEMMA SortedIs ==
  ASSUME NEW S \in SUBSET Nodes
  PROVE  Cardinality(S) \in Nat /\ Sorted(S) \in [1..Cardinality(S) -> S]
<1> DEFINE B == [n \in S |-> {m \in S : Position(m) < Position(n)}]
           N == Cardinality(S)
           rank(n) == Cardinality(B[n])
           Put(s) == \A i, j \in DOMAIN s : i < j => Position(s[i]) < Position(s[j])
<1>1. IsFiniteSet(S) /\ N \in Nat
  BY NodesAreFinite, FS_Subset, FS_CardinalityType
<1>2. \A n \in S : Position(n) \in Nat /\ IdOrder[Position(n)] = n
  BY PositionIs
<1>3. Orders(B, S)
  <2>1. B \in [S -> SUBSET S]
    OBVIOUS
  <2>2. \A x \in S : x \notin B[x]
    BY <1>2
  <2>3. ASSUME NEW x \in S, NEW y \in S, x \in B[y], NEW z \in B[x]
        PROVE  z \in B[y]
    BY <1>2, <2>3
  <2>4. ASSUME NEW x \in S, NEW y \in S
        PROVE  x = y \/ x \in B[y] \/ y \in B[x]
    BY <1>2
  <2> HIDE DEF B
  <2>5. QED
    BY <2>1, <2>2, <2>3, <2>4 DEF Orders
<1>a. \A x, y \in S : x \in B[y] => Position(x) < Position(y)
  OBVIOUS
<1> HIDE DEF B
<1>4. \A k \in 0..(N - 1) : \E x \in S : rank(x) = k
  BY <1>1, <1>3, RankTaken
<1> DEFINE s == [i \in 1..N |-> CHOOSE x \in S : rank(x) = i - 1]
<1>5. ASSUME NEW i \in 1..N
      PROVE  s[i] \in S /\ rank(s[i]) = i - 1
  <2>1. i - 1 \in 0..(N - 1)
    BY <1>1
  <2>2. PICK x \in S : rank(x) = i - 1
    BY <1>4, <2>1
  <2> HIDE DEF rank
  <2>3. QED
    BY <2>2
<1> HIDE DEF s
<1>6. s \in [1..N -> S]
  BY <1>5 DEF s
<1>7. ASSUME NEW i \in 1..N, NEW j \in 1..N, i < j
      PROVE  Position(s[i]) < Position(s[j])
  <2> DEFINE x == s[i]
             y == s[j]
  <2>1. x \in S /\ y \in S /\ rank(x) = i - 1 /\ rank(y) = j - 1
    BY <1>5
  <2> HIDE DEF x, y
  <2>2. rank(x) < rank(y) /\ rank(x) \in Nat /\ rank(y) \in Nat
    BY <1>1, <1>7, <2>1
  <2>3. y \notin B[x]
    <3>1. SUFFICES ASSUME y \in B[x] PROVE FALSE
      OBVIOUS
    <3>2. rank(y) < rank(x)
      BY <1>1, <1>3, <2>1, <3>1, RankGrows
    <3> HIDE DEF rank
    <3>3. QED
      BY <2>2, <3>2
  <2>4. x # y
    <3> HIDE DEF rank
    <3>1. QED
      BY <2>2
  <2>5. x \in B[y]
    BY <1>3, <2>1, <2>3, <2>4 DEF Orders
  <2>6. QED
    BY <1>a, <2>1, <2>5 DEF x, y
<1>8. Put(s)
  <2>1. DOMAIN s = 1..N
    BY <1>6
  <2>2. QED
    BY <1>7, <2>1
<1> HIDE DEF Put
<1>9. \E t \in [1..N -> S] : Put(t)
  BY <1>6, <1>8
<1>10. Sorted(S) = CHOOSE t \in [1..N -> S] : Put(t)
  BY DEF Sorted, Put
<1>11. QED
  BY <1>1, <1>9, <1>10

-----------------------------------------------------------------------------
(* Plans.                                                                  *)

\* A plan that is made for a storage is sound, and names only devices that may
\* hold a stage by that storage.
LEMMA MadeForStorage ==
  ASSUME NEW st, M!IsStorage(st), NEW m \in Models, NEW e, NEW plan,
         NEW lift \in Roundings(Capacities(m, Eligible(st), Usable)),
         plan = Planned(m, Eligible(st), Usable, e, lift), plan.outcome = "plan"
  PROVE  /\ plan.epoch = e
         /\ CoversModel(plan)
         /\ FitsEveryNode(plan, Usable)
         /\ WithinEntitlement(plan, Usable)
         /\ \A i \in DOMAIN plan.assignments :
              /\ plan.assignments[i].node \in M!PlanningSet(st)
              /\ plan.assignments[i].node \in Nodes
              /\ MayHold(st, plan.assignments[i].node)
<1> DEFINE S == {n \in M!PlanningSet(st) : MayHold(st, n)}
           k == Cardinality(S)
           members == Eligible(st)
<1>1. S \in SUBSET Nodes
  BY DEF M!PlanningSet, M!IsStorage
<1>2. k \in Nat /\ members \in [1..k -> S]
  <2>1. members = Sorted(S)
    BY DEF Eligible
  <2> HIDE DEF S, members
  <2>2. QED
    BY <1>1, <2>1, SortedIs
<1>3. m \in Model /\ Usable \in [Nodes -> Nat]
  BY PoolAssumption DEF PoolAssumption
<1>a. \A n \in S : n \in M!PlanningSet(st) /\ MayHold(st, n)
  OBVIOUS
<1> HIDE DEF S, k, members
<1>4. members \in [1..k -> Nodes] /\ \A i \in 1..k : members[i] \in S
  BY <1>1, <1>2
<1>5. plan = Planned(m, members, Usable, e, lift)
  BY DEF members
<1>b. lift \in [1..k -> Nat]
  <2>1. DOMAIN members = 1..k /\ Len(members) = k
    BY <1>2, FunIsSeq
  <2>2. lift \in [1..k -> 0..k - 1]
    BY <2>1 DEF Roundings, Capacities, members
  <2>3. QED
    BY <1>2, <2>2
<1>6. /\ plan.epoch = e
      /\ DOMAIN plan.assignments = 1..k
      /\ \A i \in 1..k : plan.assignments[i].node = members[i]
      /\ CoversModel(plan)
      /\ FitsEveryNode(plan, Usable)
      /\ WithinEntitlement(plan, Usable)
  <2> DEFINE p == Planned(m, members, Usable, e, lift)
  <2>1. p.outcome = "plan"
    BY <1>5
  <2>2. /\ p.epoch = e
        /\ DOMAIN p.assignments = 1..k
        /\ \A i \in 1..k : p.assignments[i].node = members[i]
        /\ CoversModel(p)
        /\ FitsEveryNode(p, Usable)
        /\ WithinEntitlement(p, Usable)
    BY <1>2, <1>3, <1>4, <1>b, <2>1, PlanIsSound
  <2>3. QED
    BY <1>5, <2>2
<1>7. QED
  BY <1>1, <1>4, <1>6, <1>a

\* What is pooled and is a plan was made for the storage, and every required
\* platform has a seated device in it.
LEMMA PooledIsMade ==
  ASSUME NEW m, NEW st, NEW e, NEW seated, NEW lift, NEW plan,
         plan = Pooled(m, st, e, seated, lift), plan # Nil, plan.outcome = "plan"
  PROVE  /\ plan = Planned(m, Eligible(st), Usable, e, lift)
         /\ AssignedPlatforms(plan, seated) = Required
  BY DEF Pooled

\* A plan comes from planRAMPool, when no membership change is put off.
LEMMA PlansAreMade ==
  ASSUME Next, NEW plan \in Plans'
  PROVE  \E m \in Models : \E lift \in Roundings(Capacities(m, Eligible(storage'), Usable)) :
           /\ M!Tick /\ ~Deferred /\ UNCHANGED duress
           /\ plan = Planned(m, Eligible(storage'), Usable, epoch', lift)
           /\ plan.outcome = "plan"
           /\ AssignedPlatforms(plan, platformByNode') = Required
<1>1. /\ plan = returned' /\ plan # Nil /\ plan.outcome = "plan"
      /\ "outcome" \in DOMAIN returned'
  BY DEF Plans
<1>2. \A n : returned' # [connected |-> n]
  BY <1>1
<1>3. PICK m \in Models : PlanRAMPool(m)
  BY <1>1, <1>2
  DEF Next, Connect, HeartbeatSucceeded, HeartbeatFailed, AnnounceDrain, Reported,
      Tick, Elapse
<1>4. PICK lift \in Roundings(Capacities(m, Eligible(storage'), Usable)) :
        /\ M!Tick /\ ~Deferred /\ UNCHANGED duress
        /\ plan = Pooled(m, storage', epoch', platformByNode', lift)
  BY <1>1, <1>3 DEF PlanRAMPool
<1>5. QED
  BY <1>1, <1>4, PooledIsMade

\* A tick that puts nothing off leaves a planning set the epoch is for.
LEMMA TickTakesUp ==
  ASSUME TypeOK, M!Tick, ~Deferred
  PROVE  M!PlanningSet(storage') = epochMembers'
<1>1. sinceEpoch \in Nat /\ Dwell \in Nat /\ M!IsStorage(storage)
  BY PoolConfig DEF PoolConfig, TypeOK, M!TypeOK
<1>2. CASE M!TickSameEpoch
  BY <1>1, <1>2 DEF M!TickSameEpoch, M!EpochDue, Deferred
<1>3. CASE M!TickNewEpoch
  <2> DEFINE st == M!Swept(storage)
  <2>1. storage' = M!Reissued(st, epoch + 1) /\ epochMembers' = M!PlanningSet(st)
    BY <1>3 DEF M!TickNewEpoch
  <2>2. States(st)
    <3>1. M!IsStorage(st)
      BY <1>1, StorageStays, 0 \in Nat
    <3> HIDE DEF st
    <3>2. QED
      BY <3>1 DEF M!IsStorage, M!MemberRecord, States, HasState
  <2> HIDE DEF st
  <2>3. Same(st, storage')
    BY <2>1, <2>2, ReissuedSame
  <2>4. QED
    BY <2>1, <2>3 DEF Same, M!PlanningSet
<1>4. QED
  BY <1>2, <1>3 DEF M!Tick

PlanInv == PlanIsForItsEpoch /\ PlanCanBeCarriedOut

\* A call that hands out a plan hands out a good one.
LEMMA NextPlans ==
  ASSUME TypeOK, TypeOK', PoolInv', Next
  PROVE  PlanInv'
<1> SUFFICES ASSUME NEW plan \in Plans'
             PROVE  /\ plan.epoch = epoch'
                    /\ M!PlanningSet(storage)' = epochMembers'
                    /\ \A i \in DOMAIN plan.assignments :
                         plan.assignments[i].node \in epochMembers'
                    /\ CoversModel(plan)
                    /\ FitsEveryNode(plan, Usable)
                    /\ WithinEntitlement(plan, Usable)
                    /\ {Platform[plan.assignments[i].node] :
                          i \in DOMAIN plan.assignments} = Required
                    /\ \A i \in DOMAIN plan.assignments :
                         LET n == plan.assignments[i].node
                         IN  /\ n \in Trusted /\ n \notin duress'
                             /\ storage'[n].lease.remaining > StageDuration
  BY DEF PlanInv, PlanIsForItsEpoch, PlanCanBeCarriedOut
<1>1. PICK m \in Models : \E lift \in Roundings(Capacities(m, Eligible(storage'), Usable)) :
        /\ M!Tick /\ ~Deferred /\ UNCHANGED duress
        /\ plan = Planned(m, Eligible(storage'), Usable, epoch', lift)
        /\ plan.outcome = "plan"
        /\ AssignedPlatforms(plan, platformByNode') = Required
  BY PlansAreMade
<1> DEFINE node(i) == plan.assignments[i].node
           I == DOMAIN plan.assignments
<1>2. M!IsStorage(storage')
  BY DEF TypeOK, M!TypeOK
<1>3. /\ plan.epoch = epoch'
      /\ CoversModel(plan)
      /\ FitsEveryNode(plan, Usable)
      /\ WithinEntitlement(plan, Usable)
      /\ \A i \in I : /\ node(i) \in M!PlanningSet(storage') /\ node(i) \in Nodes
                      /\ MayHold(storage', node(i))
  BY <1>1, <1>2, MadeForStorage
<1>4. M!PlanningSet(storage') = epochMembers'
  BY <1>1, TickTakesUp
<1>5. \A i \in I : /\ node(i) \in Trusted /\ node(i) \notin duress'
                   /\ storage'[node(i)].lease.remaining > StageDuration
  <2> SUFFICES ASSUME NEW i \in I
               PROVE  /\ node(i) \in Trusted /\ node(i) \notin duress'
                      /\ storage'[node(i)].lease.remaining > StageDuration
    OBVIOUS
  <2> DEFINE n == node(i)
             r == storage'[n].lease.remaining
  <2>1. MayHold(storage', n) /\ n \in M!PlanningSet(storage')
    BY <1>3
  <2>2. n \in Trusted /\ n \notin duress' /\ StageDuration < r
    BY <1>1, <2>1 DEF MayHold, M!CanHost
  <2>3. r \in Nat /\ StageDuration \in Nat
    BY <1>2, <2>1, PoolAssumption
    DEF M!IsStorage, M!PlanningSet, M!MemberRecord, M!Lease, PoolAssumption
  <2> HIDE DEF r
  <2>4. r > StageDuration
    BY <2>2, <2>3
  <2>5. QED
    BY <2>2, <2>4 DEF r
<1>6. {Platform[node(i)] : i \in I} = Required
  <2>1. ASSUME NEW i \in I PROVE Platform[node(i)] \in Required
    BY <1>3, PlatformIsRequired
  <2>2. ASSUME NEW p \in Required PROVE \E i \in I : p = Platform[node(i)]
    <3>1. p \in AssignedPlatforms(plan, platformByNode')
      BY <1>1, <2>2
    <3>2. PICK i \in I : node(i) \in DOMAIN platformByNode' /\ p = platformByNode'[node(i)]
      BY <3>1 DEF AssignedPlatforms
    <3>3. platformByNode'[node(i)] = Platform[node(i)]
      BY <3>2 DEF PoolInv
    <3>4. QED
      BY <3>2, <3>3
  <2>3. QED
    BY <2>1, <2>2
<1>7. M!PlanningSet(storage)' = M!PlanningSet(storage')
  BY DEF M!PlanningSet
<1>8. QED
  BY <1>3, <1>4, <1>5, <1>6, <1>7

\* Plans are good when they are handed out, and stay what the host was told.
LEMMA PlanInvariant == Spec => []PlanInv
<1>1. Init => PlanInv
  BY DEF Init, PlanInv, PlanIsForItsEpoch, PlanCanBeCarriedOut, Plans
<1>2. TypeOK /\ TypeOK' /\ PoolInv' /\ PlanInv /\ [Next]_vars => PlanInv'
  <2> SUFFICES ASSUME TypeOK, TypeOK', PoolInv', PlanInv, [Next]_vars
               PROVE  PlanInv'
    OBVIOUS
  <2>1. CASE UNCHANGED vars
    <3>1. UNCHANGED <<storage, epoch, epochMembers, duress, returned>>
      BY <2>1 DEF vars, membership
    <3>2. Plans' = Plans /\ M!PlanningSet(storage)' = M!PlanningSet(storage)
      BY <3>1 DEF Plans, M!PlanningSet
    <3>3. QED
      BY <3>1, <3>2 DEF PlanInv, PlanIsForItsEpoch, PlanCanBeCarriedOut
  <2>2. CASE Next
    BY <2>2, NextPlans
  <2>3. QED
    BY <2>1, <2>2
<1>3. QED
  BY <1>1, <1>2, TypeCorrect, PoolInvariant, PTL DEF Spec

\* A plan that is handed out is for the epoch it names, and for the devices that
\* epoch was started for: whatever joined, drained or was evicted since.
THEOREM PlanIsForItsEpochHolds == Spec => []PlanIsForItsEpoch
  BY PlanInvariant, PTL DEF PlanInv

\* A plan that is handed out can be carried out, for any models, memory sizes
\* and limits: every layer is held once, every platform holds a part that fits
\* it and is within its share, and every lease outlasts the stage.
THEOREM PlanCanBeCarriedOutHolds == Spec => []PlanCanBeCarriedOut
  BY PlanInvariant, PTL DEF PlanInv

-----------------------------------------------------------------------------
(* What the membership service promises is kept by the pool, though a call *)
(* of connect makes several of its calls in one step.                      *)

\* Every usable device's lease is what its state and profile allow.
Authorised(st, e) == MP!AllAuthorised(st, e)

\* A device does not change its operating system: it has one profile.
LEMMA LinksAreFixed == MP!FixedLinks
  BY DEF MP!FixedLinks

\* The calls keep the leases of the usable authorised, in the epoch they are of.
LEMMA AuthorityStays ==
  ASSUME NEW st, M!IsStorage(st), NEW e \in Nat, Authorised(st, e)
  PROVE  /\ \A n \in Nodes : /\ Authorised(M!Appeared(st, n, Published[n], e), e)
                             /\ Authorised(M!Heard(st, n, e), e)
                             /\ Authorised(M!Missed(st, n), e)
                             /\ Authorised(M!Moved(st, n, "enteredBackground"), e)
         /\ Authorised(M!Swept(st), e)
         /\ \A f \in Nat : Authorised(M!Reissued(st, f), f)
         /\ Authorised(M!Aged(st), e)
<1>1. MP!IsStorage(st) /\ MP!MembershipAssumption /\ MP!AllAuthorised(st, e)
  BY SameStorageOperators, ServiceAssumption DEF Authorised
<1>2. ASSUME NEW n \in Nodes
      PROVE  /\ MP!AllAuthorised(MP!Appeared(st, n, Published[n], e), e)
             /\ MP!AllAuthorised(MP!Heard(st, n, e), e)
             /\ MP!AllAuthorised(MP!Missed(st, n), e)
             /\ MP!AllAuthorised(MP!Moved(st, n, "enteredBackground"), e)
  <2>1. Published[n] \in [k \in Nodes |-> {Published[k]}][n]
    OBVIOUS
  <2>2. MP!AllAuthorised(MP!Appeared(st, n, Published[n], e), e)
    BY <1>1, <2>1, LinksAreFixed, MP!AppearedAuthorised
  <2>3. MP!AllAuthorised(MP!Heard(st, n, e), e)
    BY <1>1, MP!HeardAuthorised
  <2>4. MP!AllAuthorised(MP!Missed(st, n), e)
    BY <1>1, MP!MissedAuthorised
  <2>5. MP!AllAuthorised(MP!Moved(st, n, "enteredBackground"), e)
    <3>1. "enteredBackground" \notin MP!Unleased
      BY DEF MP!Unleased
    <3>2. QED
      BY <1>1, <3>1, MP!MovedAuthorised
  <2>6. QED
    BY <2>2, <2>3, <2>4, <2>5
<1>3. MP!AllAuthorised(MP!Swept(st), e) /\ MP!AllAuthorised(MP!Aged(st), e)
  BY <1>1, MP!SweptAuthorised, MP!AgedAuthorised
<1>4. ASSUME NEW f \in Nat
      PROVE  MP!AllAuthorised(MP!Reissued(st, f), f)
  <2>1. \A n \in DOMAIN st : st[n].profile \in [k \in Nodes |-> {Published[k]}][n]
    BY <1>1 DEF MP!AllAuthorised, MP!Authorised
  <2>2. QED
    BY <1>1, <2>1, MP!ReissuedAuthorised
<1>5. QED
  BY <1>2, <1>3, <1>4, SameStorageOperators DEF Authorised

\* A device that is drained is usable no more, and the others are as they were.
LEMMA DrainedAuthorised ==
  ASSUME NEW st, M!IsStorage(st), NEW e \in Nat, Authorised(st, e), NEW S
  PROVE  Authorised(Drained(st, S), e)
<1> SUFFICES ASSUME NEW n \in DOMAIN st
             PROVE  MP!Authorised(n, Drained(st, S)[n], e)
  BY DEF Authorised, MP!AllAuthorised, Drained
<1>1. MP!Authorised(n, st[n], e) /\ st[n] \in M!MemberRecord
  BY DEF Authorised, MP!AllAuthorised, M!IsStorage
<1>2. CASE n \in S
  <2> DEFINE r == [st[n] EXCEPT !.state = Background(st[n].state)]
  <2>1. Drained(st, S)[n] = r
    BY <1>2 DEF Drained, Background
  <2>2. r.state = Background(st[n].state) /\ r.profile = st[n].profile
    BY <1>1 DEF M!MemberRecord
  <2>3. ~MP!Participates(r.state)
    <3>1. st[n].state \in M!NodeStates
      BY <1>1 DEF M!MemberRecord
    <3>2. ~M!Participates(Background(st[n].state))
      BY <3>1, BackgroundState
    <3>3. QED
      BY <2>2, <3>2 DEF M!Participates, MP!Participates
  <2> HIDE DEF r
  <2>4. QED
    BY <1>1, <2>1, <2>2, <2>3 DEF MP!Authorised
<1>3. CASE n \notin S
  BY <1>1, <1>3 DEF Drained
<1>4. QED
  BY <1>2, <1>3

\* No call leaves a usable device with a lease it should not hold.
LEMMA AuthorityInvariant == Spec => []Authorised(storage, epoch)
<1>1. Init => Authorised(storage, epoch)
  BY DEF Init, M!Init, Authorised, MP!AllAuthorised
<1>2. TypeOK /\ Authorised(storage, epoch) /\ [Next]_vars => Authorised(storage, epoch)'
  <2> SUFFICES ASSUME TypeOK, Authorised(storage, epoch), [Next]_vars
               PROVE  Authorised(storage', epoch')
    BY DEF Authorised, MP!AllAuthorised, MP!Authorised
  <2>a. M!IsStorage(storage) /\ epoch \in Nat /\ epoch + 1 \in Nat
    BY DEF TypeOK, M!TypeOK
  <2>1. CASE UNCHANGED <<storage, epoch>>
    BY <2>1
  <2>2. CASE \E n \in Nodes, short \in BOOLEAN : Connect(n, short)
    <3>1. PICK n \in Nodes, short \in BOOLEAN : Connect(n, short)
      BY <2>2
    <3> DEFINE st == Drained(storage, Replaced(n))
    <3>2. storage' = M!Appeared(st, n, Published[n], epoch) /\ epoch' = epoch
      BY <3>1 DEF Connect
    <3>3. M!IsStorage(st) /\ Authorised(st, epoch)
      BY <2>a, DrainedStays, DrainedAuthorised
    <3> HIDE DEF st
    <3>4. QED
      BY <2>a, <3>2, <3>3, AuthorityStays
  <2>3. CASE \E n \in Nodes : HeartbeatSucceeded(n) \/ HeartbeatFailed(n) \/ AnnounceDrain(n)
    <3>1. PICK n \in Nodes : HeartbeatSucceeded(n) \/ HeartbeatFailed(n) \/ AnnounceDrain(n)
      BY <2>3
    <3>2. /\ epoch' = epoch
          /\ \/ storage' = M!Heard(storage, n, epoch)
             \/ storage' = M!Missed(storage, n)
             \/ storage' = M!Moved(storage, n, "enteredBackground")
      BY <3>1 DEF HeartbeatSucceeded, HeartbeatFailed, AnnounceDrain,
                  M!HeartbeatSucceeded, M!HeartbeatFailed, M!NodeAnnouncedDrain
    <3>3. QED
      BY <2>a, <3>2, AuthorityStays
  <2>4. CASE M!Tick
    <3> DEFINE st == M!Swept(storage)
    <3>1. M!IsStorage(st) /\ Authorised(st, epoch)
      BY <2>a, StorageStays, AuthorityStays
    <3>2. \/ storage' = st /\ epoch' = epoch
          \/ storage' = M!Reissued(st, epoch + 1) /\ epoch' = epoch + 1
      BY <2>4 DEF M!Tick, M!TickSameEpoch, M!TickNewEpoch
    <3> HIDE DEF st
    <3>3. QED
      BY <2>a, <3>1, <3>2, AuthorityStays
  <2>5. CASE Elapse
    <3>1. storage' = M!Aged(storage) /\ epoch' = epoch
      BY <2>5 DEF Elapse, M!Elapse
    <3>2. QED
      BY <2>a, <3>1, AuthorityStays
  <2>6. QED
    <3>1. Battery \subseteq Nodes
      BY PoolAssumption DEF PoolAssumption
    <3>2. CASE \E m \in Models : PlanRAMPool(m)
      BY <2>1, <2>4, <3>2 DEF PlanRAMPool, membership
    <3>3. CASE UNCHANGED vars
      BY <2>1, <3>3 DEF vars, membership
    <3>4. CASE Tick
      BY <2>4, <3>4 DEF Tick
    <3>5. CASE (\E n \in Battery : Connect(n, TRUE)) \/ (\E n \in Nodes : Connect(n, FALSE))
      BY <2>2, <3>1, <3>5
    <3>6. QED
      BY <2>3, <2>5, <3>2, <3>3, <3>4, <3>5 DEF Next
<1>3. QED
  BY <1>1, <1>2, TypeCorrect, PTL DEF Spec

\* Through replacements, drains and deferred epochs a device the planner may use
\* holds a lease of the current epoch, no longer than its operating system
\* honours, and for required stages only if its state may host them.
THEOREM PoolKeepsAuthority ==
  Spec => [](M!NoStaleAuthority /\ M!LeaseWithinOSLimit /\ M!RequiredLeaseFitsState)
<1>1. Authorised(storage, epoch) =>
        M!NoStaleAuthority /\ M!LeaseWithinOSLimit /\ M!RequiredLeaseFitsState
  BY DEF Authorised, MP!AllAuthorised, MP!Authorised, M!NoStaleAuthority,
         M!LeaseWithinOSLimit, M!RequiredLeaseFitsState, M!PlanningSet,
         M!Participates, MP!Participates, M!CanHostRequired, MP!CanHostRequired
<1>2. QED
  BY <1>1, AuthorityInvariant, PTL

\* The pool implements the versioned ring of RingEpochs: whatever connects,
\* drains and is evicted, epochs are numbered one after the other, last their
\* dwell time and are started for the devices that are usable at that moment.
THEOREM PoolImplementsEpochs == Spec => Epochs!Spec
<1>1. Init => Epochs!Init
  BY DEF Init, M!Init, Epochs!Init, M!PlanningSet
<1>2. TypeOK /\ TypeOK' /\ [Next]_vars => [Epochs!Next]_(Epochs!vars)
  <2> SUFFICES ASSUME TypeOK, TypeOK', [Next]_vars
               PROVE  Epochs!Next \/ UNCHANGED Epochs!vars
    OBVIOUS
  <2>1. /\ M!PlanningSet(storage)' \in SUBSET Nodes /\ M!IsStorage(storage)
        /\ sinceEpoch \in Nat /\ Dwell \in Nat /\ sinceEpoch <= Dwell
    BY PoolConfig DEF TypeOK, M!TypeOK, M!PlanningSet, M!IsStorage, PoolConfig
  <2>2. CASE UNCHANGED <<epoch, sinceEpoch, epochMembers>>
    BY <2>1, <2>2 DEF Epochs!Next, Epochs!Churn
  <2>3. CASE M!TickNewEpoch
    <3>1. ~Deferred
      BY <2>1, <2>3 DEF M!TickNewEpoch, M!EpochDue, Deferred
    <3>2. M!PlanningSet(storage)' = epochMembers'
      <4>1. M!PlanningSet(storage') = epochMembers'
        BY <2>3, <3>1, TickTakesUp DEF M!Tick
      <4>2. QED
        BY <4>1 DEF M!PlanningSet
    <3>3. QED
      BY <2>1, <2>3, <3>2 DEF M!TickNewEpoch, M!EpochDue, Epochs!Next, Epochs!Begin
  <2>4. CASE M!Elapse
    <3>1. Same(storage, storage')
      <4>1. States(storage)
        BY <2>1 DEF M!IsStorage, M!MemberRecord, States, HasState
      <4>2. QED
        BY <2>4, <4>1, AgedSame DEF M!Elapse
    <3>2. M!PlanningSet(storage)' = M!PlanningSet(storage)
      BY <3>1 DEF Same, M!PlanningSet
    <3>3. CASE sinceEpoch < Dwell
      <4>1. sinceEpoch' = sinceEpoch + 1
        BY <2>1, <2>4, <3>3 DEF M!Elapse, M!Lesser
      <4>2. QED
        BY <2>4, <3>2, <3>3, <4>1 DEF M!Elapse, Epochs!Next, Epochs!Pass
    <3>4. CASE sinceEpoch = Dwell
      <4>1. sinceEpoch' = sinceEpoch
        BY <2>1, <2>4, <3>4 DEF M!Elapse, M!Lesser
      <4>2. QED
        BY <2>4, <3>2, <4>1 DEF M!Elapse, Epochs!vars
    <3>5. QED
      BY <2>1, <3>3, <3>4
  <2>5. CASE M!Tick
    <3>1. CASE M!TickSameEpoch
      BY <2>2, <3>1 DEF M!TickSameEpoch
    <3>2. QED
      BY <2>3, <2>5, <3>1 DEF M!Tick
  <2>6. CASE Tick \/ \E m \in Models : PlanRAMPool(m)
    BY <2>2, <2>5, <2>6 DEF Tick, PlanRAMPool, membership
  <2>7. QED
    BY <2>2, <2>4, <2>6
    DEF Next, vars, membership, Connect, HeartbeatSucceeded, HeartbeatFailed,
        AnnounceDrain, M!HeartbeatSucceeded, M!HeartbeatFailed,
        M!NodeAnnouncedDrain, Elapse
<1>3. QED
  BY <1>1, <1>2, TypeCorrect, PTL DEF Spec, Epochs!Spec
=============================================================================
