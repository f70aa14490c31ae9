----------------------- MODULE RingHealthMonitorProofs -----------------------
(***************************************************************************)
(* Theorems about RingHealthMonitor.  The first two relate the watchdog to *)
(* what its host keeps beside it, the cached verdict and the rebuild task; *)
(* they rest on nothing but the calls of the watchdog, so they hold        *)
(* whatever membership reports, pings answer and discovery lists.  The     *)
(* type invariant takes the lemmas of the two services as they are.  The   *)
(* last one is about time: a lease given by an answer outlives the round.  *)
(***************************************************************************)
EXTENDS RingHealthMonitor, FiniteSetTheorems, WellFoundedInduction, TLAPS

\* All that is needed of the type of a watchdog: it is a record with a phase
\* (a call changes fields of it, and adds none).
HasPhase(w) == "phase" \in DOMAIN w /\ w.phase \in W!Phases

\* What the calls do to the phase, in the order of their definitions.
LEMMA ProgressPhase ==
  ASSUME NEW w, HasPhase(w)
  PROVE  HasPhase(W!WithProgress(w)) /\ W!WithProgress(w).phase = w.phase
  BY DEF HasPhase, W!Phases, W!WithProgress

\* A loss that is recorded leaves the phase alone.
LEMMA LossPhase ==
  ASSUME NEW w, NEW r, HasPhase(w)
  PROVE  HasPhase(W!WithLoss(w, r)) /\ W!WithLoss(w, r).phase = w.phase
  BY DEF HasPhase, W!Phases, W!WithLoss

\* A success leads to a phase, whichever it was.
LEMMA SuccessPhase ==
  ASSUME NEW w, HasPhase(w)
  PROVE  HasPhase(W!WithSuccess(w))
  BY DEF HasPhase, W!Phases, W!WithSuccess

\* Without finalize() whatever has left the running phase is terminal.
LEMMA UnavailablePhase ==
  ASSUME NEW w, HasPhase(w)
  PROVE  /\ HasPhase(W!WithUnavailable(w))
         /\ w.phase # "running" => W!WithUnavailable(w).phase = "terminal"
         /\ w.phase = "running" => W!WithUnavailable(w) = w
  BY DEF HasPhase, W!Phases, W!WithUnavailable

\* A failure leads to a phase.
LEMMA FailurePhase ==
  ASSUME NEW w, HasPhase(w)
  PROVE  HasPhase(W!WithFailure(w))
  BY DEF HasPhase, W!Phases, W!WithFailure

\* Evaluating leads on, from running to reforming or from there to terminal.
LEMMA EvaluatedPhase ==
  ASSUME NEW w, HasPhase(w)
  PROVE  /\ HasPhase(W!Evaluated(w))
         /\ w.phase # "running" =>
              W!Evaluated(w).phase \in {"reforming", "terminal"}
  BY DEF HasPhase, W!Phases, W!Evaluated, W!LossConfirmed

\* A request changes the phase as evaluating does.
LEMMA BegunPhase ==
  ASSUME NEW w, HasPhase(w)
  PROVE  /\ HasPhase(W!Begun(w))
         /\ W!Begun(w).phase = W!Evaluated(w).phase
  BY EvaluatedPhase DEF HasPhase, W!Phases, W!Begun, W!Admits

\* Time leaves the phase alone.
LEMMA TimePhase ==
  ASSUME NEW w, HasPhase(w)
  PROVE  HasPhase(W!WithTime(w)) /\ W!WithTime(w).phase = w.phase
  BY DEF HasPhase, W!Phases, W!WithTime

\* The verdict is "lost" for a watchdog that has given up and for no other.
LEMMA HealthOfPhase ==
  ASSUME NEW w, HasPhase(w)
  PROVE  W!Health(w) = "lost" <=> w.phase = "terminal"
  BY DEF HasPhase, W!Phases, W!Health

-----------------------------------------------------------------------------
(* The two properties are inductive together with the phase being one.     *)

Recoverable(w) == w.phase \in {"reforming", "terminal"}

MonitorInv ==
  /\ HasPhase(dog)
  /\ BannerTellsTheEnd
  /\ RebuildOnlyWhileReforming

\* refreshHealth: whatever watchdog it is called for, as long as a rebuild that
\* exists is one of a watchdog that has left the running phase.
LEMMA RefreshKeeps ==
  ASSUME NEW w, HasPhase(w), rebuild # "none" => Recoverable(w), RefreshHealth(w)
  PROVE  MonitorInv'
<1>1. HasPhase(W!Evaluated(w)) /\ (w.phase # "running" => Recoverable(W!Evaluated(w)))
  BY EvaluatedPhase DEF Recoverable
<1>2. HasPhase(W!WithUnavailable(W!Evaluated(w)))
  BY <1>1, UnavailablePhase
<1>3. HasPhase(Refreshed(w))
  BY <1>1, <1>2 DEF Refreshed
<1>4. dog' = Refreshed(w) /\ health' = W!Health(Refreshed(w))
  BY DEF RefreshHealth
<1>5. HasPhase(dog)' /\ BannerTellsTheEnd'
  BY <1>3, <1>4, HealthOfPhase DEF HasPhase, BannerTellsTheEnd
<1>6. CASE NeedsRebuild(w) /\ CanReform
  <2>1. Refreshed(w) = W!Evaluated(w) /\ W!Evaluated(w).phase = "reforming"
    BY <1>6 DEF Refreshed, NeedsRebuild
  <2>2. QED
    BY <1>4, <1>5, <2>1 DEF MonitorInv, RebuildOnlyWhileReforming
<1>7. CASE ~(NeedsRebuild(w) /\ CanReform)
  <2>1. rebuild' = rebuild
    BY <1>7 DEF RefreshHealth
  <2>2. CASE rebuild = "none"
    BY <1>5, <2>1, <2>2 DEF MonitorInv, RebuildOnlyWhileReforming
  <2>3. CASE rebuild # "none"
    <3>1. Refreshed(w) = W!Evaluated(w)
      BY <2>3 DEF Refreshed, NeedsRebuild
    <3>2. Recoverable(W!Evaluated(w))
      BY <1>1, <2>3 DEF Recoverable
    <3>3. QED
      BY <1>4, <1>5, <3>1, <3>2 DEF MonitorInv, RebuildOnlyWhileReforming, Recoverable
  <2>4. QED
    BY <2>2, <2>3
<1>8. QED
  BY <1>6, <1>7

\* A loss that is consumed leaves the phase alone, so the end of a round keeps
\* the invariant whatever the answers were.
LEMMA RoundKeeps ==
  ASSUME NEW st, MonitorInv, FinishRound(st)
  PROVE  MonitorInv'
<1>1. HasPhase(Consumed(dog, st)) /\ Consumed(dog, st).phase = dog.phase
  BY LossPhase DEF Consumed, MonitorInv
<1>2. RefreshHealth(Consumed(dog, st))
  BY DEF FinishRound
<1>3. rebuild # "none" => Recoverable(Consumed(dog, st))
  BY <1>1 DEF MonitorInv, RebuildOnlyWhileReforming, Recoverable
<1>4. QED
  BY <1>1, <1>2, <1>3, RefreshKeeps

\* A step that leaves the verdict, the rebuild and the phase alone.
LEMMA QuietKeeps ==
  ASSUME MonitorInv, HasPhase(dog'), dog'.phase = dog.phase,
         UNCHANGED <<health, rebuild>>
  PROVE  MonitorInv'
  BY DEF MonitorInv, HasPhase, BannerTellsTheEnd, RebuildOnlyWhileReforming

\* The banner and the rebuild task agree with the phase at every moment.
LEMMA MonitorInvariant == Spec => []MonitorInv
<1>1. Init => MonitorInv
  BY DEF Init, MonitorInv, HasPhase, W!Phases, W!Fresh, BannerTellsTheEnd,
         RebuildOnlyWhileReforming
<1>2. MonitorInv /\ [Next]_vars => MonitorInv'
  <2> SUFFICES ASSUME MonitorInv, [Next]_vars
               PROVE  MonitorInv'
    OBVIOUS
  <2>a. HasPhase(dog) /\ (rebuild # "none" => Recoverable(dog))
    BY DEF MonitorInv, RebuildOnlyWhileReforming, Recoverable
  <2>1. CASE UNCHANGED <<dog, health, rebuild>>
    BY <2>1, <2>a, QuietKeeps
  <2>2. CASE StartRound
    <3>1. CASE ring = {}
      BY <2>2, <3>1, RoundKeeps DEF StartRound
    <3>2. CASE ring # {}
      BY <2>2, <3>2, <2>1 DEF StartRound
    <3>3. QED
      BY <3>1, <3>2
  <2>3. CASE \E p \in Peers, alive \in BOOLEAN : PingReturns(p, alive)
    <3>1. PICK p \in Peers, alive \in BOOLEAN : PingReturns(p, alive)
      BY <2>3
    <3>2. CASE loop.todo = {p}
      BY <3>1, <3>2, RoundKeeps DEF PingReturns
    <3>3. CASE loop.todo # {p}
      BY <3>1, <3>3, <2>1 DEF PingReturns
    <3>4. QED
      BY <3>2, <3>3
  <2>4. CASE \E p \in Peers : DrainArrives(p)
    <3>1. PICK p \in Peers : DrainArrives(p)
      BY <2>4
    <3>2. CASE p \in ring
      <4> DEFINE loss == [kind |-> "memberDeparted", node |-> p]
                 told == W!WithLoss(dog, loss)
      <4>1. RefreshHealth(told) \/ RefreshHealth(dog)
        BY <3>1, <3>2 DEF DrainArrives
      <4>2. HasPhase(told) /\ told.phase = dog.phase
        BY <2>a, LossPhase
      <4>3. rebuild # "none" => Recoverable(told)
        BY <2>a, <4>2 DEF Recoverable
      <4> HIDE DEF told
      <4>4. QED
        BY <2>a, <4>1, <4>2, <4>3, RefreshKeeps
    <3>3. CASE p \notin ring
      BY <3>1, <3>3, <2>1 DEF DrainArrives
    <3>4. QED
      BY <3>2, <3>3
  <2>5. CASE BeginGeneration
    <3>1. HasPhase(W!Begun(dog)) /\ W!Begun(dog).phase = W!Evaluated(dog).phase
      BY <2>a, BegunPhase
    <3>2. HasPhase(W!Evaluated(W!Begun(dog)))
      BY <3>1, EvaluatedPhase
    <3>3. rebuild # "none" => Recoverable(W!Evaluated(W!Begun(dog)))
      <4> HAVE rebuild # "none"
      <4>1. Recoverable(W!Begun(dog))
        BY <2>a, <3>1, EvaluatedPhase DEF Recoverable
      <4>2. QED
        BY <3>1, <4>1, EvaluatedPhase DEF Recoverable
    <3>4. QED
      BY <2>5, <3>2, <3>3, HealthOfPhase
      DEF BeginGeneration, MonitorInv, HasPhase, BannerTellsTheEnd,
          RebuildOnlyWhileReforming, Recoverable
  <2>6. CASE TokenArrives
    BY <2>6, <2>a, ProgressPhase, QuietKeeps DEF TokenArrives
  <2>7. CASE WatchGeneration
    BY <2>7, <2>a, RefreshKeeps DEF WatchGeneration
  <2>8. CASE StartRebuild
    BY <2>8 DEF StartRebuild, MonitorInv, HasPhase, BannerTellsTheEnd,
                RebuildOnlyWhileReforming
  <2>9. CASE RebuildSucceeds
    <3>1. HasPhase(W!Evaluated(W!WithSuccess(dog)))
      BY <2>a, SuccessPhase, EvaluatedPhase
    <3>2. QED
      BY <2>9, <3>1, HealthOfPhase
      DEF RebuildSucceeds, MonitorInv, HasPhase, BannerTellsTheEnd,
          RebuildOnlyWhileReforming
  <2>10. CASE RebuildFails
    <3>1. HasPhase(W!Evaluated(W!WithFailure(dog)))
      BY <2>a, FailurePhase, EvaluatedPhase
    <3>2. QED
      BY <2>10, <3>1, HealthOfPhase
      DEF RebuildFails, MonitorInv, HasPhase, BannerTellsTheEnd,
          RebuildOnlyWhileReforming
  <2>11. CASE Elapse
    BY <2>11, <2>a, TimePhase, QuietKeeps DEF Elapse
  <2>12. CASE GenerationEnds \/ \E p \in Peers :
                \/ DrainIsLost(p) \/ GoesDown(p) \/ ComesBack(p) \/ Resigns(p)
                \/ DiscoveryChanges(p)
    BY <2>12, <2>1 DEF GenerationEnds, DrainIsLost, GoesDown, ComesBack, Resigns,
                       DiscoveryChanges
  <2>13. CASE UNCHANGED vars
    BY <2>13, <2>1 DEF vars
  <2>14. CASE StartReload
    BY <2>14 DEF StartReload, GroupAnswers, MonitorInv, HasPhase, BannerTellsTheEnd,
                 RebuildOnlyWhileReforming
  <2>15. Unstable \subseteq Peers
    BY MonitorAssumption DEF MonitorAssumption
  <2>16. QED
    BY <2>2, <2>3, <2>4, <2>5, <2>6, <2>7, <2>8, <2>9, <2>10, <2>11, <2>12, <2>13,
       <2>14, <2>15
    DEF Next, Ping
<1>3. QED
  BY <1>1, <1>2, PTL DEF Spec

\* What the user is told of the end of a ring is what the watchdog has decided,
\* at every moment between two awaits: for any peers, network and time limits.
THEOREM BannerTellsTheEndHolds == Spec => []BannerTellsTheEnd
  BY MonitorInvariant, PTL DEF MonitorInv

\* A rebuild exists only while the watchdog is reforming or has given up on it.
THEOREM RebuildOnlyWhileReformingHolds == Spec => []RebuildOnlyWhileReforming
  BY MonitorInvariant, PTL DEF MonitorInv

-----------------------------------------------------------------------------
(* The two services' own lemmas, for the constants of this host.           *)

MP == INSTANCE MembershipProofs
        WITH Offers <- [n \in Nodes |-> {Published[n]}], HostEvents <- {},
             MaxEpoch <- 0, epoch <- 0

WP == INSTANCE RingWatchdogProofs

\* The constants of the host are what both services assume of theirs.
LEMMA ServiceAssumptions == MP!MembershipAssumption /\ WP!WatchdogAssumption
  BY MonitorConfig
  DEF MonitorConfig, MP!MembershipAssumption, WP!WatchdogAssumption, MP!Profile,
      MP!Links, MP!Connectivity, MP!NodeEvents, M!Profile, M!Links,
      M!Connectivity, W!Causes, WP!Causes

\* The operators of the two copies of Membership are the same.
LEMMA SameStorageOperators ==
  /\ \A st : MP!IsStorage(st) <=> M!IsStorage(st)
  /\ \A st, n, e : MP!Heard(st, n, e) = M!Heard(st, n, e)
  /\ \A st, n : MP!Missed(st, n) = M!Missed(st, n)
  /\ \A st, n, e : MP!Moved(st, n, e) = M!Moved(st, n, e)
  /\ \A st : MP!Swept(st) = M!Swept(st)
  /\ \A st, e : MP!Reissued(st, e) = M!Reissued(st, e)
  /\ \A st : MP!Aged(st) = M!Aged(st)
  /\ \A st, n, p, e : MP!Appeared(st, n, p, e) = M!Appeared(st, n, p, e)
<1>1. \A s : MP!Participates(s) = M!Participates(s)
  BY DEF MP!Participates, M!Participates
<1>2. \A s, e : MP!NextState(s, e) = M!NextState(s, e)
  BY <1>1 DEF MP!NextState, M!NextState
<1>3. \A p, s, e : MP!IssueLease(p, s, e) = M!IssueLease(p, s, e)
  BY DEF MP!IssueLease, M!IssueLease, MP!CanHostRequired, M!CanHostRequired,
         MP!Lesser, M!Lesser
<1>4. \A st, n, r : MP!Put(st, n, r) = M!Put(st, n, r)
  BY DEF MP!Put, M!Put
<1>5. \A r : MP!Verdict(r) = M!Verdict(r)
  BY <1>1 DEF MP!Verdict, M!Verdict, MP!IsValid, M!IsValid
<1>6. \A st : MP!IsStorage(st) <=> M!IsStorage(st)
  BY DEF MP!IsStorage, M!IsStorage, MP!MemberRecord, M!MemberRecord,
         MP!NodeStates, M!NodeStates, MP!Profile, M!Profile, MP!Links, M!Links,
         MP!Connectivity, M!Connectivity, MP!Lease, M!Lease
<1>7. \A st, n, e : MP!Heard(st, n, e) = M!Heard(st, n, e)
  BY <1>1, <1>3, <1>4 DEF MP!Heard, M!Heard
<1>8. \A st, n : MP!Missed(st, n) = M!Missed(st, n)
  BY <1>4 DEF MP!Missed, M!Missed, MP!Lesser, M!Lesser
<1>9. \A st, n, e : MP!Moved(st, n, e) = M!Moved(st, n, e)
  BY <1>2, <1>4 DEF MP!Moved, M!Moved
<1>10. \A st : MP!Swept(st) = M!Swept(st)
  BY <1>2, <1>5 DEF MP!Swept, M!Swept, MP!Evicted, M!Evicted
<1>11. \A st, e : MP!Reissued(st, e) = M!Reissued(st, e)
  BY <1>1, <1>3 DEF MP!Reissued, M!Reissued
<1>12. \A st : MP!Aged(st) = M!Aged(st)
  BY DEF MP!Aged, M!Aged
<1>13. \A st, n, p, e : MP!Appeared(st, n, p, e) = M!Appeared(st, n, p, e)
  <2>1. \A p : MP!InitialState(p) = M!InitialState(p)
    BY DEF MP!InitialState, M!InitialState
  <2>2. \A p : MP!JoinEvent(p) = M!JoinEvent(p)
    BY <2>1 DEF MP!JoinEvent, M!JoinEvent
  <2>3. QED
    BY <1>2, <1>3, <1>4, <2>1, <2>2
    DEF MP!Appeared, M!Appeared, MP!Joined, M!Joined
<1>14. QED
  BY <1>6, <1>7, <1>8, <1>9, <1>10, <1>11, <1>12, <1>13

\* Every call of the membership service keeps its storage well typed.
LEMMA StorageStays ==
  ASSUME NEW st, M!IsStorage(st)
  PROVE  /\ \A n \in Nodes : /\ M!IsStorage(M!Appeared(st, n, Published[n], 0))
                             /\ M!IsStorage(M!Heard(st, n, 0))
                             /\ M!IsStorage(M!Missed(st, n))
                             /\ \A e : M!IsStorage(M!Moved(st, n, e))
         /\ M!IsStorage(M!Swept(st))
         /\ M!IsStorage(M!Reissued(st, 0))
         /\ M!IsStorage(M!Aged(st))
<1>1. MP!IsStorage(st) /\ MP!MembershipAssumption
  BY SameStorageOperators, ServiceAssumptions
<1>2. ASSUME NEW n \in Nodes
      PROVE  /\ M!IsStorage(M!Appeared(st, n, Published[n], 0))
             /\ M!IsStorage(M!Heard(st, n, 0))
             /\ M!IsStorage(M!Missed(st, n))
             /\ \A e : M!IsStorage(M!Moved(st, n, e))
  <2>1. Published[n] \in MP!Profile
    BY MonitorConfig DEF MonitorConfig, MP!Profile, M!Profile, MP!Links, M!Links,
                         MP!Connectivity, M!Connectivity
  <2>2. MP!IsStorage(MP!Appeared(st, n, Published[n], 0))
    BY <1>1, <2>1, MP!AppearedType
  <2>3. MP!IsStorage(MP!Heard(st, n, 0))
    BY <1>1, MP!HeardType
  <2>4. MP!IsStorage(MP!Missed(st, n))
    BY <1>1, MP!MissedType
  <2>5. \A e : MP!IsStorage(MP!Moved(st, n, e))
    BY <1>1, MP!MovedType
  <2>6. QED
    BY <2>2, <2>3, <2>4, <2>5, SameStorageOperators
<1>3. MP!IsStorage(MP!Swept(st)) /\ MP!IsStorage(MP!Reissued(st, 0))
                                 /\ MP!IsStorage(MP!Aged(st))
  BY <1>1, MP!SweptType, MP!ReissuedType, MP!AgedType
<1>4. QED
  BY <1>2, <1>3, SameStorageOperators

\* So are those of the watchdog.
LEMMA SameDogOperators ==
  /\ WP!Watchdog = W!Watchdog
  /\ WP!Fresh = W!Fresh
  /\ \A w : /\ WP!WithProgress(w) = W!WithProgress(w)
            /\ \A r : WP!WithLoss(w, r) = W!WithLoss(w, r)
            /\ WP!WithSuccess(w) = W!WithSuccess(w)
            /\ WP!WithUnavailable(w) = W!WithUnavailable(w)
            /\ WP!WithFailure(w) = W!WithFailure(w)
            /\ WP!Evaluated(w) = W!Evaluated(w)
            /\ WP!Begun(w) = W!Begun(w)
            /\ WP!WithTime(w) = W!WithTime(w)
  BY DEF WP!Watchdog, W!Watchdog, WP!Fresh, W!Fresh, WP!WithProgress,
         W!WithProgress, WP!WithLoss, W!WithLoss, WP!WithSuccess, W!WithSuccess,
         WP!WithUnavailable, W!WithUnavailable, WP!WithFailure, W!WithFailure,
         WP!Evaluated, W!Evaluated, WP!Begun, W!Begun, WP!WithTime, W!WithTime,
         WP!Admits, W!Admits, WP!LossConfirmed, W!LossConfirmed, WP!Older,
         W!Older, WP!QuietBound, W!QuietBound, WP!Phases, W!Phases, WP!Causes,
         W!Causes

\* A set of naturals that is not empty has a least element.
LEMMA NatMin ==
  ASSUME NEW S \in SUBSET Nat, S # {}
  PROVE  \E n \in S : \A m \in S : n <= m
<1> DEFINE R == {ss \in Nat \X Nat : ss[1] < ss[2]}
<1>1. IsWellFoundedOn(R, Nat)
  BY NatLessThanWellFounded DEF OpToRel
<1>2. \A x, y \in Nat : x < y => <<x, y>> \in R
  OBVIOUS
<1> HIDE DEF R
<1>3. PICK x \in S : \A y \in S : ~(<<y, x>> \in R)
  BY <1>1, WFMin
<1>4. x \in Nat
  OBVIOUS
<1>5. \A y \in S : y \in Nat /\ ~(y < x)
  BY <1>2, <1>3
<1>6. QED
  BY <1>4, <1>5

\* A host has a place in the order of identities.
LEMMA PositionType ==
  ASSUME NEW n \in Nodes
  PROVE  Position(n) \in Nat /\ IdOrder[Position(n)] = n
<1>1. IdOrder \in Seq(Nodes)
  BY MonitorAssumption DEF MonitorAssumption
<1>2. \E i \in DOMAIN IdOrder : IdOrder[i] = n
  BY DEF Nodes, Range
<1>3. Position(n) \in DOMAIN IdOrder /\ IdOrder[Position(n)] = n
  BY <1>2 DEF Position
<1>4. DOMAIN IdOrder \subseteq Nat
  BY <1>1
<1>5. QED
  BY <1>3, <1>4

\* Of some hosts one comes first.
LEMMA FirstType ==
  ASSUME NEW S \in SUBSET Nodes, S # {}
  PROVE  First(S) \in S
<1> DEFINE P == {Position(n) : n \in S}
<1>1. P \in SUBSET Nat /\ P # {}
  BY PositionType
<1>2. PICK i \in P : \A j \in P : i <= j
  BY <1>1, NatMin
<1>3. \E n \in S : \A m \in S : Position(n) <= Position(m)
  BY <1>2
<1>4. QED
  BY <1>3 DEF First

DogIsGood(w) == WP!GoodDog(w)

\* Every call of the watchdog keeps it good.
LEMMA DogStaysGood ==
  ASSUME NEW w, DogIsGood(w)
  PROVE  /\ DogIsGood(W!WithProgress(w))
         /\ \A r \in Reasons : DogIsGood(W!WithLoss(w, r))
         /\ DogIsGood(W!WithSuccess(w))
         /\ DogIsGood(W!WithUnavailable(w))
         /\ DogIsGood(W!WithFailure(w))
         /\ DogIsGood(W!Evaluated(w))
         /\ DogIsGood(W!Begun(w))
         /\ DogIsGood(W!WithTime(w))
<1>1. WP!GoodDog(w) /\ WP!WatchdogAssumption
  BY ServiceAssumptions DEF DogIsGood
<1>2. WP!GoodDog(WP!WithProgress(w))
  BY <1>1, WP!ProgressGood
<1>3. \A r \in Reasons : WP!GoodDog(WP!WithLoss(w, r))
  BY <1>1, WP!LossGood
<1>4. WP!GoodDog(WP!WithSuccess(w))
  BY <1>1, WP!SuccessGood
<1>5. WP!GoodDog(WP!WithUnavailable(w))
  BY <1>1, WP!UnavailableGood
<1>6. WP!GoodDog(WP!WithFailure(w))
  BY <1>1, WP!FailureGood
<1>7. WP!GoodDog(WP!Evaluated(w))
  BY <1>1, WP!EvaluatedGood
<1>8. WP!GoodDog(WP!Begun(w))
  BY <1>1, WP!BegunGood
<1>9. WP!GoodDog(WP!WithTime(w))
  BY <1>1, WP!TimeGood
<1>10. QED
  BY <1>2, <1>3, <1>4, <1>5, <1>6, <1>7, <1>8, <1>9, SameDogOperators
  DEF DogIsGood

\* A good watchdog is well typed.
LEMMA GoodDogType ==
  ASSUME NEW w, DogIsGood(w) PROVE w \in W!Watchdog
  BY SameDogOperators DEF DogIsGood, WP!GoodDog

\* The verdict is one of the four the app knows.
LEMMA HealthType ==
  ASSUME NEW w
  PROVE  W!Health(w) \in {"healthy", "stalled", "reforming", "lost"}
  BY DEF W!Health

-----------------------------------------------------------------------------
(* The type invariant.                                                     *)

MembershipTypes ==
  /\ M!IsStorage(storage) /\ sinceEpoch \in 0..Dwell
  /\ epochMembers \subseteq Nodes

WatchTypes ==
  /\ DogIsGood(dog)
  /\ health \in {"healthy", "stalled", "reforming", "lost"}
  /\ rebuild \in {"none", "created", "running", "reloading"}

LoopTypes ==
  loop \in [todo : SUBSET Peers, known : BOOLEAN,
            timer : 0..ProbeInterval + PingTimeout]

RestTypes ==
  /\ ring \subseteq Peers
  /\ profiles \in {"held", "reset", "gone"}
  /\ generation \in {"idle", "streaming"}
  /\ up \in [Peers -> BOOLEAN] /\ intact \in BOOLEAN
  /\ seen \subseteq Peers /\ drains \subseteq Peers /\ steady \subseteq Peers

MonitorTypes == MembershipTypes /\ WatchTypes /\ LoopTypes /\ RestTypes

\* The parts below are the type invariant, and more of the watchdog.
LEMMA TypesAreTypeOK ==
  ASSUME MonitorTypes PROVE TypeOK
  BY GoodDogType
  DEF MonitorTypes, MembershipTypes, WatchTypes, LoopTypes, RestTypes, TypeOK,
      M!TypeOK, W!TypeOK

\* refreshHealth leaves a well typed watchdog, verdict and task.
LEMMA RefreshTypes ==
  ASSUME NEW w, DogIsGood(w), WatchTypes, RefreshHealth(w)
  PROVE  WatchTypes'
<1>1. DogIsGood(W!Evaluated(w)) /\ DogIsGood(W!WithUnavailable(W!Evaluated(w)))
  BY DogStaysGood
<1>2. DogIsGood(Refreshed(w))
  BY <1>1 DEF Refreshed
<1>3. dog' = Refreshed(w) /\ health' = W!Health(Refreshed(w))
      /\ rebuild' \in {"created", rebuild}
  BY DEF RefreshHealth
<1>4. QED
  BY <1>2, <1>3, HealthType DEF WatchTypes, DogIsGood

\* Whom tick evicts is a member, so its loss is one the watchdog can record.
LEMMA ConsumedGood ==
  ASSUME NEW w, DogIsGood(w), NEW st, M!IsStorage(st)
  PROVE  DogIsGood(Consumed(w, st))
<1>1. CASE M!Evicted(st) # {}
  <2> DEFINE n == First(M!Evicted(st))
  <2>1. M!Evicted(st) \in SUBSET Nodes
    BY DEF M!Evicted, M!IsStorage
  <2>2. n \in Nodes
    BY <1>1, <2>1, FirstType
  <2> HIDE DEF n
  <2>3. LossOf(st, n) \in Reasons
    BY <2>2 DEF LossOf, Reasons
  <2>4. Consumed(w, st) = W!WithLoss(w, LossOf(st, n))
    BY <1>1 DEF Consumed, n
  <2>5. QED
    BY <2>3, <2>4, DogStaysGood
<1>2. QED
  BY <1>1 DEF Consumed

\* The loop between two rounds, and in one.
LEMMA SleepingType ==
  /\ Sleeping \in [todo : SUBSET Peers, known : BOOLEAN,
                   timer : 0..ProbeInterval + PingTimeout]
  /\ \A S \in SUBSET Peers, k \in BOOLEAN :
       Asking(S, k) \in [todo : SUBSET Peers, known : BOOLEAN,
                         timer : 0..ProbeInterval + PingTimeout]
  BY MonitorAssumption DEF MonitorAssumption, Sleeping, Asking

\* The end of a round.
LEMMA RoundTypes ==
  ASSUME NEW st, M!IsStorage(st), MonitorTypes, FinishRound(st)
  PROVE  MembershipTypes' /\ WatchTypes' /\ LoopTypes'
<1>1. M!IsStorage(M!Swept(st)) /\ M!IsStorage(M!Reissued(M!Swept(st), 0))
  BY StorageStays
<1>2. M!PlanningSet(M!Swept(st)) \subseteq Nodes /\ 0 \in 0..Dwell
  BY <1>1, MonitorConfig DEF M!PlanningSet, M!IsStorage, MonitorConfig
<1>3. MembershipTypes'
  BY <1>1, <1>2 DEF FinishRound, MonitorTypes, MembershipTypes
<1>4. WatchTypes'
  <2>1. DogIsGood(Consumed(dog, st)) /\ RefreshHealth(Consumed(dog, st))
    BY ConsumedGood DEF MonitorTypes, WatchTypes, FinishRound
  <2>2. QED
    BY <2>1, RefreshTypes DEF MonitorTypes
<1>5. LoopTypes'
  BY SleepingType DEF FinishRound, LoopTypes
<1>6. QED
  BY <1>3, <1>4, <1>5


\* start() leaves a well typed host.
LEMMA TypesInit == Init => MonitorTypes
<1> SUFFICES ASSUME Init PROVE MonitorTypes
  OBVIOUS
<1>1. M!IsStorage([n \in {} |-> n])
  BY DEF M!IsStorage
<1>2. MembershipTypes
  <2>1. Local \in Nodes /\ 0 \in 0..Dwell
    BY MonitorAssumption, MonitorConfig DEF MonitorAssumption, MonitorConfig
  <2>2. M!IsStorage(M!Appeared([n \in {} |-> n], Local, Published[Local], 0))
    BY <1>1, <2>1, StorageStays
  <2>3. QED
    BY <2>1, <2>2 DEF Init, MembershipTypes
<1>3. DogIsGood(W!Fresh)
  BY WP!FreshGood, ServiceAssumptions, SameDogOperators DEF DogIsGood
<1>4. WatchTypes
  BY <1>3 DEF Init, WatchTypes
<1>5. LoopTypes
  BY MonitorAssumption DEF MonitorAssumption, Init, LoopTypes
<1>6. RestTypes
  BY DEF Init, RestTypes
<1>7. QED
  BY <1>2, <1>4, <1>5, <1>6 DEF MonitorTypes

\* Every step of the host and of its environment keeps it well typed.
LEMMA StepTypes == MonitorTypes /\ [Next]_vars => MonitorTypes'
<1> SUFFICES ASSUME MonitorTypes, [Next]_vars PROVE MonitorTypes'
  OBVIOUS
<1>a. MembershipTypes /\ WatchTypes /\ LoopTypes /\ RestTypes
  BY DEF MonitorTypes
<1>b. M!IsStorage(storage) /\ DogIsGood(dog)
  BY <1>a DEF MembershipTypes, WatchTypes
<1>c. ASSUME UNCHANGED membership PROVE MembershipTypes'
  BY <1>a, <1>c DEF MembershipTypes, membership
<1>d. ASSUME UNCHANGED <<dog, health, rebuild>> PROVE WatchTypes'
  BY <1>a, <1>d DEF WatchTypes, DogIsGood
<1>e. ASSUME UNCHANGED loop PROVE LoopTypes'
  BY <1>a, <1>e DEF LoopTypes
<1>f. ASSUME UNCHANGED <<ring, profiles, generation, environment>>
      PROVE  RestTypes'
  BY <1>a, <1>f DEF RestTypes, environment
<1>1. CASE StartRound
  <2> DEFINE st == M!Appeared(storage, Local, Published[Local], 0)
  <2>1. M!IsStorage(st)
    BY <1>b, StorageStays, MonitorAssumption DEF MonitorAssumption
  <2>2. RestTypes'
    BY <1>1, <1>f DEF StartRound
  <2> HIDE DEF st
  <2>3. CASE ring = {}
    BY <1>1, <2>1, <2>2, <2>3, RoundTypes DEF StartRound, MonitorTypes, st
  <2>4. CASE ring # {}
    <3>1. /\ storage' = st
          /\ loop' = Asking(ring, profiles # "gone")
          /\ UNCHANGED <<sinceEpoch, epochMembers, dog, health, rebuild>>
      BY <1>1, <2>4 DEF StartRound, st
    <3>2. MembershipTypes'
      BY <1>a, <2>1, <3>1 DEF MembershipTypes
    <3>3. LoopTypes'
      BY <1>a, <3>1, SleepingType DEF LoopTypes, RestTypes
    <3>4. QED
      BY <1>d, <2>2, <3>1, <3>2, <3>3 DEF MonitorTypes
  <2>5. QED
    BY <2>3, <2>4
<1>2. ASSUME NEW p \in Peers, NEW alive \in BOOLEAN, PingReturns(p, alive)
      PROVE  MonitorTypes'
  <2> DEFINE st == AfterPing(p, alive)
  <2>1. M!IsStorage(st)
    <3>1. p \in Nodes
      BY DEF Peers
    <3>2. M!IsStorage(M!Appeared(storage, p, Published[p], 0))
      BY <1>b, <3>1, StorageStays
    <3>3. /\ M!IsStorage(M!Heard(M!Appeared(storage, p, Published[p], 0), p, 0))
          /\ M!IsStorage(M!Heard(storage, p, 0))
          /\ M!IsStorage(M!Missed(storage, p))
      BY <1>b, <3>1, <3>2, StorageStays
    <3>4. QED
      BY <3>3 DEF AfterPing
  <2>2. RestTypes'
    BY <1>a, <1>2 DEF RestTypes, PingReturns
  <2> HIDE DEF st
  <2>3. CASE loop.todo = {p}
    <3>1. FinishRound(st)
      BY <1>2, <2>3 DEF PingReturns, st
    <3>2. QED
      BY <2>1, <2>2, <3>1, RoundTypes DEF MonitorTypes
  <2>4. CASE loop.todo # {p}
    <3>1. /\ storage' = st
          /\ loop' = Asking(loop.todo \ {p}, loop.known)
          /\ UNCHANGED <<sinceEpoch, epochMembers, dog, health, rebuild>>
      BY <1>2, <2>4 DEF PingReturns, st
    <3>2. MembershipTypes'
      BY <1>a, <2>1, <3>1 DEF MembershipTypes
    <3>3. LoopTypes'
      BY <1>a, <3>1, SleepingType DEF LoopTypes
    <3>4. QED
      BY <1>d, <2>2, <3>1, <3>2, <3>3 DEF MonitorTypes
  <2>5. QED
    BY <2>3, <2>4
<1>3. ASSUME NEW p \in Peers, DrainArrives(p) PROVE MonitorTypes'
  <2>1. LoopTypes' /\ RestTypes'
    BY <1>a, <1>e, <1>3 DEF RestTypes, DrainArrives
  <2>2. p \in Nodes /\ [kind |-> "memberDeparted", node |-> p] \in Reasons
    BY DEF Peers, Reasons
  <2>3. CASE p \in ring
    <3> DEFINE told == W!WithLoss(dog, [kind |-> "memberDeparted", node |-> p])
    <3>1. DogIsGood(told)
      BY <1>b, <2>2, DogStaysGood
    <3>2. RefreshHealth(told) \/ RefreshHealth(dog)
      BY <1>3, <2>3 DEF DrainArrives
    <3> HIDE DEF told
    <3>3. WatchTypes'
      BY <1>a, <1>b, <3>1, <3>2, RefreshTypes
    <3>4. MembershipTypes'
      BY <1>a, <1>b, <1>3, <2>2, <2>3, StorageStays DEF DrainArrives, MembershipTypes
    <3>5. QED
      BY <2>1, <3>3, <3>4 DEF MonitorTypes
  <2>4. CASE p \notin ring
    BY <1>3, <1>c, <1>d, <2>1, <2>4 DEF DrainArrives, MonitorTypes, membership
  <2>5. QED
    BY <2>3, <2>4
<1>4. CASE BeginGeneration
  <2>1. DogIsGood(W!Evaluated(W!Begun(dog)))
    BY <1>b, DogStaysGood
  <2>2. WatchTypes'
    BY <1>4, <1>a, <2>1, HealthType DEF BeginGeneration, WatchTypes, DogIsGood
  <2>3. RestTypes'
    BY <1>4, <1>a DEF BeginGeneration, RestTypes, environment
  <2>4. QED
    BY <1>4, <1>c, <1>e, <2>2, <2>3 DEF BeginGeneration, MonitorTypes
<1>5. CASE TokenArrives
  <2>1. WatchTypes'
    BY <1>5, <1>a, <1>b, DogStaysGood DEF TokenArrives, WatchTypes, DogIsGood
  <2>2. QED
    BY <1>5, <1>c, <1>e, <1>f, <2>1 DEF TokenArrives, MonitorTypes
<1>6. CASE GenerationEnds
  <2>1. RestTypes'
    BY <1>6, <1>a DEF GenerationEnds, RestTypes, environment
  <2>2. QED
    BY <1>6, <1>c, <1>d, <1>e, <2>1 DEF GenerationEnds, MonitorTypes
<1>7. CASE WatchGeneration
  <2>1. WatchTypes'
    BY <1>7, <1>a, <1>b, RefreshTypes DEF WatchGeneration
  <2>2. RestTypes'
    BY <1>7, <1>a DEF WatchGeneration, RestTypes, environment
  <2>3. QED
    BY <1>7, <1>c, <1>e, <2>1, <2>2 DEF WatchGeneration, MonitorTypes
<1>8. CASE StartRebuild
  <2>1. WatchTypes'
    BY <1>8, <1>a DEF StartRebuild, WatchTypes, DogIsGood
  <2>2. RestTypes'
    BY <1>8, <1>a DEF StartRebuild, RestTypes, Rebuilt
  <2>3. QED
    BY <1>8, <1>c, <1>e, <2>1, <2>2 DEF StartRebuild, MonitorTypes
<1>9. CASE RebuildSucceeds
  <2>1. DogIsGood(W!Evaluated(W!WithSuccess(dog)))
    BY <1>b, DogStaysGood
  <2>2. WatchTypes'
    BY <1>9, <2>1, HealthType DEF RebuildSucceeds, WatchTypes, DogIsGood
  <2>3. RestTypes'
    BY <1>9, <1>a DEF RebuildSucceeds, GroupAnswers, RestTypes
  <2>4. QED
    BY <1>9, <1>c, <1>e, <2>2, <2>3 DEF RebuildSucceeds, MonitorTypes
<1>10. CASE RebuildFails
  <2>1. DogIsGood(W!Evaluated(W!WithFailure(dog)))
    BY <1>b, DogStaysGood
  <2>2. WatchTypes'
    BY <1>10, <2>1, HealthType DEF RebuildFails, WatchTypes, DogIsGood
  <2>3. QED
    BY <1>10, <1>c, <1>e, <1>f, <2>2 DEF RebuildFails, MonitorTypes
<1>11. CASE Elapse
  <2>1. WatchTypes'
    BY <1>11, <1>a, <1>b, DogStaysGood DEF Elapse, WatchTypes, DogIsGood
  <2>2. sinceEpoch' \in 0..Dwell
    BY <1>11, <1>a, MonitorConfig
    DEF Elapse, MembershipTypes, M!Lesser, MonitorConfig
  <2>3. MembershipTypes'
    BY <1>11, <1>a, <1>b, <2>2, StorageStays DEF Elapse, MembershipTypes
  <2>4. LoopTypes'
    BY <1>11, <1>a, MonitorAssumption DEF Elapse, LoopTypes, MonitorAssumption
  <2>5. RestTypes'
    BY <1>11, <1>a DEF Elapse, RestTypes
  <2>6. QED
    BY <2>1, <2>3, <2>4, <2>5 DEF MonitorTypes
<1>12. ASSUME NEW p \in Peers,
              \/ DrainIsLost(p) \/ GoesDown(p) \/ ComesBack(p) \/ Resigns(p)
              \/ DiscoveryChanges(p)
       PROVE  MonitorTypes'
  <2>1. RestTypes'
    BY <1>12, <1>a DEF RestTypes, DrainIsLost, GoesDown, ComesBack, Resigns,
                       DiscoveryChanges
  <2>2. UNCHANGED membership /\ UNCHANGED <<dog, health, rebuild>>
                             /\ UNCHANGED loop
    BY <1>12 DEF DrainIsLost, GoesDown, ComesBack, Resigns, DiscoveryChanges
  <2>3. QED
    BY <1>c, <1>d, <1>e, <2>1, <2>2 DEF MonitorTypes
<1>13. CASE UNCHANGED vars
  BY <1>13, <1>c, <1>d, <1>e, <1>f DEF vars, MonitorTypes
<1>14. CASE StartReload
  <2>1. WatchTypes'
    BY <1>14, <1>a DEF StartReload, WatchTypes, DogIsGood
  <2>2. RestTypes'
    BY <1>14, <1>a DEF StartReload, RestTypes
  <2>3. QED
    BY <1>14, <1>c, <1>e, <2>1, <2>2 DEF StartReload, MonitorTypes
<1>15. Unstable \subseteq Peers
  BY MonitorAssumption DEF MonitorAssumption
<1>16. QED
  BY <1>1, <1>2, <1>3, <1>4, <1>5, <1>6, <1>7, <1>8, <1>9, <1>10, <1>11, <1>12,
     <1>13, <1>14, <1>15
  DEF Next, Ping

\* So the host is well typed at every moment.
LEMMA MonitorIsWellTyped == Spec => []MonitorTypes
  BY TypesInit, StepTypes, PTL DEF Spec

\* Type correctness: every record is one of a member, and only peers are asked,
\* listed, drained or rebuilt with, the local node never (ringPeers).
THEOREM TypeCorrect == Spec => []TypeOK
  BY MonitorIsWellTyped, TypesAreTypeOK, PTL

-----------------------------------------------------------------------------
(* What the calls do to one record.                                        *)

\* The records of the others stay.
OthersStay(st, after, n) ==
  /\ DOMAIN after \subseteq DOMAIN st \cup {n}
  /\ \A m \in DOMAIN after \ {n} : after[m] = st[m]

\* after is st with record r written for n.
Writes(st, after, n, r) ==
  after[n] = r /\ DOMAIN after = DOMAIN st \cup {n} /\ OthersStay(st, after, n)

\* Storing a record writes it, and no other.
LEMMA PutWrites ==
  ASSUME NEW st, NEW n, NEW r
  PROVE  Writes(st, M!Put(st, n, r), n, r)
<1>1. M!Put(st, n, r)[n] = r
  BY DEF M!Put
<1>2. DOMAIN M!Put(st, n, r) = DOMAIN st \cup {n}
  BY DEF M!Put
<1>3. \A m \in DOMAIN M!Put(st, n, r) \ {n} : M!Put(st, n, r)[m] = st[m]
  BY DEF M!Put
<1>4. QED
  BY <1>1, <1>2, <1>3 DEF Writes, OthersStay

\* nodeAppeared: a usable node stays usable, and a new one is.
LEMMA AppearedRecord ==
  ASSUME NEW st, M!IsStorage(st), NEW n \in Nodes, NEW a,
         a = M!Appeared(st, n, Published[n], 0)
  PROVE  /\ n \in DOMAIN a /\ OthersStay(st, a, n)
         /\ a[n].profile = Published[n]
         /\ n \notin DOMAIN st \/ M!Participates(st[n].state) =>
              M!Participates(a[n].state)
<1>1. CASE n \notin DOMAIN st
  <2> DEFINE s == M!InitialState(Published[n])
             r == M!Joined(Published[n], s, 0)
  <2>1. M!Participates(s)
    BY DEF M!Participates, M!InitialState
  <2>2. a = M!Put(st, n, r)
    BY <1>1 DEF M!Appeared
  <2> HIDE DEF s
  <2>3. r.profile = Published[n] /\ r.state = s
    BY DEF M!Joined
  <2> HIDE DEF r
  <2>4. Writes(st, a, n, r)
    BY <2>2, PutWrites
  <2>5. QED
    BY <2>1, <2>3, <2>4 DEF Writes
<1>2. CASE n \in DOMAIN st /\ st[n].state = "suspended"
  <2> DEFINE s == M!NextState(st[n].state, M!JoinEvent(Published[n]))
             r == M!Joined(Published[n], s, 0)
  <2>1. ~M!Participates(st[n].state)
    BY <1>2 DEF M!Participates
  <2>2. a = M!Put(st, n, r)
    BY <1>2 DEF M!Appeared
  <2> HIDE DEF s
  <2>3. r.profile = Published[n]
    BY DEF M!Joined
  <2> HIDE DEF r
  <2>4. Writes(st, a, n, r)
    BY <2>2, PutWrites
  <2>5. QED
    BY <1>2, <2>1, <2>3, <2>4 DEF Writes
<1>3. CASE n \in DOMAIN st /\ st[n].state # "suspended"
  <2> DEFINE r == [st[n] EXCEPT !.profile = Published[n], !.missed = 0]
  <2>1. st[n] \in M!MemberRecord
    BY <1>3 DEF M!IsStorage
  <2>2. r.profile = Published[n] /\ r.state = st[n].state
    BY <2>1 DEF M!MemberRecord
  <2>3. a = M!Put(st, n, r)
    BY <1>3 DEF M!Appeared
  <2> HIDE DEF r
  <2>4. Writes(st, a, n, r)
    BY <2>3, PutWrites
  <2>5. QED
    BY <1>3, <2>2, <2>4 DEF Writes
<1>4. QED
  BY <1>1, <1>2, <1>3

\* What an answer leaves behind: no misses, and a lease of full length.
FullLease(p) == M!Lesser(LeaseDuration, Support[p.link])

\* heartbeatSucceeded: the misses are forgotten and the lease is renewed.
LEMMA HeardRecord ==
  ASSUME NEW st, M!IsStorage(st), NEW n \in DOMAIN st, NEW a,
         a = M!Heard(st, n, 0)
  PROVE  /\ n \in DOMAIN a /\ OthersStay(st, a, n)
         /\ a[n].profile = st[n].profile
         /\ a[n].state = st[n].state
         /\ a[n].missed = 0
         /\ M!Participates(st[n].state) =>
              a[n].lease.remaining = FullLease(st[n].profile)
<1> DEFINE lease == IF M!Participates(st[n].state)
                      THEN M!IssueLease(st[n].profile, st[n].state, 0)
                      ELSE st[n].lease
           r == [st[n] EXCEPT !.missed = 0, !.lease = lease]
<1>1. st[n] \in M!MemberRecord
  BY DEF M!IsStorage
<1>2. a = M!Put(st, n, r)
  BY DEF M!Heard
<1>3. M!Participates(st[n].state) =>
        lease.remaining = FullLease(st[n].profile)
  BY DEF M!IssueLease, FullLease
<1> HIDE DEF lease
<1>4. /\ r.profile = st[n].profile /\ r.state = st[n].state
      /\ r.missed = 0 /\ r.lease = lease
  BY <1>1 DEF M!MemberRecord
<1> HIDE DEF r
<1>5. Writes(st, a, n, r)
  BY <1>2, PutWrites
<1>6. QED
  BY <1>3, <1>4, <1>5 DEF Writes

\* heartbeatFailed leaves the profile alone, and the records of the others.
LEMMA MissedRecord ==
  ASSUME NEW st, M!IsStorage(st), NEW n, NEW a,
         a = M!Missed(st, n)
  PROVE  /\ DOMAIN a = DOMAIN st /\ OthersStay(st, a, n)
         /\ n \in DOMAIN a => a[n].profile = st[n].profile
<1>1. CASE n \in DOMAIN st
  <2> DEFINE r == [st[n] EXCEPT !.missed = M!Lesser(@ + 1, MissLimit)]
  <2>1. st[n] \in M!MemberRecord
    BY <1>1 DEF M!IsStorage
  <2>2. r.profile = st[n].profile
    BY <2>1 DEF M!MemberRecord
  <2>3. a = M!Put(st, n, r)
    BY <1>1 DEF M!Missed
  <2> HIDE DEF r
  <2>4. Writes(st, a, n, r)
    BY <2>3, PutWrites
  <2>5. DOMAIN a = DOMAIN st
    BY <1>1, <2>4 DEF Writes
  <2>6. QED
    BY <2>2, <2>4, <2>5 DEF Writes
<1>2. CASE n \notin DOMAIN st
  BY <1>2 DEF M!Missed, OthersStay
<1>3. QED
  BY <1>1, <1>2

\* So does an announced drain.
LEMMA MovedRecord ==
  ASSUME NEW st, M!IsStorage(st), NEW n, NEW e, NEW a,
         a = M!Moved(st, n, e)
  PROVE  /\ DOMAIN a = DOMAIN st /\ OthersStay(st, a, n)
         /\ n \in DOMAIN a => a[n].profile = st[n].profile
<1>1. CASE n \in DOMAIN st
  <2> DEFINE r == [st[n] EXCEPT !.state = M!NextState(@, e)]
  <2>1. st[n] \in M!MemberRecord
    BY <1>1 DEF M!IsStorage
  <2>2. r.profile = st[n].profile
    BY <2>1 DEF M!MemberRecord
  <2>3. a = M!Put(st, n, r)
    BY <1>1 DEF M!Moved
  <2> HIDE DEF r
  <2>4. Writes(st, a, n, r)
    BY <2>3, PutWrites
  <2>5. DOMAIN a = DOMAIN st
    BY <1>1, <2>4 DEF Writes
  <2>6. QED
    BY <2>2, <2>4, <2>5 DEF Writes
<1>2. CASE n \notin DOMAIN st
  BY <1>2 DEF M!Moved, OthersStay
<1>3. QED
  BY <1>1, <1>2

\* A tick moves nobody but those it evicts; a new epoch moves nobody.
LEMMA TickRecords ==
  ASSUME NEW st, M!IsStorage(st)
  PROVE  /\ DOMAIN M!Swept(st) = DOMAIN st
         /\ DOMAIN M!Reissued(st, 0) = DOMAIN st
         /\ \A n \in DOMAIN st :
              /\ M!Swept(st)[n].profile = st[n].profile
              /\ M!Verdict(st[n]) = "stays" => M!Swept(st)[n] = st[n]
              /\ M!Reissued(st, 0)[n].profile = st[n].profile
              /\ M!Reissued(st, 0)[n].state = st[n].state
<1>1. ASSUME NEW n \in DOMAIN st
      PROVE  /\ M!Swept(st)[n].profile = st[n].profile
             /\ M!Verdict(st[n]) = "stays" => M!Swept(st)[n] = st[n]
             /\ M!Reissued(st, 0)[n].profile = st[n].profile
             /\ M!Reissued(st, 0)[n].state = st[n].state
  <2>1. st[n] \in M!MemberRecord
    BY DEF M!IsStorage
  <2>2. QED
    BY <2>1 DEF M!Swept, M!Evicted, M!Reissued, M!MemberRecord
<1>2. QED
  BY <1>1 DEF M!Swept, M!Reissued

\* The passing of time takes one unit off every lease, and nothing else.
LEMMA AgedRecords ==
  ASSUME NEW st, M!IsStorage(st)
  PROVE  /\ DOMAIN M!Aged(st) = DOMAIN st
         /\ \A n \in DOMAIN st :
              /\ M!Aged(st)[n].profile = st[n].profile
              /\ M!Aged(st)[n].state = st[n].state
              /\ M!Aged(st)[n].missed = st[n].missed
              /\ st[n].lease.remaining > 0 =>
                   M!Aged(st)[n].lease.remaining = st[n].lease.remaining - 1
<1>1. ASSUME NEW n \in DOMAIN st
      PROVE  /\ M!Aged(st)[n].profile = st[n].profile
             /\ M!Aged(st)[n].state = st[n].state
             /\ M!Aged(st)[n].missed = st[n].missed
             /\ st[n].lease.remaining > 0 =>
                  M!Aged(st)[n].lease.remaining = st[n].lease.remaining - 1
  <2>1. st[n] \in M!MemberRecord
    BY DEF M!IsStorage
  <2>2. QED
    BY <2>1 DEF M!Aged, M!MemberRecord, M!Lease
<1>2. QED
  BY <1>1 DEF M!Aged

-----------------------------------------------------------------------------
(* Peers that answer stay.                                                 *)

\* The longest the rest of a round can take, with the peers of todo to come.
Remaining(todo, timer) == (Cardinality(todo) - 1) * PingTimeout + timer

\* Its lease lasts to the end of the round in which it has answered.
Covered(r, todo, timer) ==
  r.missed = 0 /\ r.lease.remaining > Remaining(todo, timer)

SteadyPeer(p) ==
  /\ up[p] /\ p \in seen /\ p \in ring /\ p \notin drains
  /\ p \in DOMAIN storage =>
       /\ M!Participates(storage[p].state)
       /\ loop.todo # {} /\ p \notin loop.todo =>
            Covered(storage[p], loop.todo, loop.timer)

AsPublished(st) == \A n \in DOMAIN st : st[n].profile = Published[n]

SteadyInv == AsPublished(storage) /\ \A p \in steady : SteadyPeer(p)

\* What is needed of multiplication.
LEMMA TimesOne ==
  /\ PingTimeout \in Nat
  /\ \A k \in Int : (k + 1) * PingTimeout = k * PingTimeout + PingTimeout
  /\ \A j, k \in Int : j <= k => j * PingTimeout <= k * PingTimeout
<1>1. PingTimeout \in Nat
  BY MonitorAssumption DEF MonitorAssumption
<1>2. QED
  BY <1>1

\* There are finitely many peers.
LEMMA PeersFinite ==
  /\ IsFiniteSet(Peers)
  /\ \A S \in SUBSET Peers : /\ IsFiniteSet(S)
                             /\ Cardinality(S) \in Nat
                             /\ Cardinality(S) <= Cardinality(Peers)
<1>1. IdOrder \in Seq(Nodes)
  BY MonitorAssumption DEF MonitorAssumption
<1>2. IsFiniteSet(1..Len(IdOrder))
  BY <1>1, FS_Interval
<1>3. IdOrder \in Surjection(1..Len(IdOrder), Nodes)
  BY <1>1 DEF Nodes, Range, Surjection
<1>4. IsFiniteSet(Nodes)
  BY <1>2, <1>3, FS_Surjection
<1>5. IsFiniteSet(Peers)
  BY <1>4, FS_Subset DEF Peers
<1>6. QED
  BY <1>5, FS_Subset, FS_CardinalityType

\* At first nobody but the local node has a record.
LEMMA SteadyInit == Init => SteadyInv
<1> SUFFICES ASSUME Init PROVE SteadyInv
  OBVIOUS
<1> DEFINE none == [n \in {} |-> n]
<1>1. M!IsStorage(none) /\ DOMAIN none = {}
  BY DEF M!IsStorage
<1>2. Local \in Nodes /\ Local \notin Peers
  BY MonitorAssumption DEF MonitorAssumption, Peers
<1>3. storage = M!Appeared(none, Local, Published[Local], 0)
  BY DEF Init
<1> HIDE DEF none
<1>4. DOMAIN storage \subseteq {Local} /\ storage[Local].profile = Published[Local]
  BY <1>1, <1>2, <1>3, AppearedRecord DEF OthersStay
<1>5. QED
  BY <1>2, <1>4 DEF Init, SteadyInv, AsPublished, SteadyPeer

\* The state of a steady peer depends on its record, and on what the host and
\* discovery say of it.
Unharmed(p) == up'[p] /\ p \in seen' /\ p \in ring' /\ p \notin drains'

\* A steady peer whose record is not touched, by a step that does not lead on
\* in the round.
LEMMA UntouchedSteady ==
  ASSUME NEW p, SteadyPeer(p), Unharmed(p), loop' = loop,
         p \in DOMAIN storage' => p \in DOMAIN storage /\ storage'[p] = storage[p]
  PROVE  SteadyPeer(p)'
  BY DEF SteadyPeer, Unharmed, Covered, Remaining

\* The end of a round: whoever is covered is not evicted.
LEMMA RoundSteady ==
  ASSUME NEW st, M!IsStorage(st), AsPublished(st), FinishRound(st)
  PROVE  /\ AsPublished(storage')
         /\ \A p \in DOMAIN storage' : p \in DOMAIN st
         /\ \A p \in DOMAIN st :
              /\ M!Participates(st[p].state)
              /\ st[p].missed < MissLimit /\ st[p].lease.remaining > 0
              => M!Participates(storage'[p].state)
         /\ loop'.todo = {}
<1> DEFINE swept == M!Swept(st)
<1>1. /\ M!IsStorage(swept) /\ DOMAIN swept = DOMAIN st
      /\ \A n \in DOMAIN st :
           /\ swept[n].profile = st[n].profile
           /\ M!Verdict(st[n]) = "stays" => swept[n] = st[n]
  BY StorageStays, TickRecords
<1>2. \/ storage' = swept
      \/ storage' = M!Reissued(swept, 0)
  BY DEF FinishRound
<1> HIDE DEF swept
<1>3. /\ DOMAIN storage' = DOMAIN st
      /\ \A n \in DOMAIN st : /\ storage'[n].profile = st[n].profile
                              /\ storage'[n].state = swept[n].state
  BY <1>1, <1>2, TickRecords
<1>4. ASSUME NEW p \in DOMAIN st, M!Participates(st[p].state),
             st[p].missed < MissLimit, st[p].lease.remaining > 0
      PROVE  M!Participates(storage'[p].state)
  <2>1. st[p].state # "draining"
    BY <1>4 DEF M!Participates
  <2>2. st[p].missed \in Nat /\ MissLimit \in Nat
    BY MonitorConfig DEF M!IsStorage, M!MemberRecord, MonitorConfig
  <2>3. M!Verdict(st[p]) = "stays"
    BY <1>4, <2>1, <2>2 DEF M!Verdict, M!IsValid
  <2>4. QED
    BY <1>1, <1>3, <1>4, <2>3
<1>5. loop'.todo = {}
  BY DEF FinishRound, Sleeping
<1>6. QED
  BY <1>3, <1>4, <1>5 DEF AsPublished

\* A ping that is answered covers a steady peer for the longest round there is.
LEMMA AfterPingSteady ==
  ASSUME MonitorTypes, SteadyInv, NEW p \in Peers, NEW alive \in BOOLEAN,
         NEW st, st = AfterPing(p, alive)
  PROVE  /\ M!IsStorage(st) /\ AsPublished(st) /\ OthersStay(storage, st, p)
         /\ alive /\ p \in steady /\ p \in DOMAIN st =>
              /\ M!Participates(st[p].state)
              /\ st[p].missed = 0
              /\ st[p].lease.remaining = FullLease(Published[p])
<1>1. /\ M!IsStorage(storage) /\ AsPublished(storage)
      /\ p \in steady /\ p \in DOMAIN storage =>
           M!Participates(storage[p].state)
  BY DEF MonitorTypes, MembershipTypes, SteadyInv, SteadyPeer
<1>2. p \in Nodes
  BY DEF Peers
<1>3. CASE alive /\ loop.known
  <2> DEFINE b == M!Appeared(storage, p, Published[p], 0)
  <2>1. st = M!Heard(b, p, 0)
    BY <1>3 DEF AfterPing
  <2>2. M!IsStorage(b)
    BY <1>1, <1>2, StorageStays
  <2>3. /\ p \in DOMAIN b /\ OthersStay(storage, b, p)
        /\ b[p].profile = Published[p]
        /\ p \in steady => M!Participates(b[p].state)
    BY <1>1, <1>2, AppearedRecord
  <2> HIDE DEF b
  <2>4. /\ M!IsStorage(st) /\ p \in DOMAIN st /\ OthersStay(b, st, p)
        /\ st[p].profile = b[p].profile /\ st[p].state = b[p].state
        /\ st[p].missed = 0
        /\ M!Participates(b[p].state) =>
             st[p].lease.remaining = FullLease(b[p].profile)
    <3>1. M!IsStorage(st)
      BY <1>2, <2>1, <2>2, StorageStays
    <3>2. p \in DOMAIN b
      BY <2>3
    <3>3. QED
      BY <2>1, <2>2, <3>1, <3>2, HeardRecord
  <2>5. OthersStay(storage, st, p)
    BY <2>3, <2>4 DEF OthersStay
  <2>6. AsPublished(st)
    BY <1>1, <2>3, <2>4, <2>5 DEF AsPublished, OthersStay
  <2>7. QED
    BY <2>3, <2>4, <2>5, <2>6
<1>4. CASE alive /\ ~loop.known /\ p \in DOMAIN storage
  <2>1. st = M!Heard(storage, p, 0)
    BY <1>4 DEF AfterPing
  <2>2. /\ M!IsStorage(st) /\ p \in DOMAIN st /\ OthersStay(storage, st, p)
        /\ st[p].profile = storage[p].profile /\ st[p].state = storage[p].state
        /\ st[p].missed = 0
        /\ M!Participates(storage[p].state) =>
             st[p].lease.remaining = FullLease(storage[p].profile)
    <3>1. M!IsStorage(st)
      BY <1>1, <1>2, <2>1, StorageStays
    <3>2. M!IsStorage(storage) /\ p \in DOMAIN storage
      BY <1>1, <1>4
    <3>3. QED
      BY <2>1, <3>1, <3>2, HeardRecord
  <2>3. storage[p].profile = Published[p]
    BY <1>1, <1>4 DEF AsPublished
  <2>4. AsPublished(st)
    BY <1>1, <2>2, <2>3 DEF AsPublished, OthersStay
  <2>5. QED
    BY <1>1, <1>4, <2>2, <2>3, <2>4
<1>5. CASE alive /\ ~loop.known /\ p \notin DOMAIN storage
  BY <1>1, <1>5 DEF AfterPing, M!Heard, OthersStay
<1>6. CASE ~alive
  <2>1. st = M!Missed(storage, p)
    BY <1>6 DEF AfterPing
  <2>2. /\ M!IsStorage(st) /\ DOMAIN st = DOMAIN storage
        /\ OthersStay(storage, st, p)
        /\ p \in DOMAIN st => st[p].profile = storage[p].profile
    BY <1>1, <1>2, <2>1, MissedRecord, StorageStays
  <2>3. AsPublished(st)
    BY <1>1, <2>2 DEF AsPublished, OthersStay
  <2>4. QED
    BY <1>6, <2>2, <2>3
<1>7. QED
  BY <1>3, <1>4, <1>5, <1>6

\* A round over the peers left lasts no longer than one over all of them.
LEMMA RoundTime ==
  ASSUME LoopTypes, NEW p \in Peers
  PROVE  /\ Remaining({p}, loop.timer) = loop.timer
         /\ p \in loop.todo =>
              /\ Remaining(loop.todo \ {p}, PingTimeout)
                   <= Remaining(loop.todo, loop.timer)
              /\ Remaining(loop.todo \ {p}, PingTimeout)
                   <= (Cardinality(Peers) - 1) * PingTimeout
         /\ (Cardinality(Peers) - 1) * PingTimeout >= 0
         /\ Remaining(loop.todo \ {p}, PingTimeout) \in Int
         /\ Remaining(loop.todo, loop.timer) \in Int
         /\ (Cardinality(Peers) - 1) * PingTimeout \in Int
<1> DEFINE k == Cardinality(loop.todo)
           n == Cardinality(Peers)
<1>1. loop.todo \in SUBSET Peers /\ loop.timer \in Nat
  BY MonitorAssumption DEF LoopTypes, MonitorAssumption
<1>2. k \in Nat /\ n \in Nat /\ k <= n /\ PingTimeout \in Nat
  BY <1>1, PeersFinite, TimesOne
<1>3. Cardinality({p}) = 1
  BY FS_Singleton
<1>4. n >= 1
  BY <1>3, PeersFinite
<1>5. p \in loop.todo => Cardinality(loop.todo \ {p}) = k - 1
  BY <1>1, PeersFinite, FS_RemoveElement
<1>6. Cardinality(loop.todo \ {p}) \in Nat
  BY <1>1, PeersFinite
<1> HIDE DEF k, n
<1>7. Remaining({p}, loop.timer) = loop.timer
  <2>1. (1 - 1) * PingTimeout = 0
    BY <1>2
  <2>2. QED
    BY <1>1, <1>3, <2>1 DEF Remaining
<1>8. ASSUME p \in loop.todo
      PROVE  /\ Remaining(loop.todo \ {p}, PingTimeout) = (k - 1) * PingTimeout
             /\ (k - 1) * PingTimeout <= (n - 1) * PingTimeout
  <2>1. (k - 2 + 1) * PingTimeout = (k - 2) * PingTimeout + PingTimeout
    BY <1>2, TimesOne
  <2>2. k - 2 + 1 = k - 1 /\ (k - 1) - 1 = k - 2
    BY <1>2
  <2>3. (k - 1) * PingTimeout <= (n - 1) * PingTimeout
    BY <1>2, TimesOne
  <2>4. QED
    BY <1>5, <1>8, <2>1, <2>2, <2>3 DEF Remaining
<1>9. (n - 1) * PingTimeout >= 0 /\ (n - 1) * PingTimeout \in Int
  <2>1. 0 * PingTimeout = 0 /\ 0 * PingTimeout <= (n - 1) * PingTimeout
    BY <1>2, <1>4, TimesOne
  <2>2. QED
    BY <1>2, <2>1
<1>10. /\ Remaining(loop.todo \ {p}, PingTimeout) \in Int
       /\ Remaining(loop.todo, loop.timer) = (k - 1) * PingTimeout + loop.timer
       /\ (k - 1) * PingTimeout \in Int
  BY <1>1, <1>2, <1>6 DEF Remaining, k
<1>11. QED
  BY <1>1, <1>7, <1>8, <1>9, <1>10 DEF n

\* A round starts with every steady peer to ask: all are in the ring.
LEMMA SteadyStart ==
  ASSUME LeaseOutlivesRound, MonitorTypes, SteadyInv, StartRound
  PROVE  SteadyInv'
<1> DEFINE st == M!Appeared(storage, Local, Published[Local], 0)
<1>1. /\ M!IsStorage(storage) /\ AsPublished(storage)
      /\ \A p \in steady : SteadyPeer(p)
      /\ steady \subseteq Peers
  BY DEF MonitorTypes, MembershipTypes, RestTypes, SteadyInv
<1>2. Local \in Nodes /\ Local \notin Peers
  BY MonitorAssumption DEF MonitorAssumption, Peers
<1>3. /\ M!IsStorage(st) /\ OthersStay(storage, st, Local)
      /\ st[Local].profile = Published[Local]
  BY <1>1, <1>2, AppearedRecord, StorageStays
<1>4. /\ loop.todo = {} /\ UNCHANGED <<ring, environment>>
      /\ ring = {} => FinishRound(st)
      /\ ring # {} => storage' = st /\ loop'.todo = ring
  BY DEF StartRound, Asking
<1> HIDE DEF st
<1>5. AsPublished(st)
  BY <1>1, <1>3 DEF AsPublished, OthersStay
<1>6. CASE ring = {}
  <2>1. steady' = {}
    BY <1>1, <1>4, <1>6 DEF SteadyPeer, environment
  <2>2. AsPublished(storage')
    BY <1>3, <1>4, <1>5, <1>6, RoundSteady
  <2>3. QED
    BY <2>1, <2>2 DEF SteadyInv, AsPublished
<1>7. CASE ring # {}
  <2>1. storage' = st /\ loop'.todo = ring
    BY <1>4, <1>7
  <2>2. ASSUME NEW p \in steady' PROVE SteadyPeer(p)'
    <3>1. p \in steady /\ p \in ring /\ p # Local /\ Unharmed(p)
      BY <1>1, <1>2, <1>4 DEF SteadyPeer, environment, Unharmed
    <3>2. p \in DOMAIN storage' =>
            p \in DOMAIN storage /\ storage'[p] = storage[p]
      BY <1>3, <2>1, <3>1 DEF OthersStay
    <3>3. QED
      BY <1>1, <2>1, <3>1, <3>2 DEF SteadyPeer, Unharmed
  <2>3. QED
    BY <1>5, <2>1, <2>2 DEF SteadyInv, AsPublished
<1>8. QED
  BY <1>6, <1>7

\* A ping that returns covers a steady peer, or leaves less of the round than
\* those it has covered before have lease.
LEMMA SteadyPing ==
  ASSUME LeaseOutlivesRound, MonitorTypes, SteadyInv, NEW p \in Peers,
         NEW alive \in BOOLEAN, PingReturns(p, alive)
  PROVE  SteadyInv'
<1> DEFINE st == AfterPing(p, alive)
<1>1. /\ M!IsStorage(st) /\ AsPublished(st) /\ OthersStay(storage, st, p)
      /\ alive /\ p \in steady /\ p \in DOMAIN st =>
           /\ M!Participates(st[p].state)
           /\ st[p].missed = 0
           /\ st[p].lease.remaining = FullLease(Published[p])
  BY AfterPingSteady
<1>2. /\ p \in loop.todo
      /\ steady' = IF alive THEN steady ELSE steady \ {p}
      /\ UNCHANGED <<ring, up, seen, drains>>
      /\ loop.todo = {p} => FinishRound(st)
      /\ loop.todo # {p} =>
           storage' = st /\ loop' = Asking(loop.todo \ {p}, loop.known)
  BY DEF PingReturns
<1> HIDE DEF st
<1>3. LoopTypes /\ \A q \in steady : SteadyPeer(q)
  BY DEF MonitorTypes, SteadyInv
<1>4. MissLimit \in Nat /\ MissLimit > 0
      /\ FullLease(Published[p]) > (Cardinality(Peers) - 1) * PingTimeout
  BY MonitorConfig DEF MonitorConfig, LeaseOutlivesRound, FullLease
<1>5. ASSUME NEW q \in steady' PROVE q \in steady /\ Unharmed(q) /\ (q = p => alive)
  BY <1>2, <1>3 DEF SteadyPeer, Unharmed
\* A steady peer other than p that has answered, or p itself.
<1>6. ASSUME NEW q \in steady', q \in DOMAIN st
      PROVE  /\ M!Participates(st[q].state)
             /\ q = p => /\ st[q].missed = 0
                         /\ st[q].lease.remaining = FullLease(Published[p])
             /\ q # p /\ q \notin loop.todo => Covered(st[q], loop.todo, loop.timer)
  <2>1. CASE q = p
    BY <1>1, <1>5, <1>6, <2>1
  <2>2. CASE q # p
    <3>1. q \in DOMAIN storage /\ st[q] = storage[q]
      BY <1>1, <1>6, <2>2 DEF OthersStay
    <3>2. QED
      BY <1>2, <1>3, <1>5, <2>2, <3>1 DEF SteadyPeer
  <2>3. QED
    BY <2>1, <2>2
<1>7. \A q \in DOMAIN st : st[q].lease.remaining \in Nat
  BY <1>1 DEF M!IsStorage, M!MemberRecord, M!Lease
<1> DEFINE longest == (Cardinality(Peers) - 1) * PingTimeout
           before  == Remaining(loop.todo, loop.timer)
           after   == Remaining(loop.todo \ {p}, PingTimeout)
<1>a. /\ longest \in Int /\ before \in Int /\ after \in Int
      /\ longest >= 0 /\ after <= before /\ after <= longest
      /\ FullLease(Published[p]) > longest
      /\ loop.timer \in Nat /\ Remaining({p}, loop.timer) = loop.timer
  <2>1. LoopTypes /\ p \in loop.todo
    BY <1>2, <1>3
  <2>2. loop.timer \in Nat
    BY <2>1, MonitorAssumption DEF LoopTypes, MonitorAssumption
  <2>3. longest \in Int /\ before \in Int /\ after \in Int
    BY <2>1, RoundTime
  <2>4. longest >= 0 /\ after <= before /\ after <= longest
    BY <2>1, RoundTime
  <2>5. FullLease(Published[p]) > longest
    BY <1>4
  <2>6. Remaining({p}, loop.timer) = loop.timer
    BY <2>1, RoundTime
  <2> HIDE DEF longest, before, after
  <2>7. QED
    BY <2>2, <2>3, <2>4, <2>5, <2>6
<1>b. /\ \A r : Covered(r, loop.todo, loop.timer) <=>
                r.missed = 0 /\ r.lease.remaining > before
      /\ \A r : Covered(r, loop.todo \ {p}, PingTimeout) <=>
                r.missed = 0 /\ r.lease.remaining > after
      /\ \A r : Covered(r, {p}, loop.timer) <=>
                r.missed = 0 /\ r.lease.remaining > loop.timer
  BY <1>a DEF Covered
<1> HIDE DEF longest, before, after
<1>8. CASE loop.todo = {p}
  <2>1. /\ AsPublished(storage') /\ loop'.todo = {}
        /\ \A q \in DOMAIN storage' : q \in DOMAIN st
        /\ \A q \in DOMAIN st :
             /\ M!Participates(st[q].state)
             /\ st[q].missed < MissLimit /\ st[q].lease.remaining > 0
             => M!Participates(storage'[q].state)
    BY <1>1, <1>2, <1>8, RoundSteady
  <2>2. ASSUME NEW q \in steady' PROVE SteadyPeer(q)'
    <3>1. ASSUME q \in DOMAIN storage' PROVE M!Participates(storage'[q].state)
      <4>1. q \in DOMAIN st /\ M!Participates(st[q].state)
        BY <1>6, <2>1, <3>1
      <4>2. st[q].missed = 0 /\ st[q].lease.remaining > 0
        <5>1. CASE q = p
          <6>1. st[q].missed = 0 /\ st[q].lease.remaining > longest
            BY <1>6, <1>a, <4>1, <5>1
          <6>2. QED
            BY <1>7, <1>a, <4>1, <6>1
        <5>2. CASE q # p
          <6>1. Covered(st[q], {p}, loop.timer)
            BY <1>6, <1>8, <4>1, <5>2
          <6>2. st[q].missed = 0 /\ st[q].lease.remaining > loop.timer
            BY <1>b, <6>1
          <6>3. QED
            BY <1>7, <1>a, <4>1, <6>2
        <5>3. QED
          BY <5>1, <5>2
      <4>3. QED
        BY <1>4, <2>1, <4>1, <4>2
    <3>2. QED
      BY <1>5, <2>1, <3>1 DEF SteadyPeer, Unharmed
  <2>3. QED
    BY <2>1, <2>2 DEF SteadyInv, AsPublished
<1>9. CASE loop.todo # {p}
  <2>1. storage' = st /\ loop'.todo = loop.todo \ {p} /\ loop'.timer = PingTimeout
    BY <1>2, <1>9 DEF Asking
  <2>2. ASSUME NEW q \in steady' PROVE SteadyPeer(q)'
    <3>1. ASSUME q \in DOMAIN st, q \notin loop.todo \ {p}
          PROVE  Covered(st[q], loop.todo \ {p}, PingTimeout)
      <4>1. CASE q = p
        <5>1. st[q].missed = 0 /\ st[q].lease.remaining > longest
          BY <1>6, <1>a, <3>1, <4>1
        <5>2. st[q].lease.remaining > after
          BY <1>7, <1>a, <3>1, <5>1
        <5>3. QED
          BY <1>b, <5>1, <5>2
      <4>2. CASE q # p
        <5>1. Covered(st[q], loop.todo, loop.timer)
          BY <1>6, <3>1, <4>2
        <5>2. st[q].missed = 0 /\ st[q].lease.remaining > before
          BY <1>b, <5>1
        <5>3. st[q].lease.remaining > after
          BY <1>7, <1>a, <3>1, <5>2
        <5>4. QED
          BY <1>b, <5>2, <5>3
      <4>3. QED
        BY <4>1, <4>2
    <3>2. q \in DOMAIN st => M!Participates(st[q].state)
      BY <1>6
    <3>3. QED
      BY <1>5, <2>1, <3>1, <3>2 DEF SteadyPeer, Unharmed
  <2>3. QED
    BY <1>1, <2>1, <2>2 DEF SteadyInv, AsPublished
<1>10. QED
  BY <1>8, <1>9

\* A drain that arrives is of a peer that resigned, and is no longer steady.
LEMMA SteadyDrain ==
  ASSUME MonitorTypes, SteadyInv, NEW p \in Peers, DrainArrives(p)
  PROVE  SteadyInv'
<1>1. /\ M!IsStorage(storage) /\ AsPublished(storage)
      /\ \A q \in steady : SteadyPeer(q)
  BY DEF MonitorTypes, MembershipTypes, SteadyInv
<1>2. /\ p \in drains /\ drains' = drains \ {p}
      /\ UNCHANGED <<loop, ring, up, seen, steady>>
      /\ \/ storage' = M!Moved(storage, p, "enteredBackground")
         \/ storage' = storage
  BY DEF DrainArrives
<1>3. /\ DOMAIN storage' = DOMAIN storage /\ OthersStay(storage, storage', p)
      /\ p \in DOMAIN storage' => storage'[p].profile = storage[p].profile
  BY <1>1, <1>2, MovedRecord DEF OthersStay
<1>4. AsPublished(storage')
  BY <1>1, <1>3 DEF AsPublished, OthersStay
<1>5. ASSUME NEW q \in steady' PROVE SteadyPeer(q)'
  <2>1. SteadyPeer(q) /\ q # p /\ Unharmed(q)
    BY <1>1, <1>2 DEF SteadyPeer, Unharmed
  <2>2. QED
    BY <1>2, <1>3, <2>1, UntouchedSteady DEF OthersStay
<1>6. QED
  BY <1>4, <1>5 DEF SteadyInv, AsPublished

\* A unit of time is taken off the leases and off the round; while a rebuild
\* holds the host up nobody is steady.
LEMMA SteadyElapse ==
  ASSUME MonitorTypes, SteadyInv, Elapse
  PROVE  SteadyInv'
<1>1. /\ M!IsStorage(storage) /\ AsPublished(storage)
      /\ \A q \in steady : SteadyPeer(q)
      /\ LoopTypes
  BY DEF MonitorTypes, MembershipTypes, SteadyInv
<1>2. /\ storage' = M!Aged(storage) /\ UNCHANGED <<ring, up, seen, drains>>
      /\ loop.timer \in Nat /\ loop'.todo = loop.todo
      /\ steady' \subseteq steady
  BY <1>1, MonitorAssumption DEF Elapse, LoopTypes, MonitorAssumption
<1>3. /\ DOMAIN storage' = DOMAIN storage
      /\ \A n \in DOMAIN storage :
           /\ storage'[n].profile = storage[n].profile
           /\ storage'[n].state = storage[n].state
           /\ storage'[n].missed = storage[n].missed
           /\ storage[n].lease.remaining > 0 =>
                storage'[n].lease.remaining = storage[n].lease.remaining - 1
  BY <1>1, <1>2, AgedRecords
<1>4. AsPublished(storage')
  BY <1>1, <1>3 DEF AsPublished
<1>5. ASSUME NEW q \in steady' PROVE SteadyPeer(q)'
  <2>a. MainIsFree
    BY <1>5 DEF Elapse
  <2>b. loop.timer > 0 /\ loop'.timer = loop.timer - 1
    BY <1>1, <2>a, MonitorAssumption DEF Elapse, LoopTypes, MonitorAssumption
  <2>1. SteadyPeer(q) /\ Unharmed(q)
    BY <1>1, <1>2, <1>5 DEF SteadyPeer, Unharmed
  <2>2. ASSUME q \in DOMAIN storage, loop.todo # {}, q \notin loop.todo
        PROVE  Covered(storage'[q], loop.todo, loop.timer - 1)
    <3>1. Covered(storage[q], loop.todo, loop.timer)
      BY <2>1, <2>2 DEF SteadyPeer
    <3>2. /\ storage[q].lease.remaining \in Nat
          /\ Cardinality(loop.todo) \in Nat /\ Cardinality(loop.todo) # 0
          /\ PingTimeout \in Nat
      <4>1. loop.todo \in SUBSET Peers
        BY <1>1 DEF LoopTypes
      <4>2. QED
        BY <1>1, <2>2, <4>1, PeersFinite, FS_EmptySet, TimesOne
        DEF M!IsStorage, M!MemberRecord, M!Lease
    <3> DEFINE rest == (Cardinality(loop.todo) - 1) * PingTimeout
    <3>3. rest \in Nat
      BY <3>2
    <3>4. storage[q].lease.remaining > rest + loop.timer
      BY <3>1 DEF Covered, Remaining
    <3> HIDE DEF rest
    <3>5. storage'[q].lease.remaining > rest + (loop.timer - 1)
      BY <1>2, <1>3, <2>b, <2>2, <3>2, <3>3, <3>4
    <3>6. storage'[q].missed = 0
      BY <1>3, <2>2, <3>1 DEF Covered
    <3>7. QED
      BY <3>5, <3>6 DEF Covered, Remaining, rest
  <2>3. QED
    BY <1>2, <1>3, <2>b, <2>1, <2>2 DEF SteadyPeer, Unharmed
<1>6. QED
  BY <1>4, <1>5 DEF SteadyInv, AsPublished

\* Steps that touch neither a record nor the loop.
LEMMA SteadyOthers ==
  ASSUME MonitorTypes, SteadyInv, UNCHANGED <<storage, loop>>,
         steady' \subseteq steady, \A p \in steady' : Unharmed(p)
  PROVE  SteadyInv'
<1>1. ASSUME NEW q \in steady' PROVE SteadyPeer(q)'
  BY UntouchedSteady DEF SteadyInv
<1>2. QED
  BY <1>1 DEF SteadyInv, AsPublished

\* Every step keeps the steady peers in.
LEMMA SteadyStep ==
  ASSUME LeaseOutlivesRound, MonitorTypes, SteadyInv, [Next]_vars
  PROVE  SteadyInv'
<1>1. \A p \in steady : /\ p \in Peers
                        /\ up[p] /\ p \in seen /\ p \in ring /\ p \notin drains
  BY DEF MonitorTypes, RestTypes, SteadyInv, SteadyPeer
<1>2. CASE StartRound
  BY <1>2, SteadyStart
<1>3. CASE Ping
  BY <1>3, SteadyPing DEF Ping
<1>4. CASE \E p \in Peers : DrainArrives(p)
  BY <1>4, SteadyDrain
<1>5. CASE Elapse
  BY <1>5, SteadyElapse
<1>6. CASE StartRebuild
  <2>1. \A p \in steady' : p \in steady /\ Unharmed(p)
    BY <1>1, <1>6 DEF StartRebuild, Rebuilt, Unharmed
  <2>2. UNCHANGED <<storage, loop>>
    BY <1>6 DEF StartRebuild, membership
  <2>3. QED
    BY <2>1, <2>2, SteadyOthers
<1>7. CASE \/ BeginGeneration \/ TokenArrives \/ GenerationEnds
           \/ WatchGeneration \/ StartReload \/ RebuildSucceeds \/ RebuildFails
           \/ UNCHANGED vars
  <2>1. UNCHANGED <<storage, loop, ring, up, seen, drains, steady>>
    BY <1>7 DEF BeginGeneration, TokenArrives, GenerationEnds, WatchGeneration,
                StartReload, RebuildSucceeds, RebuildFails, vars, membership,
                environment
  <2>2. \A p \in steady' : p \in steady /\ Unharmed(p)
    BY <1>1, <2>1 DEF Unharmed
  <2>3. QED
    BY <2>1, <2>2, SteadyOthers
<1>8. ASSUME NEW p \in Peers,
             \/ DrainIsLost(p) \/ GoesDown(p) \/ ComesBack(p) \/ Resigns(p)
             \/ DiscoveryChanges(p)
      PROVE  SteadyInv'
  <2>1. UNCHANGED <<storage, loop, ring>>
    BY <1>8 DEF DrainIsLost, GoesDown, ComesBack, Resigns, DiscoveryChanges,
                membership
  <2>2. up \in [Peers -> BOOLEAN]
    BY DEF MonitorTypes, RestTypes
  <2>3. \A q \in steady' : q \in steady /\ Unharmed(q)
    BY <1>1, <1>8, <2>1, <2>2
    DEF DrainIsLost, GoesDown, ComesBack, Resigns, DiscoveryChanges, Unharmed
  <2>4. QED
    BY <2>1, <2>3, SteadyOthers
<1>9. Unstable \subseteq Peers
  BY MonitorAssumption DEF MonitorAssumption
<1>10. QED
  BY <1>2, <1>3, <1>4, <1>5, <1>6, <1>7, <1>8, <1>9 DEF Next

\* So they stay, as long as a lease outlives a round.
LEMMA SteadyInvariant ==
  ASSUME LeaseOutlivesRound
  PROVE  Spec => []SteadyInv
<1>1. SteadyInv /\ MonitorTypes /\ [Next]_vars => SteadyInv'
  BY SteadyStep
<1>2. QED
  BY SteadyInit, <1>1, MonitorIsWellTyped, PTL DEF Spec

\* Slow is not dead: a peer that answers every ping is never evicted, whatever
\* the other peers do, provided a lease outlives a round of their time-outs
\* (probePeers asks them one after the other).
THEOREM SteadyPeerStaysInHolds ==
  ASSUME LeaseOutlivesRound
  PROVE  Spec => []SteadyPeerStaysIn
<1>1. SteadyInv => SteadyPeerStaysIn
  BY DEF SteadyInv, SteadyPeer, SteadyPeerStaysIn
<1>2. QED
  BY <1>1, SteadyInvariant, PTL
=============================================================================
