-------------------------- MODULE RingHealthMonitor --------------------------
(***************************************************************************)
(* One host of an app ring (RingHealthMonitor.swift): its membership       *)
(* service and its watchdog, the loop that probes the ring's peers, the    *)
(* drain announcements it receives, the generation it may be streaming     *)
(* (ModelManager.swift) and the task that rebuilds the ring                *)
(* (RingCoordinator.reformRing).  The monitor lives on the main actor, so  *)
(* an action is what happens between two awaits; other calls interleave    *)
(* with the probe loop at each ping.  The rebuild is awaited from the main *)
(* actor too and is not isolated itself, so it runs there (the app is      *)
(* built with SWIFT_APPROACHABLE_CONCURRENCY): until MLX's blocking calls  *)
(* return nothing else of the monitor runs, and only the reload of the     *)
(* model frees the actor again.                                            *)
(*                                                                         *)
(* The environment: peers go down, come back, resign (an iPhone leaving    *)
(* the foreground announces its drain, and need not be suspended then),    *)
(* announcements are lost or late, pings are slow, and service discovery   *)
(* lags behind all of it.  The epoch number is left out: the app reads     *)
(* neither it nor the epoch of a lease.                                    *)
(***************************************************************************)
EXTENDS Naturals, Sequences, FiniteSets, SequencesExt

CONSTANTS
  Local,           \* this host
  IdOrder,         \* the hosts of the ring, in the order of their identities
  Published,       \* Published[n]: the capability profile of n
  Support,         \* the longest lease per link model
  LeaseDuration, MissLimit, Dwell,                           \* MembershipConfig
  None, StallThreshold, GraceAfterLoss, ReformTimeout, MaxAttempts,
  CanReform,       \* MLXManager.canReform: the build has finalize()
  Coordinator,     \* the elected coordinator of the ring
  ProbeInterval,   \* pause between two rounds of probes
  PingTimeout,     \* how long a ping waits for its answer
  Unstable         \* the peers that may go down, resign, or change in discovery

Nodes == Range(IdOrder)
Peers == Nodes \ {Local}

Reasons == [kind : {"memberDeparted", "memberUnreachable"}, node : Nodes]

ASSUME MonitorAssumption ==
  /\ IdOrder \in Seq(Nodes)
  /\ IsInjective(IdOrder)
  /\ Local \in Nodes
  /\ Coordinator \in Nodes
  /\ CanReform \in BOOLEAN
  /\ ProbeInterval \in Nat \ {0}
  /\ PingTimeout \in Nat \ {0}
  /\ Unstable \subseteq Peers

VARIABLES
  storage, sinceEpoch, epochMembers,   \* membership
  dog,                                 \* watchdog
  health,      \* the cached verdict the app shows
  ring,        \* currentRing: its peers, the local node aside
  profiles,    \* hardware profiles of the peers: "held", "reset" in the device
               \* list since discovery changed, or "gone" from the ring as well
  loop,        \* the probe loop: peers still to ask, whether their profiles
               \* are known, and the timer
  generation,  \* "idle" or "streaming"
  rebuild,     \* reformationTask: "none", "created", "running" in MLX's
               \* blocking calls, or "reloading" the model
  up,          \* up[p]: p answers
  intact,      \* every member of the ring is still in the MLX group
  seen,        \* the peers service discovery lists
  drains,      \* peers whose announced drain is on its way
  steady       \* history: peers that answered every ping and never resigned,
               \* while the host was not held up itself

membership == <<storage, sinceEpoch, epochMembers>>
environment == <<up, intact, seen, drains, steady>>
vars == <<membership, dog, health, ring, profiles, loop, generation, rebuild,
          environment>>

M == INSTANCE Membership
       WITH Offers <- [n \in Nodes |-> {Published[n]}], HostEvents <- {},
            MaxEpoch <- 0, epoch <- 0

W == INSTANCE RingWatchdog

\* What the two services assume of these constants.
ASSUME MonitorConfig ==
  /\ Published \in [Nodes -> M!Profile]
  /\ Support \in [M!Links -> Nat]
  /\ {LeaseDuration, MissLimit, Dwell} \subseteq Nat
  /\ {StallThreshold, GraceAfterLoss, ReformTimeout, MaxAttempts} \subseteq Nat
  /\ None \notin Reasons \cup W!Causes

\* The main actor is not in a blocking call of the rebuild.
MainIsFree == rebuild # "running"

-----------------------------------------------------------------------------
(* refreshHealth, and what it starts.                                      *)

NeedsRebuild(w) == W!Evaluated(w).phase = "reforming" /\ rebuild = "none"

Refreshed(w) ==
  IF NeedsRebuild(w) /\ ~CanReform
    THEN W!WithUnavailable(W!Evaluated(w))
    ELSE W!Evaluated(w)

RefreshHealth(w) ==
  /\ dog' = Refreshed(w)
  /\ health' = W!Health(Refreshed(w))
  /\ rebuild' = IF NeedsRebuild(w) /\ CanReform THEN "created" ELSE rebuild

-----------------------------------------------------------------------------
(* The probe loop.                                                         *)

Sleeping == [todo |-> {}, known |-> FALSE, timer |-> ProbeInterval]

Asking(ps, known) == [todo |-> ps, known |-> known, timer |-> PingTimeout]

Position(n) == CHOOSE i \in DOMAIN IdOrder : IdOrder[i] = n

\* Ranks follow the identities, from the coordinator on (buildRing).
Rank(n) ==
  (Position(n) + Len(IdOrder) - Position(Coordinator)) % Len(IdOrder)

\* tick's evictions, in the order of the node identities; consume keeps the
\* first of them as the diagnosis.
LossOf(st, n) ==
  [kind |-> IF M!Verdict(st[n]) = "drainCompleted" THEN "memberDeparted"
                                                   ELSE "memberUnreachable",
   node |-> n]

First(S) == CHOOSE n \in S : \A m \in S : Position(n) <= Position(m)

Consumed(w, st) ==
  IF M!Evicted(st) = {} THEN w
  ELSE W!WithLoss(w, LossOf(st, First(M!Evicted(st))))

\* The end of a round, with st what the last answer left: tick, consume,
\* refreshHealth, sleep.
FinishRound(st) ==
  LET swept == M!Swept(st)
  IN  /\ IF M!EpochDue(swept)
           THEN /\ storage' = M!Reissued(swept, 0)
                /\ sinceEpoch' = 0
                /\ epochMembers' = M!PlanningSet(swept)
           ELSE /\ storage' = swept
                /\ UNCHANGED <<sinceEpoch, epochMembers>>
      /\ RefreshHealth(Consumed(dog, st))
      /\ loop' = Sleeping

\* A round publishes the local profile and asks the peers of the ring as it is
\* now; the list is not read again during the round.
StartRound ==
  /\ MainIsFree
  /\ loop.todo = {} /\ loop.timer = 0
  /\ LET st == M!Appeared(storage, Local, Published[Local], 0)
     IN  IF ring = {}
           THEN FinishRound(st)
           ELSE /\ storage' = st
                /\ loop' = Asking(ring, profiles # "gone")
                /\ UNCHANGED <<sinceEpoch, epochMembers, dog, health, rebuild>>
  /\ UNCHANGED <<ring, profiles, generation, environment>>

\* A peer without a profile is heard, but does not appear.
AfterPing(p, alive) ==
  IF alive
    THEN M!Heard(IF loop.known THEN M!Appeared(storage, p, Published[p], 0)
                               ELSE storage, p, 0)
    ELSE M!Missed(storage, p)

\* The ping of p returns, who is asked in the order of ranks: it was answered,
\* refused, or timed out.
PingReturns(p, alive) ==
  /\ MainIsFree
  /\ p \in loop.todo /\ \A q \in loop.todo : Rank(p) <= Rank(q)
  /\ IF alive THEN up[p] ELSE ~up[p] \/ loop.timer = 0
  /\ LET st == AfterPing(p, alive)
     IN  IF loop.todo = {p}
           THEN FinishRound(st)
           ELSE /\ storage' = st
                /\ loop' = Asking(loop.todo \ {p}, loop.known)
                /\ UNCHANGED <<sinceEpoch, epochMembers, dog, health, rebuild>>
  /\ steady' = IF alive THEN steady ELSE steady \ {p}
  /\ UNCHANGED <<ring, profiles, generation, up, intact, seen, drains>>

-----------------------------------------------------------------------------
(* Announcements.                                                          *)

\* peerAnnouncedDrain; the server accepts it from a peer of the ring only.
DrainArrives(p) ==
  /\ MainIsFree
  /\ p \in drains
  /\ drains' = drains \ {p}
  /\ IF p \in ring
       THEN LET moved == /\ p \in DOMAIN storage
                         /\ M!Participates(storage[p].state)
                loss  == [kind |-> "memberDeparted", node |-> p]
            IN  /\ storage' = M!Moved(storage, p, "enteredBackground")
                /\ RefreshHealth(IF moved THEN W!WithLoss(dog, loss) ELSE dog)
       ELSE UNCHANGED <<storage, dog, health, rebuild>>
  /\ UNCHANGED <<sinceEpoch, epochMembers, ring, profiles, loop, generation,
                 up, intact, seen, steady>>

DrainIsLost(p) ==
  /\ p \in drains
  /\ drains' = drains \ {p}
  /\ UNCHANGED <<membership, dog, health, ring, profiles, loop, generation,
                 rebuild,
                 up, intact, seen, steady>>

-----------------------------------------------------------------------------
(* Generations.                                                            *)

\* A request that is admitted fails at once when no model is loaded.
BeginGeneration ==
  /\ MainIsFree
  /\ generation = "idle"
  /\ dog' = W!Evaluated(W!Begun(dog))
  /\ health' = W!Health(W!Evaluated(W!Begun(dog)))
  /\ generation' \in IF W!Admits(dog) THEN {"streaming", "idle"} ELSE {"idle"}
  /\ UNCHANGED <<membership, ring, profiles, loop, rebuild, environment>>

\* Every token is a collective of the whole group.
TokenArrives ==
  /\ MainIsFree
  /\ generation = "streaming" /\ intact
  /\ dog' = W!WithProgress(dog)
  /\ UNCHANGED <<membership, health, ring, profiles, loop, generation, rebuild,
                 environment>>

\* The stream is finished, or cancelled by whoever asked for it.
GenerationEnds ==
  /\ generation = "streaming"
  /\ generation' = "idle"
  /\ UNCHANGED <<membership, dog, health, ring, profiles, loop, rebuild,
                 environment>>

\* ringWatchTask: polls while the generation streams, and ends it when the
\* ring is being rebuilt or lost.
WatchGeneration ==
  /\ MainIsFree
  /\ generation = "streaming"
  /\ RefreshHealth(dog)
  /\ generation' = IF health' \in {"reforming", "lost"} THEN "idle" ELSE "streaming"
  /\ UNCHANGED <<membership, ring, profiles, loop, environment>>

-----------------------------------------------------------------------------
(* Re-formation.                                                           *)

\* A bug variant of Rebuilt: the local node is not filtered out.
RebuiltUnfiltered == seen \cup {Local}

\* buildRing takes the devices discovery lists, and leaves the ring alone when
\* the coordinator is not among them.  From then on the old model is released
\* and its group torn down.
CoordinatorListed == Coordinator \in seen \cup {Local}

Rebuilt == IF CoordinatorListed THEN seen ELSE ring

StartRebuild ==
  /\ rebuild = "created"
  /\ rebuild' = "running"
  /\ ring' = Rebuilt
  /\ profiles' = IF profiles = "reset" /\ CoordinatorListed THEN "gone"
                                                           ELSE profiles
  /\ intact' = FALSE
  /\ UNCHANGED <<membership, dog, health, loop, generation, up, seen, drains,
                 steady>>

\* synchronize() is a collective: it returns only when every member answers.
GroupAnswers == rebuild = "running" /\ \A p \in ring : up[p]

\* The new group stands, and the model that was released is loaded onto it.
StartReload ==
  /\ GroupAnswers
  /\ rebuild' = "reloading"
  /\ intact' = TRUE
  /\ UNCHANGED <<membership, dog, health, ring, profiles, loop, generation,
                 up, seen, drains, steady>>

\* A bug variant: the task handle is not cleared.
RebuildSucceedsKeepingTask ==
  /\ GroupAnswers \/ rebuild = "reloading"
  /\ intact' = (GroupAnswers \/ intact)
  /\ dog' = W!Evaluated(W!WithSuccess(dog))
  /\ health' = W!Health(W!Evaluated(W!WithSuccess(dog)))
  /\ UNCHANGED <<membership, ring, profiles, loop, generation, rebuild,
                 up, seen, drains, steady>>

\* The model is loaded again, or there was none.
RebuildSucceeds ==
  /\ GroupAnswers \/ rebuild = "reloading"
  /\ rebuild' = "none"
  /\ intact' = (GroupAnswers \/ intact)
  /\ dog' = W!Evaluated(W!WithSuccess(dog))
  /\ health' = W!Health(W!Evaluated(W!WithSuccess(dog)))
  /\ UNCHANGED <<membership, ring, profiles, loop, generation, up, seen, drains,
                 steady>>

\* A bug variant: the banner is not refreshed when a rebuild fails.
RebuildFailsSilently ==
  /\ rebuild \in {"running", "reloading"}
  /\ rebuild' = "none"
  /\ dog' = W!Evaluated(W!WithFailure(dog))
  /\ UNCHANGED <<membership, health, ring, profiles, loop, generation,
                 environment>>

\* Teardown refused because handles outlive it, initialisation or reload threw.
RebuildFails ==
  /\ rebuild \in {"running", "reloading"}
  /\ rebuild' = "none"
  /\ dog' = W!Evaluated(W!WithFailure(dog))
  /\ health' = W!Health(W!Evaluated(W!WithFailure(dog)))
  /\ UNCHANGED <<membership, ring, profiles, loop, generation, environment>>

-----------------------------------------------------------------------------
(* The environment.                                                        *)

\* A peer crashes, is suspended by its OS, or loses the network.
GoesDown(p) ==
  /\ up[p]
  /\ up' = [up EXCEPT ![p] = FALSE]
  /\ intact' = (intact /\ p \notin ring)
  /\ steady' = steady \ {p}
  /\ UNCHANGED <<membership, dog, health, ring, profiles, loop, generation,
                 rebuild,
                 seen, drains>>

ComesBack(p) ==
  /\ ~up[p]
  /\ up' = [up EXCEPT ![p] = TRUE]
  /\ UNCHANGED <<membership, dog, health, ring, profiles, loop, generation,
                 rebuild,
                 intact, seen, drains, steady>>

\* willResignActive: the announcement leaves while the peer is still up.
Resigns(p) ==
  /\ up[p] /\ p \notin drains
  /\ Published[p].link = "iosSuspended"
  /\ drains' = drains \cup {p}
  /\ steady' = steady \ {p}
  /\ UNCHANGED <<membership, dog, health, ring, profiles, loop, generation,
                 rebuild,
                 up, intact, seen>>

\* updatePeers makes the device list anew, without the profiles in it.
DiscoveryChanges(p) ==
  /\ seen' = IF up[p] THEN seen \cup {p} ELSE seen \ {p}
  /\ profiles' = IF seen' # seen /\ profiles = "held" THEN "reset" ELSE profiles
  /\ UNCHANGED <<membership, dog, health, ring, loop, generation, rebuild,
                 up, intact, drains, steady>>

\* Time passes when the loop is not due to act, or cannot.
Elapse ==
  /\ loop.timer > 0 \/ ~MainIsFree
  /\ loop' = [loop EXCEPT !.timer = IF @ > 0 THEN @ - 1 ELSE 0]
  /\ storage' = M!Aged(storage)
  /\ sinceEpoch' = M!Lesser(sinceEpoch + 1, Dwell)
  /\ dog' = W!WithTime(dog)
  /\ steady' = IF MainIsFree THEN steady ELSE {}
  /\ UNCHANGED <<epochMembers, health, ring, profiles, generation, rebuild,
                 up, intact, seen, drains>>

-----------------------------------------------------------------------------
\* start(): the ring has just been initialised, with every peer up.
Init ==
  /\ storage = M!Appeared([n \in {} |-> n], Local, Published[Local], 0)
  /\ sinceEpoch = 0
  /\ epochMembers = {}
  /\ dog = W!Fresh
  /\ health = "healthy"
  /\ ring = Peers
  /\ profiles = "held"
  /\ loop = [todo |-> {}, known |-> FALSE, timer |-> 0]
  /\ generation = "idle"
  /\ rebuild = "none"
  /\ up = [p \in Peers |-> TRUE]
  /\ intact = TRUE
  /\ seen = Peers
  /\ drains = {}
  /\ steady = Peers

Ping == \E p \in Peers, alive \in BOOLEAN : PingReturns(p, alive)

Next ==
  \/ StartRound
  \/ Ping
  \/ \E p \in Peers : DrainArrives(p) \/ DrainIsLost(p)
  \/ BeginGeneration
  \/ TokenArrives
  \/ GenerationEnds
  \/ WatchGeneration
  \/ StartRebuild
  \/ StartReload
  \/ RebuildSucceeds
  \/ RebuildFails
  \/ \E p \in Unstable :
       GoesDown(p) \/ ComesBack(p) \/ Resigns(p) \/ DiscoveryChanges(p)
  \/ Elapse

Spec == Init /\ [][Next]_vars

LoopRuns == MainIsFree /\ (StartRound \/ Ping \/ Elapse)

\* The collective of a rebuild returns when every member answers, and a reload
\* comes to an end.
RebuildReturns == StartReload \/ RebuildSucceeds

\* Whenever the main actor is free again and again the loop goes on: time
\* passes, a round starts when it is due and a ping returns at the latest when
\* it times out; a rebuild that was created starts, and one whose members
\* answer returns.  A peer that is down need never come back.
Fairness ==
  /\ []<>MainIsFree => []<><<LoopRuns>>_vars
  /\ WF_vars(StartRebuild)
  /\ WF_vars(RebuildReturns)

FairSpec == Spec /\ Fairness

-----------------------------------------------------------------------------
TypeOK ==
  /\ M!TypeOK
  /\ W!TypeOK
  /\ health \in {"healthy", "stalled", "reforming", "lost"}
  /\ ring \subseteq Peers
  /\ profiles \in {"held", "reset", "gone"}
  /\ loop \in [todo : SUBSET Peers, known : BOOLEAN,
                timer : 0..ProbeInterval + PingTimeout]
  /\ generation \in {"idle", "streaming"}
  /\ rebuild \in {"none", "created", "running", "reloading"}
  /\ up \in [Peers -> BOOLEAN] /\ intact \in BOOLEAN
  /\ seen \subseteq Peers /\ drains \subseteq Peers /\ steady \subseteq Peers

\* The host tolerates a miss, and a lease lasts longer than the pings of a round
\* over all other peers can take.
LeaseOutlivesRound ==
  /\ MissLimit > 0
  /\ \A p \in Peers :
       M!Lesser(LeaseDuration, Support[Published[p].link])
         > (Cardinality(Peers) - 1) * PingTimeout

\* A peer that answered every ping and never resigned stays in the planning
\* set, however long the pings of the others take: the lease it was given
\* outlives a round of probes.  (A rebuild that holds the host up for longer
\* than that in the middle of a round can cost the peers their leases.)
SteadyPeerStaysIn ==
  \A p \in steady \cap DOMAIN storage : M!Participates(storage[p].state)

\* The banner never says the ring is fine, or recoverable, when it is lost,
\* and never that it is lost when it is not (RingHealth.userFacingMessage),
\* though it is a cached verdict and rebuilds end on their own.
BannerTellsTheEnd == health = "lost" <=> dog.phase = "terminal"

\* One rebuild at a time, and only for a confirmed loss: while the task exists
\* the watchdog is reforming or has given up waiting for it, so no request can
\* be admitted into the group it is tearing down (startReformationIfNeeded).
RebuildOnlyWhileReforming == rebuild # "none" => dog.phase \in {"reforming", "terminal"}

\* A rebuild never leaves the watchdog waiting for ever, even when a member dies
\* in the middle of it: it succeeds, fails or times out, until the attempts are
\* used up ("a host that never reports back would leave the watchdog waiting
\* forever", RingWatchdog.swift; "recoverable", RingHealthMonitor.swift).
RebuildResolves == dog.phase = "reforming" ~> dog.phase # "reforming"

\* Slow is not dead, and healthy even less: the local node is never taken for
\* the member that left the ring.
LocalIsNeverBlamed ==
  dog.pending # None => dog.pending.node # Local

\* The ring is rebuilt from the surviving membership, without the node the
\* rebuild blames (reformRing).
RebuildExcludesDeparted ==
  [][rebuild = "created" /\ rebuild' = "running" =>
       dog.reason.node \notin ring']_vars
=============================================================================
