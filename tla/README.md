# ShareCompute, modelled in TLA+

ShareCompute runs one language model on several devices of its owner: Macs and
iPhones that form a ring over Bonjour (the *InferRing* app), a pool of Windows,
macOS, iOS and Android peers behind one hub, and a split llama.cpp cluster of
scripts and worker apps. Devices come, go, sleep and answer slowly, and the
correctness of the program is mostly about that: who is a member, who may be
given work, when a ring is lost, when it may be rebuilt, and who finds out.

This directory specifies that logic, checks it with TLC on small instances and
proves the central parts with TLAPS for all instances. Paths below are relative
to the root of the repository; `src/` in `PROJECT.json` is that root.

## 1. The system

| Component | Where | State it keeps | Operations |
|---|---|---|---|
| Membership service | `Sources/ShareComputeCore/MembershipService.swift`, `NodeState.swift`, `Lease.swift`, `Epoch.swift` | a record per node (lifecycle state, profile, missed heartbeats, lease), the epoch, when it changed and for whom it was started | `nodeAppeared`, `heartbeatSucceeded`, `heartbeatFailed`, `nodeAnnouncedDrain`, `apply`, `tick` |
| Ring watchdog | `RingWatchdog.swift` | phase (running, reforming, terminal), pending loss, times of the last token, the loss and the rebuild, attempts | `recordProgress`, `recordLoss`, `evaluate`, `beginGeneration`, `reformationSucceeded/Unavailable/Failed` |
| Stage planner | `StagePlanner.swift` | none | eligibility, largest-remainder apportionment, `plan` |
| Cross-platform pool | `CrossPlatformPool.swift` | the membership service and a seat per platform (two maps) | `connect`, heartbeat reports, `announceDrain`, `tick`, `planRAMPool` |
| Ring health monitor | `Apps/InferRing/.../RingHealthMonitor.swift` | a membership service, a watchdog, the cached verdict, the rebuild task | probe loop, `peerAnnouncedDrain`, `refreshHealth`, `startReformationIfNeeded` |
| Ring coordinator | `RingCoordinator.swift` | devices discovery lists, their hardware profiles, the election, the ring | `updatePeers`, election messages, `buildRing`, `reformRing` |
| Model manager | `ModelManager.swift` | the loaded model and card, the card set aside for a rebuild, the generation and its tasks | load across peers, serve a load, generate, release and reload for a rebuild, shard assignment |
| MLX group manager | `Apps/InferRing/Ring/Manager.swift` | the MLX group | initialise, tear down |
| Data server, data client | `DataServer.swift`, `DataClient.swift` | none of interest | ping, drain, election and model routes |
| Split cluster | `scripts/split_cluster.py`, `Apps/ComputeWorker`, `Apps/AndroidWorker` | control records, pending channels, the sticky failure of a run, the counters of the workers | `accept`, `forward`, heartbeats, the worker's `open`, `run_coordinator`, `stop` |
| Split launcher | `scripts/split_launcher.py`, `scripts/run_log.py` | processes, timing records | start, log |
| Dual topology, pipeline and four-platform scripts | `scripts/portable_dual_topology_*`, `scripts/inference_pipeline_*`, `scripts/four_platform_pool_*` | tables of peers on a hub, work in flight | register, heartbeat, plan, hop, RPC |

How they interact:

```
 Bonjour ──updatePeers──▶ RingCoordinator ──election──▶ peers' RingCoordinators
                              │  ▲ reformRing
                              ▼  │
 DataServer ──drain──▶ RingHealthMonitor ◀──poll, token, begin── ModelManager
                        │ calls       │ starts the rebuild task
                        ▼             ▼
              MembershipService   RingWatchdog      MLXManager (teardown, init)

 ModelManager (leader) ──POST load──▶ DataServer ──▶ ModelManager (peer)
      ▲ release, reload (RingCoordinator.reformRing, on every member)

 CrossPlatformPool ──calls──▶ MembershipService, StagePlanner

 native probe ──endpoint──▶ Relay.forward ◀──future── Relay.accept ◀──dials── worker
                              ▲ wait, snapshot, judge, stop
                          run_coordinator
```

`ShareComputeCore` owns no timer and does no I/O: a host tells it what happened
and asks what follows. So its hard behaviours are long sequences of legal calls.
The monitor around it lives on the main actor with several tasks, whose interleavings
are at the `await`s: a ping that takes its time-out, a drain announcement that
arrives meanwhile, a generation that is streaming. The rebuild is one of these tasks,
and because the app is built with `SWIFT_APPROACHABLE_CONCURRENCY` the coordinator's
nonisolated `reformRing` runs on the main actor too: it holds everything up
while MLX blocks. The coordinator and the model manager are not bound to an actor:
the observation of Bonjour, buttons, messages, loads and handlers are tasks that run
in parallel and interleave between any two statements. The relay of the split cluster
is one asyncio loop, with the same cuts at its `await`s, and workers that it does
not control. `PROJECT.json` lists every such hazard with its line and the
property that watches it.

What makes each part correct, in a sentence each:

* *Membership*: a node that may be given work holds a current, bounded and
  fitting lease; departing is one-way; coming back starts afresh; epochs are
  versions of the ring, not too frequent and not put off for ever.
* *Watchdog*: slow is not dead; only a diagnosed loss interrupts; recovery ends;
  giving up is final.
* *Monitor*: healthy peers stay, the dead are found, what the user sees agrees
  with what is, one rebuild at a time, and every rebuild comes to an end.
* *Election*: one leader per ring; left alone, the devices form a ring of all.
* *Model loading*: no shard is kept on a group that is gone, and none is reloaded
  onto the group a rebuild was to replace; a load that reports success is a load on
  every member; nobody is left loading.
* *Split cluster*: a worker has one session, a hand-over is completed or the run
  fails, a PASS is clean and credits this run only, every run is judged and ends.
* *Pool and planner*: a seat has one occupant and it is a member; a plan that is
  handed out belongs to the current epoch and can be carried out.

## 2. The modules

| Module | Models | Remarks |
|---|---|---|
| `RingEpochs` | what the service promises a scheduler about epochs | abstract |
| `Membership` | the membership service: one action per call | implements `RingEpochs` |
| `MembershipProofs` | its theorems | TLAPS |
| `RingRecovery` | bounded recovery of a ring that lost a member | abstract |
| `RingWatchdog` | the watchdog: one action per call | implements `RingRecovery` |
| `RingWatchdogProofs` | its theorems | TLAPS |
| `RingHealthMonitor` | one host of an app ring, its peers and network | composes `Membership` and `RingWatchdog` by `INSTANCE` |
| `RingHealthMonitorProofs` | its theorems | TLAPS |
| `RingElection` | the coordinators of all devices of an app ring, and the messages between them | |
| `RingElectionProofs` | its theorems | TLAPS |
| `ModelLoading` | loading on the members of a ring, and keeping the model across rebuilds | |
| `ModelLoadingProofs` | its theorems | TLAPS |
| `StagePlanner` | the planner, as operators | |
| `StagePlannerProofs` | its theorems | TLAPS |
| `CrossPlatformPool` | the hub of a pool | composes `Membership` and `StagePlanner`, implements `RingEpochs` |
| `CrossPlatformPoolProofs` | its theorems | TLAPS |
| `SplitRelay` | a run of the split cluster: coordinator, relay, workers | |
| `SplitRelayProofs` | its theorems | TLAPS |
| `MC*` | the instances TLC checks | |

### Membership

`storage` is the dictionary of the same name: a partial function from nodes to
records. `NodeAppeared`, `HeartbeatSucceeded`, `HeartbeatFailed`,
`NodeAnnouncedDrain`, `Apply` and `Tick` are the public calls, `Elapse` is the
clock. What a call does to the storage is an operator of the storage
(`Appeared`, `Heard`, `Missed`, `Moved`, `Swept`, `Reissued`), because the app
makes several calls without an await in between and the monitor composes them.

Times are kept relative to now: `Lease.expiresAt` becomes `lease.remaining`,
`lastEpochChangedAt` becomes `sinceEpoch`, and both stop where the code's
comparison can no longer tell the difference; the same goes for the count of
misses, which the code only compares with its limit. `NextState` answers the
old state where the code answers nil and the caller ignores it. A lease's set of
stage types is one Boolean, all stages or only the non-required ones; these are
the only two sets `issueLease` builds. The stability score and the texts of events are
left out, nothing decides on them.

`tick` is one action: evictions first, then the epoch, for the planning set that
is left. Its two disjuncts `TickSameEpoch` and `TickNewEpoch` are the two ways
through `advanceEpochIfNeeded`.

### RingWatchdog

The private fields are a record `dog`; `quiet`, `lossAge` and `rebuildAge` are
the ages of `lastProgressAt`, of the pending loss and of `reformingSince`. The
calls are operators on it, used by the actions here and in the monitor.
`evaluate` changes the phase and answers a verdict: `Evaluated` and `Health`.

### RingHealthMonitor

The main actor runs until it awaits, so an action is the code between two
awaits. The probe loop is cut at each ping: `StartRound` reads the ring,
`PingReturns` handles one answer, and the last one (or a round without peers)
does `FinishRound`: tick, consume the evictions, refresh the health, sleep. The loop
iterates over a copy of the ring in the order of the identities, so `loop.todo` is
the set of peers it has still to ping, and the next is the first of them. Every
other task may run between: `DrainArrives`, the generation
(`BeginGeneration`, `TokenArrives`, `GenerationEnds`, and `WatchGeneration`, its
poll of the ring), and the rebuild. `RefreshHealth` is what all of them call; it
creates a rebuild task when one is due and none is there.

The rebuild is *created*, then *running* from `StartRebuild` on (the ring built anew,
the teardown, `initMLX` and the collective `synchronize`), then *reloading* the
model, which awaits. `reformRing` is nonisolated and the build setting
`SWIFT_APPROACHABLE_CONCURRENCY` makes it run on its caller's actor, so while the rebuild is
running nothing else of the monitor does: `MainIsFree` is a guard of every other
action, only time passes. `StartReload` and `RebuildSucceeds` need every member of the
new ring to answer; `RebuildFails` is a teardown or an initialisation that throws.

The environment: a peer goes down and comes back, resigns (an iPhone that leaves
the foreground; it may go on answering), its announcement arrives late or never,
a ping takes up to its time-out, discovery lists what is up with any delay.
Once discovery has changed, the device list has lost its hardware profiles, and
a ring rebuilt from it has peers that are heard but never *appear* to the
membership service; `profiles` follows that.

Not in it: what a peer that restarts its process does (it has no ring and starts
an election), discovery that loses a living peer, a second generation while one
runs, and a token that was already buffered when the group broke. The number of the epoch is
left out because the app reads neither it nor the epoch of a lease.

### RingElection

One value of each variable per device: what it has discovered, whether its browser
runs, the state and coordinator of its election, its ring, what it is about to send,
the tasks that start MLX (`mlxInitTask` as it stands, one it no longer names, one that
is cancelled but waits for a profile) and the hosts its MLX group was made with.

A device `Finds` another, or several that the observation reports together, and goes on
to elect at the first, as `updatePeers` does. Nothing isolates the coordinator, so a
handler is not one step: `Receives` is the decision of `processElectionMessage` and
leaves a task with the `Statements` it has still to execute, and `Handles` executes
one of them (`Cancels`, `Initiates`, `Appoints`, `Restates`, `Builds`, `Launches`). The
observation of the list and the buttons make tasks of the same kind, and any of them
interleave. `sendToSuccessor` makes a task too, so a message `Departs` later than the
statement that made it, to whoever is the successor by then. What is still one step is a
single property: reading and writing it, e.g. `state`, does not overlap with itself.

`LosesSight`, `StartFormation`, `StopFormation`, `FindsNoSuccessor` and `IsLost` are
interferences and are counted. The ring order is the order of `IdOrder`: a device's
successor is the one of its discovered devices with the smallest distance `Ahead`.
Profiles of others are not kept: the election reads the one in the message, which never
changes.

### StagePlanner and CrossPlatformPool

The planner is pure. Its doubles are replaced by integers: below 2^52 for layers times
bytes the whole parts of the shares are exact, and fractional parts with different
remainders order as the remainders do. With equal remainders they may differ by what
the divisions rounded, and then decide before the rank does: the code divides six layers
over weights 2, 5, 2 as 1, 4, 1, where exact fractions would give 2, 3, 1. The
parameter `lift`, one of `Roundings`, stands for that: how far rounding moved each rank's
fraction, with equal weights moved alike. The pool's plan takes any of them, and the
theorems are for every one. The running `cursor` of `plan` and the `reduce`s are the
partial sums `Sums`; the loop that feeds starved ranks is `FedOnce`, repeated as often
as there are ranks (`Fed`). All of these are recursive functions, not `RECURSIVE`
operators. A model weighs at least one byte. Eligible members are `Sorted` by
`IdOrder`. The pool keeps two maps, device to platform and
platform to device, and changes them in `Connect` and in the evictions of
`Tick`; `PlanRAMPool` ticks before it plans, as the code does. `returned` is what
the last call gave its caller, so that properties can speak of the plans and
events a host sees. `Trusted` is the set of devices whose trust tier may hold required
stages (`StagePlanner.swift:163`): in the run all of them, since every profile the pool
and the app publish says `.trustedCore`, in the theorems any set. The mirror of the
pool's messages to a transport is left out.

### ModelLoading

One value per member of `currentModel`, `currentModelCard`, `cardPendingReload`, the
group `MLXManager` has (`group`) and the one MLX keeps and hands out again (`cached`);
`op` is the leader's `loadModelAcrossPeers` with the children of its task group that it
still waits for. `LoadModelAcrossPeers` is the code up to the task group,
`HandleModelLoadRequest` the arrival of a post at a peer, also one the leader has
given up on, `NoAnswer` a post that returns nil, `FinishLoading` the code after the task
group.

A load goes through the steps at which it can be overtaken: `Shards`, when the weights
are there, copies the group there is by then and shards the model over the copy;
`Assigns` puts the model in place of the one before; `Returns` is what its caller
(leader, handler or reload) does next; `LoadFails` is weights that cannot be had. Any
number of loads of a member may be in progress.

A rebuild is cut likewise: `ReleaseModelForReformation`, `Teardown`, `InitMLX`,
`ReloadAfterReformation`, which starts the reload as one more load. `finalize()` leaves
everything as it is while somebody holds the group (`InUse`): the model in place, or a
load that has copied it. Teardown may also throw for handles this module does not know of,
and the build may lack `finalize()`. A second formation reaches the same group:
`HearsCoordinator` builds the ring anew, and `FormationInitialises` initialises MLX a
while later beside loads and rebuilds; MLX then hands out the group it has, if any.
Every member rebuilds by itself.

A *ring epoch* numbers the memberships a member has built its ring of, and names the
group made for one. The layers of a shard, the parallel mode, downloads and progress
are left out. Coarser than the code: the guard of `isLoading` and its assignment are one
step, and so are a formation's read of `ringDevices` and its `initMLX`. The plan of a load may
have been made for another membership than the group it meets (H32, the 32nd hazard of `PROJECT.json`); that
happens in the model and no property judges it, since layers are left out.

### SplitRelay

A control connection `ctl[c]` is a socket and the accept task that serves it. A
*tunnel* `tun[t]` is a connection of the native probe to an endpoint with everything
that belongs to it: the `forward` task, the future in `pending`, the data connection
the worker dials with its own accept task, and the worker's end. `Forward`,
`Bridge`, `TimeOut`, `Unbridge` are `forward` between its awaits; `AcceptData`,
`Resolve`, `Release` the data half of `accept`; `Handshake`, `Join`, `Reject`,
`Heartbeat`, `Lose` its control half; `Dial`, `WorkerLeaves`, `Open`,
`WorkerTunnelEnds` the worker, which is the same protocol in Python, Swift and
Java. A data connection that is refused after its acknowledgement is *cut*: the worker
sees its end and ends the tunnel without an error. `AllJoined` to `Judge` are the stages
of `run_coordinator`, `Stop` and `Stopped` the two halves of `Relay.stop`.

Time is not counted: a time limit may run out whenever what it waits for has
not come, also when the result is set and the task has not resumed yet. What
crosses a tunnel is abstracted to *bytes crossed* and *a graph was computed*;
`stats` is the one counter the verdict compares, which on a phone runs on from
earlier runs (`Earlier`). `fresh` is a history variable. Pairing, tokens, the TLS
pin, and the checks of builds, layers, budgets and addresses are one choice
between `Join` and `Reject`, or between the two ends of `Judge`.

## 3. What is checked

Safety and liveness are stated in the modules, each with a comment that names
the code it is about. Definitions named as a bug variant beside the real one
are what a plausible bug there would look like; each property has been seen to
fail for at least one of them.

| Run | Instance | What it shows |
|---|---|---|
| `membership` | `MCMembership.cfg`: a Mac and a phone that may decline required stages, 3 epochs | In every order of calls: leases of usable nodes are of the current epoch, within what the OS honours, and for required stages only where these may be held; draining is one-way; a rejoin starts afresh; an epoch starts with members that answer; the service implements `RingEpochs`; a membership change is taken up or undone. |
| `watchdog` | `MCRingWatchdog.cfg`: two nodes, two kinds of loss | In every order of tokens, losses, requests, polls and late outcomes: only a diagnosed loss escalates, never before the grace since the last token and the loss; the first diagnosis is kept; no request is admitted over an overdue loss; giving up is final; recovery is bounded (`RingRecovery`, with its liveness). |
| `monitor` | `MCRingHealthMonitor.cfg`: a Mac whose peers are an iPad that stays and an iPhone that comes and goes; one attempt | A peer that answers every ping is not evicted because the ping of the other takes its full time-out; the banner says *lost* exactly when the watchdog has given up; a rebuild exists only while reforming or after giving up. |
| `rebuild_hang` | `MCMonitorRebuild.cfg`: one iPhone | *Violation.* Finding 3. |
| `local`, `departed` | `MCMonitorLocal.cfg`, `MCMonitorDeparted.cfg`: one iPhone, longer times | *Violations.* Findings 1 and 2. |
| `pool` | `MCPool.cfg`: two laptops for one seat, and a phone | Seats and membership agree; a plan belongs to the epoch it names, covers the model, fits every node's memory, is on every platform and outlasts no lease. The planner is also checked over all inputs of up to three ranks of four units each and six layers, for every rounding of its fractions (`ApportionmentIsSound`, `EstimateIsSafe`, assumptions of `MCCrossPlatformPool`). |
| `election` | `MCElection.cfg`: two devices of different memory, left alone or with one interference, and two of the same memory with two | Two devices never both lead; devices of the same memory get neither coordinator nor ring; without interference the stronger device ends up coordinator of a ring of both, and each has an MLX group of both, however discovery, elections, announcements, tasks and the statements of handlers overtake each other. |
| `relay` | `MCSplitRelay.cfg`: a laptop and an iPhone | With workers that leave, connect twice or never, time-outs that race their results and a stop at any moment: one session per worker; an accept task that waits for its release gets it, or the run fails; a PASS is clean and credits only graphs of this run; every run is judged, and stops unless somebody is connecting just then. |
| `relay_stop` | `MCSplitRelayStop.cfg`, the same | *Violation.* Finding 4. |
| `loading` | `MCModelLoading.cfg`: a Mac that leads and a phone, two model cards | With loads that overlap step by step with each other, with rebuilds and with second formations on both members, slow and failing loads and silent peers: the manager, the model and the loads of a member never have two different groups; what a rebuild reloads is on a new group; a load ends without an error only if its card is on every member that answered and on which nothing else came after it; the leader is not left loading. |
| `loading_silent` | `MCModelLoadingSilent.cfg`, the same | *Violation.* Finding 5. |

### Bounds, and why they are enough

* Bounds that cut behaviour: `MaxEpoch` of `Membership` and the pool, beyond which no
  epoch starts; `MaxEpoch` and `MaxRequests` of `ModelLoading`, how often a member builds its
  ring and how many loads the user asks for; and `budget` of the election, how often
  anybody interferes. A membership epoch starts from records that are re-issued,
  so nothing depends on how many there were; two or three let a node live through a
  change, a rejoin and another change. The theorems hold for every value of these bounds.
* All other counters stop where the code's comparison does and cut nothing.
* One unit of time stands for about ten seconds (membership) or two (watchdog,
  monitor). What is kept is the order of the code's constants: a lease of a
  phone is shorter than that of a Mac and both outlast a round of probes; the
  stall threshold is larger than the grace after a loss (equal in `rebuild_hang`, to
  keep it small: a stall by itself never escalates, so which comes first decides nothing);
  in `monitor` all leases are as short as an iPhone's. The miss limit is one
  in `monitor`, so that every miss counts and `SteadyPeerStaysIn` is about answers
  that take long, not about misses that are forgiven; it is two in `local` and
  `departed`.
* Two nodes in the membership and watchdog runs: every guard speaks about one
  node and the planning set as a whole, and one node beside another is enough
  to have evictions, joins and an epoch change in one tick.
* `monitor` has two peers, so that a round can be held up by the ping of one while
  the lease of the other runs. The peer that is pinged later, the iPhone, is the one
  that comes and goes, resigns and changes in discovery (`Unstable`); the iPad before
  it may be slow to answer but stays. One attempt at rebuilding there (the second is covered
  by `watchdog`; with two, 3.1 million states, all properties hold as well).
  The condition `LeaseOutlivesRound` is evaluated as an assumption; without it, with a
  `PingTimeout` of 2, TLC finds `SteadyPeerStaysIn` violated. The three violation runs of
  the monitor need one peer only. `SteadyPeerStaysInHolds` is for any number of peers.
* The election runs with two devices. They meet every order of discovery and every
  interleaving of statements; two interferences, e.g. a reset and a lost message, on devices
  of the same memory, one on different ones. (With two on different ones, 1.6 million states, the
  invariants hold too.) The properties are about pairs, since for three devices TLC
  refutes them (section 4). `OneLeaderOfTwo` and `AlikeNeverCombine` are for any number of
  interferences.
* The pool has one contested seat and one uncontested, the least with which a
  displaced device, its successor and a plan over two platforms exist. The theorems
  hold for any number of devices, platforms, layers and bytes.
* The relay has two workers, as many control connections and as many tunnels:
  enough for a worker that connects twice, for one that is there while the other
  is missing, for two tunnels of one worker that meet at the limit, and for one
  tunnel of each. `ChannelLimit` is 1 for the code's 4, so that two tunnels reach
  it. The safety theorems hold for any number of each.
* Loading has one peer and two cards, so that a late handler of an earlier request
  and of another card can end after the newer one. The run starts with a number of ring
  builds and loads left (`Turns`): two loads with two builds on the peer or one on the leader,
  and one load with two builds on the leader or one on each, so that a load meets two
  rebuilds, a rebuild and a second formation, or a rebuild on each side. All of them
  with one build per member and two loads, 3.3 million states, satisfy the invariants and
  `AnsweredMeansLoaded` too. The theorems hold for any number of peers and any bounds.

### Fairness, and why the code justifies it

* `Membership!FairSpec`: weak fairness of `Tick` and `Elapse`. Hosts call `tick`
  at every heartbeat interval; time passes. Nothing is assumed of heartbeats.
* `RingWatchdog!FairSpec`: weak fairness of `Evaluate` and `Elapse`. The app polls
  `refreshHealth` each second of a generation and after each round of probes.
  No outcome of a rebuild is assumed.
* `RingHealthMonitor!FairSpec`: *if* the main actor is free again and again, the loop makes
  steps for ever (`LoopRuns`: the clock, a round that is due, a ping that returns at the
  latest with its time-out). A rebuild task that was created starts, and one whose
  members all answer returns. Not assumed: that a rebuild frees the main actor when a member
  does not answer, that a peer comes back, that an announcement arrives, or that discovery
  notices anything.
* `RingElection!FairSpec`: weak fairness of all progress together: something
  happens as long as something can. Tasks run, a post that is not lost arrives,
  Bonjour reports the peers that stay, a task executes its statements. No order among them is
  assumed.
* `SplitRelay!FairSpec`: weak fairness of `LoopStep`, all steps of the event loop
  together: it does not idle while a task can run, and each of its waits has a time
  limit. Nothing is assumed of workers: they need not connect, answer or leave.
* `ModelLoading!FairSpec`: a post has a time limit (`NoAnswer`), the steps of a local load
  of the leader go on, and the task group's end is handled. No peer has to answer, and
  nothing is assumed of rebuilds and formations.

### No property says that a broken generation ends

`beginGeneration` drops a loss that is still in its grace period, and a suspended member
is not reported again. A generation started at that moment waits for a rank that is
gone, and nothing has to end it: what does today is the lapse of the local lease
(finding 1), which is reported as a loss, and then the watch task, if a rebuild does not hold
the main actor first (finding 3). Neither is a promise of the code, so nothing is stated.
Whoever fixes finding 1 should keep the loss.

## 4. Findings

Each with the run that shows it.

1. **The local node evicts itself** (`local`, code bug). `publishLocalProfile`
   keeps the local node known with `nodeAppeared`, which does not renew the lease
   of a node that is present, and only the other peers are reported as heard. The
   local lease lapses after its duration, `tick` calls the local node unreachable, and a
   healthy ring is rebuilt. The next `nodeAppeared` joins it again, so this repeats.
2. **A rebuild may include the node it blames** (`departed`). `reformRing` takes
   what discovery lists, not the surviving membership its comment speaks of.
3. **A rebuild that hangs is not timed out** (`rebuild_hang`, code bug). `reformRing` is
   nonisolated, and with `SWIFT_APPROACHABLE_CONCURRENCY = YES` (`project.pbxproj:467,531`) it
   runs on its caller's actor, the main actor. It blocks there in `initMLX` and in the
   collective `synchronize` (`RingCoordinator.swift:238-242`) until every member of the new ring
   answers. The time-out of a rebuild is taken by `refreshHealth` on the same actor, so
   while a member is down nobody takes it: the watchdog stays reforming, the probes
   and the polls stop. `RingWatchdog.swift:71-73` introduces the time-out against
   exactly this hang, and `RingCoordinator.swift:219-220` says that this blocking work has
   never run on the main actor. If the main actor is assumed to become free again and again,
   the same instance satisfies `RebuildResolves`. (The finding rests on the reading of
   the build setting; the code was not run.)
4. **A stop may not end** (`relay_stop`, code bug). `Relay.stop` cancels the tasks it
   knows and then waits. A control connection whose TLS handshake ends during that
   wait gets an accept task nobody cancels; `accept` does not look at `closing`, the
   worker joins and sends heartbeats, and `wait_closed` waits for it: the report
   of the run is not written while that worker stays. The counterexample was
   reproduced with the relay itself under Python 3.11.
5. **A silent peer counts as loaded** (`loading_silent`, code bug). A post that times out
   or cannot be made returns nil, the collection of answers drops nil, and only answers
   that say *failed* are counted. The leader takes the card up although a peer has
   no shard of it.

### Stated in a module, refuted by TLC, without a run of their own

* **`peerConnected` does not imply planning membership.** A displaced device that
  takes its seat back before the next tick is still draining and is reported as
  connected. Add `PeerConnectedIsPlanned` to the invariants of `MCPool.cfg`.

### Met while modelling

* The group may be torn down under a generation. The rebuild is started by whoever
  sees the loss confirmed; a generation finds out at its next poll, though
  `reforming` is documented as *generation has stopped*.
* Three devices that discover each other one by one may get two leaders. A device elects as soon
  as it knows of one other, and its message is passed on to the successor of the moment, so
  it may come back without having passed the strongest device. In a trace of 33 states of
  `RingElection`, with memories 1, 2, 3 for a, b and c and nothing that interferes, b and c
  both lead, each in the ring of the other. And a device that hears the
  announcement before it has discovered the coordinator becomes a follower without a ring,
  which nothing builds later. To see them, add a third device to `MCOrder` and
  `MCPairs` and take `APair` out of `OneLeader` and `RingForms`.
* Devices of one kind do not connect. A candidate neither passes on nor answers a
  message of equal memory, so two phones of one model swallow each other's message and
  stay candidates; `Apps/InferRing/README.md:4-5` has *even two phones* connect and combine.
  `AlikeStayApart` states what the code does, for any number of interferences. The same
  happens to two different devices when the only message of the stronger one is lost.
* A rebuild that blocks the main actor for longer than a lease in the middle of a round of
  probes, and then returns, can cost healthy peers their leases at the end of that round.
  The history `steady` leaves these peers out.
* `apply` moves a node's state and leaves its lease, so after `powerDuress` an
  opportunistic node holds a lease for required stages until its next heartbeat (no
  host passes that event; add it to `HostEvents` of `MCMembership.cfg` and
  `RequiredLeaseFitsState` fails).
* After a reset and another formation MLX still has the group of the first one, and a load then
  shards with the plan of the new membership over the group of the old one (H32); the collectives of
  such a group do not match the plan.
* `requestMissingProfiles` indexes `allDevices` across an await: after `updatePeers`
  the profile goes to whoever is at that index by then, or there is none.
* The counters a run subtracts are those of the last heartbeats read, and a phone
  that joined a moment ago has none: its counter is taken for zero, and a graph
  of an earlier run would be credited to this one. `validate_proof` does not look at
  `stats_at`. `CreditIsForThisRun` therefore speaks of workers that were heard
  before the snapshot (`fresh`).
* The relay takes a channel off its count before the worker does. A probe that
  closes a channel and opens another at the limit can meet a worker that still
  counts the old one and ends its session; the run then fails, it does not pass.
* A load that copied the group before a rebuild tears it down keeps a handle of it, and one
  that ends after the release puts a model back on it; `finalize()` then refuses and
  the rebuild fails. `ReloadsOnNewGroup` is that this refusal is enough: drop the check and
  the next `initMLX` hands out the old group. A
  rebuild during a first load may end with a card and no model, and selecting
  the same card again does nothing (`ChatViewModel.swift:25`,
  `ServerViewModel.swift:18`). A handler of an earlier request that ends late sets the
  model of the earlier card.
* The comment above `apportion` promises everyone the floor or the ceiling of its
  share, and the feeding of starved ranks takes more from the largest one (eight
  layers over weights 97, 1, 1, 1 become 5, 1, 1, 1); harmless, since nobody gets
  more than the share allows. And `plan` refuses a model when its proportional
  shares do not fit although another division would (five layers of 7 on
  capacities 28 and 13 would fit as 4 and 1).

## 5. What is proved

TLAPS checks the theorems of the eight `*Proofs` modules for every value of the
constants, under the assumptions of the modules, which TLC evaluates in the runs:

* sorts of the constants, and identities that differ: `MembershipAssumption`,
  `WatchdogAssumption`, `MonitorAssumption`, `MonitorConfig`, `PoolAssumption`,
  `PoolConfig`, `ElectionAssumption`, `RelayAssumption`, `LoadingAssumption`;
* `LeaseOutlivesRound` (monitor, for `SteadyPeerStaysInHolds` only): a miss is tolerated,
  and a lease lasts longer than the pings of all other peers can take.

**Membership.** `TypeCorrect` needs nothing more. `NoStaleAuthority`,
`LeaseWithinOSLimit` and `RequiredLeaseFitsState` are not inductive: a lease
survives re-publication of a profile, so what it was issued for must still be what the
node is. `AuthorityInv` strengthens them to: every usable node's lease is of the
current epoch, has at most the time its link model allows, is for required
stages only in a state that may hold them, and the profile kept is one the node
may publish. It is inductive under `HostRules`:

* `FixedLinks`: all profiles a node may publish have one link model. Re-publishing
  keeps the lease, so with another link model the lease could outlast what the
  new one honours. Devices do not change their OS.
* `HostEvents` contains no event that makes a node usable or changes what it may
  host: that is what `apply` gets wrong (section 4). No host calls it.

`DrainIsOneWayHolds` needs no invariant beyond types. `RejoinStartsAfreshHolds` needs
that joins are not passed to `apply`. `EpochStartsCleanHolds` and
`ImplementsEpochs` (the refinement of `RingEpochs`, for any constants) hold without
assumptions on the host.

**Watchdog.** `GoodInv` says of each phase what the fields are: while running
nobody is blamed and no attempt counted; when reforming or terminal the
diagnosis is the pending one, and a cause exists exactly when terminal. From it
follow `WatchdogTypeCorrect` and `OnlyLossEscalatesHolds`. For the action properties,
each call is shown to have one of a few *shapes* (`StepShape`: stays, escalates,
retries, recovers, gives up), and `NeverCutsShortHolds`, `TerminalIsFinalHolds`,
`NoRequestIntoDeadRingHolds`, `DiagnosisIsKeptHolds` and `RecoverySafety` read off them.

**Monitor.** `MonitorInv` is `BannerTellsTheEnd` and `RebuildOnlyWhileReforming` with the
fact that the watchdog has a phase. Both are about a cached value or a task
beside the phase, so each call of the watchdog is shown to keep or leave the phase in
the way they need, and `RefreshKeeps` says it once for `refreshHealth`, which ends
every action that touches the watchdog. No assumption on the constants is needed.

`SteadyPeerStaysInHolds`, that a peer which answers every ping is not evicted, is about
the order of a round. `SteadyInv` says that a steady peer that is known may be given
work, that every record has the profile its node publishes, and that once a steady
peer has answered in a round, its lease outlasts what is left of it (`Covered`): a
time-out for every peer still to come, and what the running ping has left
(`Remaining`). When it answers, at most all other peers are still to come, and
`LeaseOutlivesRound` says that a full lease is longer than that. Between rounds it
claims nothing, since leases are judged at the end of a round only. With the code's
numbers (a ping runs out after 8 s, `DataClient.swift:32`; an iPhone's OS honours 30 s)
the assumption holds for up to four peers, 3 times 8 s, and no longer for five. It
cannot be dropped: with two peers and a time-out of 2 against leases of 2, TLC evicts a
peer that answers every ping. Nor can the history `steady` be dropped, which leaves out peers
that were to be asked while a rebuild held the host up.

**Election.** `TypeCorrect` is for any number of devices. The argument of Chang and
Roberts, that a message which has been round the ring has beaten everybody, needs all devices
to know their neighbours; these discover one another one by one, and for three the
claim is false. For two it holds however late either discovers the other: a message that
comes back to its candidate has been passed on by the other device, and only a weaker one
passes it on. `PairInv` says so of every message, of every task that has still to execute what
such a message asks for, and of what these tasks have written: an election message that is
not the strongest device's is its candidate's own and on its way to the other; an announcement, a
coordinator and a ring exist only of or with a device stronger than the other.
`OneLeaderOfTwo` and `AlikeNeverCombine` read off it, for any memories, interferences and
interleavings of statements.

**Planner.** The sums of the code's loops are recursive functions, and the facts about
them (`Sums` is monotone, a change of one entry changes the total by as much, remainders
add up to the leftover times the weight) are inductions, made from the least
counterexample, because the library's induction theorems cannot be used. The number of
ranks with a larger remainder is a rank's place in the sorted list of `apportion`, so
exactly as many ranks get one more as rounding left over, whichever of several equal
fractions `lift` puts first. Each round of feeding
lowers the number of starved ranks or changes nothing, and when it changes nothing
nobody is starved, as long as there are as many layers as ranks. `ApportionIsFair`:
every layer is handed out, everyone gets one, and nobody who has spare memory gets a
whole layer more than its share. `PlanIsSound`: a plan that is made covers its model in
rank order, fits every node by the true size of its weights, and stays within
every share. Both are for any number of layers, bytes and members, and every `lift`.

**Pool.** `SeatsMatchMembership` becomes inductive with: every record has a state,
`platformByNode[n]` is the platform of `n`, a seat is held by a device that knows it
and is not suspended (`SeatsAreHeld`), and who may be planned holds its seat
(`PlannedAreSeated`). `connect` keeps it because the displaced device is drained
first; `tick` because a seat is only vacated by who holds it.

The types and the leases of the pool are those of the service, and the lemmas of
`MembershipProofs` about its operators are used for them: `connect` drains a displaced
device and lets another appear in one step, so the service's own theorems about
its actions do not apply, its lemmas about each call do. From them
`PoolKeepsAuthority`, which needs no assumption like `FixedLinks`: a device of the
pool has one profile. A plan is made in the state its own tick left and is there only
until the next call, so `PlanIsForItsEpochHolds` and `PlanCanBeCarriedOutHolds` come from
what `planRAMPool` checks (seats, deferred epoch, eligibility), from `SeatsMatchMembership`,
and from `PlanIsSound`. `PoolImplementsEpochs` is
the refinement of `RingEpochs` by the pool.

**Loading.** `NoModelOnAnOldGroupHolds` is inductive given types: a load copies the group
there is, the manager takes the group MLX has, and MLX lets go of a group only when
neither a model nor a load in flight holds it. `ReloadsOnNewGroupHolds` adds that epochs only grow and
that past its teardown a rebuild's member has no group, or one made since (`UpToDate`): whatever
MLX hands out then was made for the ring the rebuild built or a later one.
`AnsweredMeansLoadedHolds` rests on `AnswerInv`, which keeps an account of every member:
one that was not given up runs at most one job of the load the leader is at, and none before
its post has arrived; jobs of earlier loads and reloads may run beside it, and answer
nobody; when one of them puts its model in place, the member counts as overtaken until its own
job does; and whoever has answered and is not overtaken holds the card.

**Relay.** A tunnel changes by one of a few *moves* of its record, whatever action does
it; `TunnelInv` says what the fields of a tunnel say of each other (`Consistent`) and
that a future or hand-over that was given up has failed the run (`Accounted`).
`SessionInv` does the same for the table of workers and the control connections.
`HandOverIsKeptHolds` and `OneSessionPerWorkerHolds` follow; `PassIsCleanHolds` needs both,
and that only `Judge` passes a run and sees no failure. `CreditInv` says that a counter
taken down before the split is what earlier runs left, so that one beyond it is of
this run.

**Only model-checked.** Every invariant of the passing runs and every safety
property of steps has a theorem. What has none is liveness, out of the prover's
reach: `ChangesAreTakenUp`, the fairness of `RecoverySpec`, `RingForms`, `RunIsJudged`,
`StopEndsWhenNobodyConnects` and `LoadingEnds`. `RecoverySafety` is the safety part of `RecoverySpec`.

## 6. Not modelled, and why

* MLX, llama.cpp and their patches, tensor and pipeline layers: numerical code
  and libraries. A collective is modelled by when it returns.
* Bonjour, hardware monitoring, the user interface, the OpenAI-compatible API,
  downloads: I/O. Discovery's lag is in the monitor's environment.
* Transports of the pool and framing: its state does not depend on them.
* The arithmetic of `assignShardMetadata`: one call on one state, within reach of a
  unit test. `ModelLoading` names a plan by the membership it was made for.
* Of the split cluster: pairing files, the TLS pin, the checks of builds, layers,
  budgets and addresses, timing records, the launcher; of the worker apps the weight
  cache, background handling, services and screens. They decide whether a
  connection or a verdict is refused, which the model leaves open.
* The dual topology, pipeline and four-platform hubs (`scripts/portable_*`,
  `inference_pipeline_*`, `four_platform_pool_*`): rehearsals in which peers pass the
  numbers of a stub in place of a model. Their protocols are of the family of the
  split cluster's (join, heartbeat, one of *done*, *error* or *disconnected*), their
  pool is the one of `CrossPlatformPool` written again in Python. Reading them
  showed one difference worth a look: `inference_pipeline_hub.py` lets a second peer of
  a platform take the seat of the first and accepts `done` from any peer, where
  `portable_dual_topology_hub.py` refuses both.
* The recorded evidence. The 27 files `docs/evidence/**/*.json.ts` are the only
  ones with the suffix of TypeScript, and they are data: time series a measuring proxy
  wrote, five numbers a line. They hold no code a definition could translate, so
  a share of the implementation that is counted over TypeScript lines stays at zero;
  the programs are the Swift, Python, Java and C++ files named in section 1.

## 7. Plan

Done, in order of importance: `Membership` and its epochs, `RingWatchdog`, their
composition in `RingHealthMonitor`, `CrossPlatformPool` with `StagePlanner`,
`RingElection`, `SplitRelay`, `ModelLoading`, and the proofs of section 5: by now of
every safety property a run checks.

Left, should the project go on:

1. The dual topology hub with its peers and its fallback between topologies.
2. Device lists and profiles across `updatePeers` and `requestMissingProfiles`, with the
   bounds of `assignShardMetadata`.
3. Abstract specifications of what a run of the split cluster and a load promise
   (a run is judged once; a load is asked for, answered and reported), implemented by
   `SplitRelay` and `ModelLoading`, as `RingEpochs` and `RingRecovery` are by theirs.

## 8. Running it

`tlc -config MCMembership.cfg MCMembership` and so on for the pairs in `PROJECT.json`;
`tlapm` on each of the eight `*Proofs` modules. The longest runs, `relay` and `monitor`,
take about three minutes with two workers, the proofs a few each.
