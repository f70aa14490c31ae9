---------------------------- MODULE ModelLoading ----------------------------
(***************************************************************************)
(* Loading a model on the members of a ring and keeping it across a        *)
(* rebuild (ModelManager.swift, with RingCoordinator.reformRing, the end   *)
(* of a formation, and MLXManager that they call).                         *)
(*                                                                         *)
(* The leader loads its own shard and asks every peer over HTTP to load    *)
(* theirs; a post returns nil when the peer cannot be reached, does not    *)
(* answer in time or answers something else.  Every member rebuilds its    *)
(* MLX group by itself when its monitor confirms a loss, and initialises   *)
(* MLX again when it hears of another coordinator.  A load copies the      *)
(* group when its weights are there, shards over the copy, and its caller  *)
(* puts the model in place later; nothing keeps loads, handlers, rebuilds  *)
(* and formations from interleaving between those steps.                   *)
(*                                                                         *)
(* A ring epoch numbers the memberships a member built its ring of, and    *)
(* names the MLX group made for it.  What is left out: the download of     *)
(* model files from the leader, progress, the layers of a shard.           *)
(***************************************************************************)
EXTENDS Naturals

CONSTANTS
  Leader,
  Peers,          \* the other members of the ring
  Cards,          \* model cards
  MaxEpoch,       \* bound: how often a member builds its ring again
  MaxRequests,    \* bound: loads the user asks for
  Nil             \* nil: no model, no card, no group

Members == {Leader} \cup Peers
Groups == 0..MaxEpoch \cup {Nil}
Models == [card : Cards, group : Groups]

ASSUME LoadingAssumption ==
  /\ Leader \notin Peers
  /\ Nil \notin Cards /\ Nil \notin Nat /\ Nil \notin Models
  /\ MaxEpoch \in Nat /\ MaxRequests \in Nat

VARIABLES
  currentModel,       \* the shard each member holds, with the group it holds
  currentModelCard,
  cardPendingReload,
  group,              \* MLXManager.group
  cached,             \* the group MLX itself keeps and hands out again
  epoch,              \* of the ring each member has built last
  devices,            \* the epoch the rebuild at work was begun for
  rebuilding,         \* where reformRing of a member is
  forming,            \* formations that have not initialised MLX yet
  jobs,               \* the loads running on each member
  requests,           \* posts that may still reach their peer
  isLoading,          \* of the leader
  op,                 \* the leader's loadModelAcrossPeers
  silent,             \* history: the peers this load got no answer from
  overtaken           \* history: the members where something else than this
                      \* load was the last to put or take a model

perMember == <<currentModel, currentModelCard, cardPendingReload>>
ring == <<group, cached, epoch, devices, rebuilding, forming>>
leader == <<isLoading, op, silent>>
vars == <<perMember, ring, jobs, requests, leader, overtaken>>

\* number: the user's request, or the epoch a reload was begun for.  group: the
\* copy a sharded model is on, Nil before and after.
Jobs == [caller : {"leader", "request", "reload"}, number : Nat, card : Cards,
         stage : {"loading", "sharded", "assigned"}, group : Groups]

Loading(caller, number, c) ==
  [caller |-> caller, number |-> number, card |-> c, stage |-> "loading", group |-> Nil]

Posts == [peer : Peers, number : 0..MaxRequests, card : Cards]

\* waiting: the children of the task group that have not returned; failed: an
\* answer was a failure.
Ops == [request : 0..MaxRequests, card : Cards \cup {Nil},
        waiting : SUBSET Members, failed : BOOLEAN]

Idle(request) == [request |-> request, card |-> Nil, waiting |-> {}, failed |-> FALSE]

-----------------------------------------------------------------------------
(* loadModelAcrossPeers and the callers of loadModelLocally.               *)

\* The leader: guard, and a task group of its own load and the requests.
LoadModelAcrossPeers(c) ==
  /\ ~isLoading
  /\ op.request < MaxRequests
  /\ isLoading' = TRUE
  /\ op' = [request |-> op.request + 1, card |-> c, waiting |-> Members, failed |-> FALSE]
  /\ jobs' = [jobs EXCEPT ![Leader] = @ \cup {Loading("leader", op.request + 1, c)}]
  /\ requests' = requests \cup [peer : Peers, number : {op.request + 1}, card : {c}]
  /\ silent' = {}
  /\ overtaken' = {}
  /\ UNCHANGED <<perMember, ring>>

\* A peer: nothing stops it from serving a request while it loads already, or
\* one the leader has given up on.
HandleModelLoadRequest(post) ==
  /\ post \in requests
  /\ requests' = requests \ {post}
  /\ jobs' = [jobs EXCEPT ![post.peer] = @ \cup {Loading("request", post.number, post.card)}]
  /\ UNCHANGED <<perMember, ring, leader, overtaken>>

\* Whether the leader is still waiting for what this load answers.
Awaited(n, job) ==
  job.caller # "reload" /\ job.number = op.request /\ n \in op.waiting

\* A bug variant: an error is answered like a load.
AnswerOnly(n, job, ok) ==
  op' = IF Awaited(n, job) THEN [op EXCEPT !.waiting = @ \ {n}] ELSE op

\* An answer that comes after the leader has given up goes nowhere.
Answer(n, job, ok) ==
  op' = IF Awaited(n, job)
          THEN [op EXCEPT !.waiting = @ \ {n}, !.failed = @ \/ ~ok]
          ELSE op

\* The weights are there: the group as it is by now is copied, and the model
\* sharded over the copy.
Shards(n, job) ==
  /\ job \in jobs[n] /\ job.stage = "loading"
  /\ jobs' = [jobs EXCEPT ![n] = (@ \ {job}) \cup
                {[job EXCEPT !.stage = "sharded", !.group = group[n]]}]
  /\ UNCHANGED <<perMember, ring, requests, leader, overtaken>>

\* loadModelLocally puts the model in place of the one there was.
Assigns(n, job) ==
  /\ job \in jobs[n] /\ job.stage = "sharded"
  /\ currentModel' = [currentModel EXCEPT ![n] = [card |-> job.card, group |-> job.group]]
  /\ jobs' = [jobs EXCEPT ![n] = (@ \ {job}) \cup
                {[job EXCEPT !.stage = "assigned", !.group = Nil]}]
  /\ overtaken' = IF Awaited(n, job) THEN overtaken \ {n} ELSE overtaken \cup {n}
  /\ UNCHANGED <<currentModelCard, cardPendingReload, ring, requests, leader>>

\* Its caller goes on: a handler notes the card, a reload too.
Returns(n, job) ==
  /\ job \in jobs[n] /\ job.stage = "assigned"
  /\ jobs' = [jobs EXCEPT ![n] = @ \ {job}]
  /\ currentModelCard' = IF job.caller = "leader" THEN currentModelCard
                           ELSE [currentModelCard EXCEPT ![n] = job.card]
  /\ cardPendingReload' = IF job.caller = "reload"
                            THEN [cardPendingReload EXCEPT ![n] = Nil]
                            ELSE cardPendingReload
  /\ Answer(n, job, TRUE)
  /\ UNCHANGED <<currentModel, ring, requests, isLoading, silent, overtaken>>

\* The weights cannot be had.
LoadFails(n, job) ==
  /\ job \in jobs[n] /\ job.stage = "loading"
  /\ jobs' = [jobs EXCEPT ![n] = @ \ {job}]
  /\ Answer(n, job, FALSE)
  /\ UNCHANGED <<perMember, ring, requests, isLoading, silent, overtaken>>

LoadProceeds(n, job) ==
  Shards(n, job) \/ Assigns(n, job) \/ Returns(n, job) \/ LoadFails(n, job)

\* The post returns nil: whatever the peer does or did, it is not an answer.
NoAnswer(p) ==
  /\ p \in op.waiting \ {Leader}
  /\ op' = [op EXCEPT !.waiting = @ \ {p}]
  /\ silent' = silent \cup {p}
  /\ UNCHANGED <<perMember, ring, jobs, requests, isLoading, overtaken>>

\* A bug variant: the error is thrown past the reset of isLoading.
FinishLoadingOnSuccess ==
  /\ isLoading /\ op.waiting = {} /\ ~op.failed
  /\ isLoading' = FALSE
  /\ currentModelCard' = [currentModelCard EXCEPT ![Leader] = op.card]
  /\ op' = Idle(op.request)
  /\ UNCHANGED <<currentModel, cardPendingReload, ring, jobs, requests, silent, overtaken>>

\* The task group is done.  A failed answer throws; nil was dropped.
FinishLoading ==
  /\ isLoading /\ op.waiting = {}
  /\ isLoading' = FALSE
  /\ currentModelCard' = IF op.failed THEN currentModelCard
                           ELSE [currentModelCard EXCEPT ![Leader] = op.card]
  /\ op' = Idle(op.request)
  /\ UNCHANGED <<currentModel, cardPendingReload, ring, jobs, requests, silent, overtaken>>

-----------------------------------------------------------------------------
(* MLX's group: formations and reformRing.                                 *)

\* Who has a handle of the group besides MLXManager: the model in place, and
\* the loads that have copied it.
HeldByModel(n) == currentModel[n] # Nil /\ currentModel[n].group # Nil

InUse(n) ==
  \/ HeldByModel(n)
  \/ \E job \in jobs[n] : job.group # Nil

\* initMLX: MLX makes a group of the devices it is told of, unless it has one.
Initialised(n, e) ==
  LET g == IF cached[n] = Nil THEN e ELSE cached[n]
  IN  group' = [group EXCEPT ![n] = g] /\ cached' = [cached EXCEPT ![n] = g]

\* A coordinator is announced: the ring is built anew, MLX a while later.
HearsCoordinator(n) ==
  /\ epoch[n] < MaxEpoch
  /\ epoch' = [epoch EXCEPT ![n] = @ + 1]
  /\ forming' = [forming EXCEPT ![n] = @ + 1]
  /\ UNCHANGED <<perMember, group, cached, devices, rebuilding, jobs, requests, leader, overtaken>>

\* Nothing tears the old group down.  A formation that is cancelled or whose
\* initMLX throws does not get here.
FormationInitialises(n) ==
  /\ forming[n] > 0
  /\ forming' = [forming EXCEPT ![n] = @ - 1]
  /\ Initialised(n, epoch[n])
  /\ UNCHANGED <<perMember, epoch, devices, rebuilding, jobs, requests, leader, overtaken>>

\* reformRing: buildRing takes the surviving members, then the model is let go.
ReleaseModelForReformation(n) ==
  /\ rebuilding[n] = "no" /\ epoch[n] < MaxEpoch
  /\ epoch' = [epoch EXCEPT ![n] = @ + 1]
  /\ devices' = [devices EXCEPT ![n] = epoch[n] + 1]
  /\ rebuilding' = [rebuilding EXCEPT ![n] = "released"]
  /\ cardPendingReload' = [cardPendingReload EXCEPT ![n] = currentModelCard[n]]
  /\ currentModel' = [currentModel EXCEPT ![n] = Nil]
  /\ overtaken' = overtaken \cup {n}
  /\ UNCHANGED <<currentModelCard, group, cached, forming, jobs, requests, leader>>

\* A bug variant: nobody looks at what finalize() returned.
TeardownRegardless(n) ==
  /\ rebuilding[n] = "released"
  /\ group' = [group EXCEPT ![n] = Nil]
  /\ cached' = IF InUse(n) THEN cached ELSE [cached EXCEPT ![n] = Nil]
  /\ rebuilding' = [rebuilding EXCEPT ![n] = "tornDown"]
  /\ UNCHANGED <<perMember, epoch, devices, forming, jobs, requests, leader, overtaken>>

\* MLXManager drops its handle and asks finalize(), which leaves everything as
\* it is while somebody else has one; then, and when there is no finalize() or
\* a handle is left that this module does not know of, teardown throws.
Teardown(n) ==
  /\ rebuilding[n] = "released"
  /\ group' = [group EXCEPT ![n] = Nil]
  /\ \/ /\ ~InUse(n)
        /\ cached' = [cached EXCEPT ![n] = Nil]
        /\ rebuilding' = [rebuilding EXCEPT ![n] = "tornDown"]
     \/ /\ rebuilding' = [rebuilding EXCEPT ![n] = "no"]
        /\ UNCHANGED cached
  /\ UNCHANGED <<perMember, epoch, devices, forming, jobs, requests, leader, overtaken>>

\* A bug variant: the group is initialised for the epoch after.
InitMLXAhead(n) ==
  /\ rebuilding[n] = "tornDown"
  /\ Initialised(n, devices[n] + 1)
  /\ rebuilding' = [rebuilding EXCEPT ![n] = "synchronizing"]
  /\ UNCHANGED <<perMember, epoch, devices, forming, jobs, requests, leader, overtaken>>

InitMLX(n) ==
  /\ rebuilding[n] = "tornDown"
  /\ \/ /\ Initialised(n, devices[n])
        /\ rebuilding' = [rebuilding EXCEPT ![n] = "synchronizing"]
     \/ /\ rebuilding' = [rebuilding EXCEPT ![n] = "no"]
        /\ UNCHANGED <<group, cached>>
  /\ UNCHANGED <<perMember, epoch, devices, forming, jobs, requests, leader, overtaken>>

\* The new group has answered: the card set aside is planned again and loaded,
\* by a job that waits; another rebuild may begin before it is done.
ReloadAfterReformation(n) ==
  /\ rebuilding[n] = "synchronizing"
  /\ rebuilding' = [rebuilding EXCEPT ![n] = "no"]
  /\ jobs' = IF cardPendingReload[n] = Nil THEN jobs
               ELSE [jobs EXCEPT ![n] = @ \cup
                       {Loading("reload", devices[n], cardPendingReload[n])}]
  /\ UNCHANGED <<perMember, group, cached, epoch, devices, forming, requests, leader, overtaken>>

ReformRing(n) ==
  \/ ReleaseModelForReformation(n) \/ Teardown(n) \/ InitMLX(n)
  \/ ReloadAfterReformation(n)

-----------------------------------------------------------------------------
\* No model is loaded; the ring may have been built any number of times.
Init ==
  /\ currentModel = [n \in Members |-> Nil]
  /\ currentModelCard = [n \in Members |-> Nil]
  /\ cardPendingReload = [n \in Members |-> Nil]
  /\ epoch \in [Members -> 0..MaxEpoch]
  /\ group = epoch /\ cached = epoch /\ devices = epoch
  /\ rebuilding = [n \in Members |-> "no"]
  /\ forming = [n \in Members |-> 0]
  /\ jobs = [n \in Members |-> {}]
  /\ requests = {}
  /\ isLoading = FALSE
  /\ op \in {Idle(request) : request \in 0..MaxRequests}
  /\ silent = {}
  /\ overtaken = {}

Next ==
  \/ \E c \in Cards : LoadModelAcrossPeers(c)
  \/ \E post \in requests : HandleModelLoadRequest(post)
  \/ \E p \in Peers : NoAnswer(p)
  \/ \E n \in Members : \E job \in jobs[n] : LoadProceeds(n, job)
  \/ FinishLoading
  \/ \E n \in Members : HearsCoordinator(n) \/ FormationInitialises(n) \/ ReformRing(n)

Spec == Init /\ [][Next]_vars

\* A post has a timeout and a local load returns or throws.
Fairness ==
  /\ \A p \in Peers : WF_vars(NoAnswer(p))
  /\ WF_vars(\E job \in jobs[Leader] : LoadProceeds(Leader, job))
  /\ WF_vars(FinishLoading)

FairSpec == Spec /\ Fairness

-----------------------------------------------------------------------------
TypeOK ==
  /\ currentModel \in [Members -> Models \cup {Nil}]
  /\ currentModelCard \in [Members -> Cards \cup {Nil}]
  /\ cardPendingReload \in [Members -> Cards \cup {Nil}]
  /\ group \in [Members -> Groups]
  /\ cached \in [Members -> Groups]
  /\ epoch \in [Members -> 0..MaxEpoch]
  /\ devices \in [Members -> 0..MaxEpoch]
  /\ rebuilding \in [Members -> {"no", "released", "tornDown", "synchronizing"}]
  /\ forming \in [Members -> 0..MaxEpoch]
  /\ jobs \in [Members -> SUBSET Jobs]
  /\ requests \subseteq Posts
  /\ isLoading \in BOOLEAN
  /\ op \in Ops
  /\ silent \subseteq Peers
  /\ overtaken \subseteq Members

\* No shard outlives the group it was sharded over: however loads, rebuilds and
\* formations overlap, whoever has a group on a member, the manager, the model
\* in place or a load between its copy of the group and its end, has the one MLX
\* runs there.
NoModelOnAnOldGroup ==
  \A n \in Members :
    /\ group[n] \in {Nil, cached[n]}
    /\ currentModel[n] # Nil => currentModel[n].group \in {Nil, cached[n]}
    /\ \A job \in jobs[n] : job.group \in {Nil, cached[n]}

\* A rebuilt ring never goes on with a group of before: what it loads again is
\* put on a group made for its own members or later ones, although loads may
\* hold the old group when it is torn down and formations initialise MLX beside
\* it.
ReloadsOnNewGroup ==
  \A n \in Members : \A job \in jobs[n] :
    job.caller = "reload" /\ job.group # Nil => job.group >= job.number

\* The leader is never left loading.
LoadingEnds == isLoading ~> ~isLoading

Succeeds == isLoading /\ ~isLoading' /\ ~op.failed

Holds(n, c) == currentModel[n] # Nil /\ currentModel[n].card = c

\* A load that ends without an error has put its card on every member, but for
\* those that gave no answer and those where something else came after it: the
\* answers of loads given up before, of failed loads and of loads that overlap
\* on a member are not mistaken for its own.
AnsweredMeansLoaded ==
  [][Succeeds => \A n \in Members \ (silent \cup overtaken) : Holds(n, op.card)]_vars

\* "Check if all peers loaded successfully": a load that ends without an error
\* has left the card on every member.  Violated by a peer that does not answer.
AllPeersLoaded == [][Succeeds => \A n \in Members : Holds(n, op.card)]_vars
=============================================================================
