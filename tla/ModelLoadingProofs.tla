------------------------- MODULE ModelLoadingProofs -------------------------
(***************************************************************************)
(* Proofs about ModelLoading, for any members, cards and numbers of loads, *)
(* rebuilds and formations.                                                *)
(***************************************************************************)
EXTENDS ModelLoading, TLAPS

-----------------------------------------------------------------------------
(* Types.                                                                  *)

\* Every formation under way has built the ring.
TypeInv == TypeOK /\ \A n \in Members : forming[n] <= epoch[n]

\* A load begins well typed, with the fields it is given.
LEMMA LoadingType ==
  ASSUME NEW caller \in {"leader", "request", "reload"}, NEW number \in Nat, NEW c \in Cards
  PROVE  /\ Loading(caller, number, c) \in Jobs
         /\ Loading(caller, number, c).caller = caller
         /\ Loading(caller, number, c).number = number
         /\ Loading(caller, number, c).card = c
         /\ Loading(caller, number, c).stage = "loading"
         /\ Loading(caller, number, c).group = Nil
  BY DEF Loading, Jobs, Groups

Moved(job, stage, g) == [job EXCEPT !.stage = stage, !.group = g]

\* A load that goes on changes its stage and its copy of the group only.
LEMMA MovedType ==
  ASSUME NEW job \in Jobs, NEW stage \in {"loading", "sharded", "assigned"}, NEW g \in Groups
  PROVE  /\ Moved(job, stage, g) \in Jobs
         /\ Moved(job, stage, g).caller = job.caller
         /\ Moved(job, stage, g).number = job.number
         /\ Moved(job, stage, g).card = job.card
         /\ Moved(job, stage, g).stage = stage
         /\ Moved(job, stage, g).group = g
  BY DEF Moved, Jobs

\* The operation at rest has nobody to wait for.
LEMMA IdleType ==
  ASSUME NEW request \in 0..MaxRequests
  PROVE  /\ Idle(request) \in Ops
         /\ Idle(request).request = request /\ Idle(request).waiting = {}
  BY DEF Idle, Ops

\* An answer takes a member off the list and may note a failure.
LEMMA AnswerType ==
  ASSUME op \in Ops, NEW n, NEW job, NEW ok \in BOOLEAN, Answer(n, job, ok)
  PROVE  /\ op' \in Ops
         /\ op'.request = op.request /\ op'.card = op.card
         /\ ~Awaited(n, job) => op' = op
         /\ Awaited(n, job) => /\ op'.waiting = op.waiting \ {n}
                               /\ op'.failed = (op.failed \/ ~ok)
<1> DEFINE W == op.waiting \ {n}
           F == op.failed \/ ~ok
<1>1. CASE ~Awaited(n, job)
  BY <1>1 DEF Answer
<1>2. CASE Awaited(n, job)
  <2>1. op' = [op EXCEPT !.waiting = W, !.failed = F]
    BY <1>2 DEF Answer
  <2>2. W \in SUBSET Members /\ F \in BOOLEAN
    BY DEF Ops
  <2> HIDE DEF W, F
  <2>3. /\ op' \in Ops /\ op'.waiting = W /\ op'.failed = F
        /\ op'.request = op.request /\ op'.card = op.card
    BY <2>1, <2>2 DEF Ops
  <2>4. QED
    BY <1>2, <2>3 DEF W, F
<1>3. QED
  BY <1>1, <1>2

\* Initially everything is well typed.
LEMMA InitTypes == Init => TypeInv
<1> SUFFICES ASSUME Init PROVE TypeInv
  OBVIOUS
<1>1. MaxEpoch \in Nat /\ epoch \in [Members -> 0..MaxEpoch]
  BY LoadingAssumption DEF LoadingAssumption, Init
<1>2. op \in Ops
  BY IdleType DEF Init
<1>3. /\ group = epoch /\ cached = epoch /\ devices = epoch
      /\ forming = [n \in Members |-> 0]
  BY DEF Init
<1>4. /\ epoch \in [Members -> Groups]
      /\ forming \in [Members -> 0..MaxEpoch]
      /\ \A n \in Members : forming[n] <= epoch[n]
  BY <1>1, <1>3 DEF Groups
<1>5. QED
  BY <1>1, <1>2, <1>3, <1>4 DEF Init, TypeInv, TypeOK

\* Types are kept by every step.
LEMMA TypesKept == TypeInv /\ [Next]_vars => TypeInv'
<1> SUFFICES ASSUME TypeInv, [Next]_vars PROVE TypeInv'
  OBVIOUS
<1>0. /\ op \in Ops /\ op.request \in 0..MaxRequests /\ op.waiting \subseteq Members
      /\ Leader \in Members /\ Peers \subseteq Members
      /\ MaxEpoch \in Nat /\ MaxRequests \in Nat
      /\ jobs \in [Members -> SUBSET Jobs]
      /\ group \in [Members -> Groups] /\ cached \in [Members -> Groups]
      /\ epoch \in [Members -> 0..MaxEpoch] /\ devices \in [Members -> 0..MaxEpoch]
      /\ forming \in [Members -> 0..MaxEpoch]
      /\ \A n \in Members : forming[n] <= epoch[n]
  BY LoadingAssumption DEF TypeInv, TypeOK, Ops, Members, LoadingAssumption
<1>a. ASSUME NEW n \in Members, NEW e \in 0..MaxEpoch, Initialised(n, e)
      PROVE  group' \in [Members -> Groups] /\ cached' \in [Members -> Groups]
  <2>1. (IF cached[n] = Nil THEN e ELSE cached[n]) \in Groups
    BY <1>0 DEF Groups
  <2>2. QED
    BY <1>0, <1>a, <2>1 DEF Initialised
<1>1. ASSUME NEW c \in Cards, LoadModelAcrossPeers(c) PROVE TypeInv'
  <2>1. op.request + 1 \in 0..MaxRequests /\ op.request + 1 \in Nat
    BY <1>0, <1>1 DEF LoadModelAcrossPeers
  <2>2. op' \in Ops
    BY <1>0, <1>1, <2>1 DEF LoadModelAcrossPeers, Ops
  <2>3. jobs' \in [Members -> SUBSET Jobs]
    BY <1>0, <1>1, <2>1, LoadingType DEF LoadModelAcrossPeers
  <2>4. requests' \subseteq Posts
    BY <1>1, <2>1 DEF LoadModelAcrossPeers, Posts, TypeInv, TypeOK
  <2>5. QED
    BY <1>1, <2>2, <2>3, <2>4 DEF LoadModelAcrossPeers, TypeInv, TypeOK, perMember, ring
<1>2. ASSUME NEW post \in requests, HandleModelLoadRequest(post) PROVE TypeInv'
  <2>1. post.peer \in Members /\ post.number \in Nat /\ post.card \in Cards
    BY <1>0 DEF TypeInv, TypeOK, Posts
  <2>2. jobs' \in [Members -> SUBSET Jobs]
    BY <1>0, <1>2, <2>1, LoadingType DEF HandleModelLoadRequest
  <2>3. QED
    BY <1>2, <2>2 DEF HandleModelLoadRequest, TypeInv, TypeOK, perMember, ring, leader
<1>3. ASSUME NEW p \in Peers, NoAnswer(p) PROVE TypeInv'
  <2>1. op' \in Ops
    BY <1>0, <1>3 DEF NoAnswer, Ops
  <2>2. QED
    BY <1>3, <2>1 DEF NoAnswer, TypeInv, TypeOK, perMember, ring
<1>4. ASSUME NEW n \in Members, NEW job \in jobs[n], Shards(n, job) PROVE TypeInv'
  <2>1. jobs' = [jobs EXCEPT ![n] = (@ \ {job}) \cup {Moved(job, "sharded", group[n])}]
    BY <1>4 DEF Shards, Moved
  <2>2. jobs' \in [Members -> SUBSET Jobs]
    <3>1. Moved(job, "sharded", group[n]) \in Jobs
      BY <1>0, MovedType
    <3>2. QED
      BY <1>0, <2>1, <3>1
  <2>3. QED
    BY <1>4, <2>2 DEF Shards, TypeInv, TypeOK, perMember, ring, leader
<1>5. ASSUME NEW n \in Members, NEW job \in jobs[n], Assigns(n, job) PROVE TypeInv'
  <2>1. jobs' = [jobs EXCEPT ![n] = (@ \ {job}) \cup {Moved(job, "assigned", Nil)}]
    BY <1>5 DEF Assigns, Moved
  <2>2. jobs' \in [Members -> SUBSET Jobs]
    <3>1. job \in Jobs /\ Nil \in Groups
      BY <1>0 DEF Groups
    <3>2. Moved(job, "assigned", Nil) \in Jobs
      BY <3>1, MovedType
    <3>3. QED
      BY <1>0, <2>1, <3>2
  <2>3. [card |-> job.card, group |-> job.group] \in Models
    BY <1>0 DEF Jobs, Models
  <2>4. currentModel' \in [Members -> Models \cup {Nil}] /\ overtaken' \subseteq Members
    BY <1>5, <2>3 DEF Assigns, TypeInv, TypeOK
  <2>5. QED
    BY <1>5, <2>2, <2>4 DEF Assigns, TypeInv, TypeOK, ring, leader
<1>6. ASSUME NEW n \in Members, NEW job \in jobs[n], Returns(n, job) PROVE TypeInv'
  <2>1. op' \in Ops
    BY <1>0, <1>6, AnswerType DEF Returns
  <2>2. job.card \in Cards /\ jobs' \in [Members -> SUBSET Jobs]
    BY <1>0, <1>6 DEF Returns, Jobs
  <2>3. /\ currentModelCard' \in [Members -> Cards \cup {Nil}]
        /\ cardPendingReload' \in [Members -> Cards \cup {Nil}]
    BY <1>6, <2>2 DEF Returns, TypeInv, TypeOK
  <2>4. QED
    BY <1>6, <2>1, <2>2, <2>3 DEF Returns, TypeInv, TypeOK, ring
<1>7. ASSUME NEW n \in Members, NEW job \in jobs[n], LoadFails(n, job) PROVE TypeInv'
  <2>1. op' \in Ops
    BY <1>0, <1>7, AnswerType DEF LoadFails
  <2>2. jobs' \in [Members -> SUBSET Jobs]
    BY <1>0, <1>7 DEF LoadFails
  <2>3. QED
    BY <1>7, <2>1, <2>2 DEF LoadFails, TypeInv, TypeOK, perMember, ring
<1>8. CASE FinishLoading
  <2>1. op' \in Ops
    BY <1>0, <1>8, IdleType DEF FinishLoading
  <2>2. currentModelCard' \in [Members -> Cards \cup {Nil}]
    BY <1>8 DEF FinishLoading, TypeInv, TypeOK, Ops
  <2>3. QED
    BY <1>8, <2>1, <2>2 DEF FinishLoading, TypeInv, TypeOK, ring
<1>9. ASSUME NEW n \in Members, HearsCoordinator(n) PROVE TypeInv'
  <2>1. /\ epoch' = [epoch EXCEPT ![n] = epoch[n] + 1] /\ epoch[n] < MaxEpoch
        /\ forming' = [forming EXCEPT ![n] = forming[n] + 1]
    BY <1>9 DEF HearsCoordinator
  <2>2. epoch[n] + 1 \in 0..MaxEpoch /\ forming[n] + 1 \in 0..MaxEpoch
        /\ forming[n] + 1 <= epoch[n] + 1
    <3>1. epoch[n] \in 0..MaxEpoch /\ forming[n] \in 0..MaxEpoch /\ forming[n] <= epoch[n]
      BY <1>0
    <3>2. QED
      BY <1>0, <2>1, <3>1
  <2>3. /\ epoch' \in [Members -> 0..MaxEpoch] /\ forming' \in [Members -> 0..MaxEpoch]
        /\ \A m \in Members : forming'[m] <= epoch'[m]
    BY <1>0, <2>1, <2>2
  <2>4. QED
    BY <1>9, <2>3 DEF HearsCoordinator, TypeInv, TypeOK, perMember, leader
<1>10. ASSUME NEW n \in Members, FormationInitialises(n) PROVE TypeInv'
  <2>1. group' \in [Members -> Groups] /\ cached' \in [Members -> Groups]
    BY <1>0, <1>10, <1>a DEF FormationInitialises
  <2>2. /\ forming' \in [Members -> 0..MaxEpoch]
        /\ \A m \in Members : forming'[m] <= epoch[m]
    <3>1. epoch[n] \in 0..MaxEpoch /\ forming[n] \in 0..MaxEpoch /\ forming[n] <= epoch[n]
      BY <1>0
    <3>2. forming[n] > 0 /\ forming' = [forming EXCEPT ![n] = forming[n] - 1]
      BY <1>10 DEF FormationInitialises
    <3>3. forming[n] - 1 \in 0..MaxEpoch /\ forming[n] - 1 <= epoch[n]
      BY <1>0, <3>1, <3>2
    <3>4. QED
      BY <1>0, <3>2, <3>3
  <2>3. QED
    BY <1>10, <2>1, <2>2 DEF FormationInitialises, TypeInv, TypeOK, perMember, leader
<1>11. ASSUME NEW n \in Members, ReleaseModelForReformation(n) PROVE TypeInv'
  <2>1. /\ epoch' = [epoch EXCEPT ![n] = epoch[n] + 1] /\ epoch[n] < MaxEpoch
        /\ devices' = [devices EXCEPT ![n] = epoch[n] + 1]
        /\ forming' = forming
    BY <1>11 DEF ReleaseModelForReformation
  <2>2. epoch[n] + 1 \in 0..MaxEpoch /\ forming[n] <= epoch[n] + 1
    <3>1. epoch[n] \in 0..MaxEpoch /\ forming[n] \in 0..MaxEpoch /\ forming[n] <= epoch[n]
      BY <1>0
    <3>2. QED
      BY <1>0, <2>1, <3>1
  <2>3. /\ epoch' \in [Members -> 0..MaxEpoch] /\ devices' \in [Members -> 0..MaxEpoch]
        /\ \A m \in Members : forming'[m] <= epoch'[m]
    BY <1>0, <2>1, <2>2
  <2>4. QED
    BY <1>11, <2>3 DEF ReleaseModelForReformation, TypeInv, TypeOK, leader
<1>12. ASSUME NEW n \in Members, Teardown(n) PROVE TypeInv'
  <2>1. group' \in [Members -> Groups] /\ cached' \in [Members -> Groups]
    BY <1>0, <1>12 DEF Teardown, Groups
  <2>2. QED
    BY <1>12, <2>1 DEF Teardown, TypeInv, TypeOK, perMember, leader
<1>13. ASSUME NEW n \in Members, InitMLX(n) PROVE TypeInv'
  <2>1. group' \in [Members -> Groups] /\ cached' \in [Members -> Groups]
    BY <1>0, <1>13, <1>a DEF InitMLX
  <2>2. QED
    BY <1>13, <2>1 DEF InitMLX, TypeInv, TypeOK, perMember, leader
<1>14. ASSUME NEW n \in Members, ReloadAfterReformation(n) PROVE TypeInv'
  <2>1. jobs' \in [Members -> SUBSET Jobs]
    <3>1. CASE cardPendingReload[n] = Nil
      BY <1>0, <1>14, <3>1 DEF ReloadAfterReformation
    <3>2. CASE cardPendingReload[n] # Nil
      <4>1. cardPendingReload[n] \in Cards /\ devices[n] \in Nat
        BY <1>0, <3>2 DEF TypeInv, TypeOK
      <4>2. QED
        BY <1>0, <1>14, <3>2, <4>1, LoadingType DEF ReloadAfterReformation
    <3>3. QED
      BY <3>1, <3>2
  <2>2. QED
    BY <1>14, <2>1 DEF ReloadAfterReformation, TypeInv, TypeOK, perMember, leader
<1>15. CASE UNCHANGED vars
  BY <1>15 DEF vars, perMember, ring, leader, TypeInv, TypeOK
<1>16. QED
  BY <1>1, <1>2, <1>3, <1>4, <1>5, <1>6, <1>7, <1>8, <1>9, <1>10, <1>11, <1>12,
     <1>13, <1>14, <1>15
  DEF Next, LoadProceeds, ReformRing

\* The types hold of every run.
LEMMA TypeInvariant == Spec => []TypeInv
  BY InitTypes, TypesKept, PTL DEF Spec

\* Loading is well typed, for any members and cards.
THEOREM LoadingTypeCorrect == Spec => []TypeOK
  BY TypeInvariant, PTL DEF TypeInv

-----------------------------------------------------------------------------
(* NoModelOnAnOldGroup.                                                    *)

OnTheGroup(n) ==
  /\ group[n] \in {Nil, cached[n]}
  /\ currentModel[n] # Nil => currentModel[n].group \in {Nil, cached[n]}
  /\ \A job \in jobs[n] : job.group \in {Nil, cached[n]}

\* A member is not disturbed by what leaves its handles alone, or takes some
\* away.
LEMMA OnTheGroupKept ==
  ASSUME NEW m \in Members, OnTheGroup(m),
         group'[m] \in {Nil, group[m]}, cached'[m] = cached[m],
         currentModel'[m] \in {Nil, currentModel[m]},
         \A job \in jobs'[m] : job.group = Nil \/ \E other \in jobs[m] : job.group = other.group
  PROVE  OnTheGroup(m)'
  BY DEF OnTheGroup

\* A group is only let go when nobody has a handle of it, and only made when
\* there is none; everybody takes the one there is.
LEMMA OnTheGroupInvariant == Spec => [](\A n \in Members : OnTheGroup(n))
<1> DEFINE All == \A n \in Members : OnTheGroup(n)
<1>1. Init => All
  <2> SUFFICES ASSUME Init, NEW n \in Members PROVE OnTheGroup(n)
    OBVIOUS
  <2>1. group[n] = cached[n] /\ currentModel[n] = Nil /\ jobs[n] = {}
    BY DEF Init
  <2>2. QED
    BY <2>1 DEF OnTheGroup
<1>2. TypeInv /\ All /\ [Next]_vars => All'
  <2> SUFFICES ASSUME TypeInv, All, [Next]_vars, NEW m \in Members
               PROVE  OnTheGroup(m)'
    OBVIOUS
  <2>0. /\ OnTheGroup(m)
        /\ jobs \in [Members -> SUBSET Jobs]
        /\ currentModel \in [Members -> Models \cup {Nil}]
        /\ group \in [Members -> Groups] /\ cached \in [Members -> Groups]
        /\ Leader \in Members
        /\ Nil \notin Models
    BY LoadingAssumption DEF TypeInv, TypeOK, Members, LoadingAssumption
  <2>a. ASSUME group' = group, cached' = cached, currentModel' = currentModel,
               jobs' = jobs
        PROVE  OnTheGroup(m)'
    BY <2>0, <2>a, OnTheGroupKept
  <2>b. ASSUME group' = group, cached' = cached, currentModel' = currentModel,
               NEW n \in Members, NEW job, job.group = Nil,
               jobs' = [jobs EXCEPT ![n] = @ \cup {job}]
        PROVE  OnTheGroup(m)'
    <3>1. \A j \in jobs'[m] : j \in jobs[m] \/ j = job
      BY <2>0, <2>b
    <3>2. \A j \in jobs'[m] : j.group = Nil \/ \E other \in jobs[m] : j.group = other.group
      BY <2>b, <3>1
    <3>3. QED
      BY <2>0, <2>b, <3>2, OnTheGroupKept
  <2>c. ASSUME group' = group, cached' = cached, currentModel' = currentModel,
               NEW n \in Members, NEW job,
               jobs' = [jobs EXCEPT ![n] = @ \ {job}]
        PROVE  OnTheGroup(m)'
    <3>1. \A j \in jobs'[m] : j \in jobs[m]
      BY <2>0, <2>c
    <3>2. QED
      BY <2>0, <2>c, <3>1, OnTheGroupKept
  <2>d. ASSUME NEW n \in Members, NEW e \in 0..MaxEpoch, Initialised(n, e),
               currentModel' = currentModel, jobs' = jobs
        PROVE  OnTheGroup(m)'
    <3>1. CASE m # n \/ cached[n] # Nil
      <4>1. cached'[m] = cached[m] /\ group'[m] \in {group[m], cached[m]}
        BY <2>0, <2>d, <3>1 DEF Initialised
      <4>2. QED
        BY <2>0, <2>d, <4>1 DEF OnTheGroup
    <3>2. CASE m = n /\ cached[n] = Nil
      <4>1. cached'[m] = e /\ group'[m] = e
        BY <2>0, <2>d, <3>2 DEF Initialised
      <4>2. /\ currentModel[m] # Nil => currentModel[m].group = Nil
            /\ \A job \in jobs[m] : job.group = Nil
        BY <2>0, <3>2 DEF OnTheGroup
      <4>3. QED
        BY <2>d, <4>1, <4>2 DEF OnTheGroup
    <3>3. QED
      BY <3>1, <3>2
  <2>1. ASSUME NEW c \in Cards, LoadModelAcrossPeers(c) PROVE OnTheGroup(m)'
    <3> DEFINE job == Loading("leader", op.request + 1, c)
    <3>1. job.group = Nil
      BY DEF Loading
    <3>2. jobs' = [jobs EXCEPT ![Leader] = @ \cup {job}]
      BY <2>1 DEF LoadModelAcrossPeers
    <3>3. UNCHANGED <<group, cached, currentModel>>
      BY <2>1 DEF LoadModelAcrossPeers, perMember, ring
    <3> HIDE DEF job
    <3>4. QED
      BY <2>0, <3>1, <3>2, <3>3, <2>b
  <2>2. ASSUME NEW post \in requests, HandleModelLoadRequest(post) PROVE OnTheGroup(m)'
    <3>1. post.peer \in Members
      BY DEF TypeInv, TypeOK, Posts, Members
    <3> DEFINE job == Loading("request", post.number, post.card)
    <3>2. job.group = Nil
      BY DEF Loading
    <3>3. /\ jobs' = [jobs EXCEPT ![post.peer] = @ \cup {job}]
          /\ UNCHANGED <<group, cached, currentModel>>
      BY <2>2 DEF HandleModelLoadRequest, perMember, ring
    <3> HIDE DEF job
    <3>4. QED
      BY <3>1, <3>2, <3>3, <2>b
  <2>3. ASSUME NEW p \in Peers, NoAnswer(p) PROVE OnTheGroup(m)'
    BY <2>3, <2>a DEF NoAnswer, perMember, ring
  <2>4. ASSUME NEW n \in Members, NEW job \in jobs[n], Shards(n, job) PROVE OnTheGroup(m)'
    <3> DEFINE moved == Moved(job, "sharded", group[n])
    <3>1. jobs' = [jobs EXCEPT ![n] = (@ \ {job}) \cup {moved}]
      BY <2>4 DEF Shards, Moved
    <3>2. moved.group = group[n]
      BY <2>0, MovedType
    <3> HIDE DEF moved
    <3>3. \A j \in jobs'[m] : j \in jobs[m] \/ j.group = group[m]
      BY <2>0, <3>1, <3>2
    <3>4. UNCHANGED <<group, cached, currentModel>>
      BY <2>4 DEF Shards, perMember, ring
    <3>5. QED
      BY <2>0, <3>3, <3>4 DEF OnTheGroup
  <2>5. ASSUME NEW n \in Members, NEW job \in jobs[n], Assigns(n, job) PROVE OnTheGroup(m)'
    <3> DEFINE moved == Moved(job, "assigned", Nil)
               model == [card |-> job.card, group |-> job.group]
    <3>1. /\ jobs' = [jobs EXCEPT ![n] = (@ \ {job}) \cup {moved}]
          /\ currentModel' = [currentModel EXCEPT ![n] = model]
          /\ UNCHANGED <<group, cached>>
      BY <2>5 DEF Assigns, Moved, ring
    <3>2. moved.group = Nil
      <4>1. job \in Jobs /\ Nil \in Groups
        BY <2>0 DEF Groups
      <4>2. QED
        BY <4>1, MovedType
    <3>3. model.group = job.group
      OBVIOUS
    <3>4. OnTheGroup(n)
      OBVIOUS
    <3> HIDE DEF moved, model
    <3>5. \A j \in jobs'[m] : j \in jobs[m] \/ j.group = Nil
      BY <2>0, <3>1, <3>2
    <3>6. currentModel'[m] = currentModel[m] \/ (m = n /\ currentModel'[m] = model)
      BY <2>0, <3>1
    <3>7. job.group \in {Nil, cached[n]}
      BY <3>4 DEF OnTheGroup
    <3>8. QED
      BY <2>0, <3>1, <3>3, <3>5, <3>6, <3>7 DEF OnTheGroup
  <2>6. ASSUME NEW n \in Members, NEW job \in jobs[n], Returns(n, job) PROVE OnTheGroup(m)'
    BY <2>6, <2>c DEF Returns, ring
  <2>7. ASSUME NEW n \in Members, NEW job \in jobs[n], LoadFails(n, job) PROVE OnTheGroup(m)'
    BY <2>7, <2>c DEF LoadFails, perMember, ring
  <2>8. CASE FinishLoading
    BY <2>8, <2>a DEF FinishLoading, ring
  <2>9. ASSUME NEW n \in Members, HearsCoordinator(n) PROVE OnTheGroup(m)'
    BY <2>9, <2>a DEF HearsCoordinator, perMember
  <2>10. ASSUME NEW n \in Members, FormationInitialises(n) PROVE OnTheGroup(m)'
    <3>1. epoch[n] \in 0..MaxEpoch
      BY DEF TypeInv, TypeOK
    <3>2. QED
      BY <2>10, <2>d, <3>1 DEF FormationInitialises, perMember
  <2>11. ASSUME NEW n \in Members, ReleaseModelForReformation(n) PROVE OnTheGroup(m)'
    <3>1. /\ group' = group /\ cached' = cached /\ jobs' = jobs
          /\ currentModel' = [currentModel EXCEPT ![n] = Nil]
      BY <2>11 DEF ReleaseModelForReformation
    <3>2. currentModel'[m] \in {Nil, currentModel[m]}
      BY <2>0, <3>1
    <3>3. QED
      BY <2>0, <3>1, <3>2, OnTheGroupKept
  <2>12. ASSUME NEW n \in Members, Teardown(n) PROVE OnTheGroup(m)'
    <3>1. /\ group' = [group EXCEPT ![n] = Nil]
          /\ currentModel' = currentModel /\ jobs' = jobs
          /\ cached' = cached \/ (~InUse(n) /\ cached' = [cached EXCEPT ![n] = Nil])
      BY <2>12 DEF Teardown, perMember
    <3>2. CASE m # n \/ cached' = cached
      <4>1. group'[m] \in {Nil, group[m]} /\ cached'[m] = cached[m]
        BY <2>0, <3>1, <3>2
      <4>2. QED
        BY <2>0, <3>1, <4>1, OnTheGroupKept
    <3>3. CASE m = n /\ ~InUse(n)
      <4>1. group'[m] = Nil
        BY <2>0, <3>1, <3>3
      <4>2. QED
        BY <3>1, <3>3, <4>1 DEF OnTheGroup, InUse, HeldByModel
    <3>4. QED
      BY <3>1, <3>2, <3>3
  <2>13. ASSUME NEW n \in Members, InitMLX(n) PROVE OnTheGroup(m)'
    <3>1. devices[n] \in 0..MaxEpoch
      BY DEF TypeInv, TypeOK
    <3>2. QED
      BY <2>13, <2>a, <2>d, <3>1 DEF InitMLX, perMember
  <2>14. ASSUME NEW n \in Members, ReloadAfterReformation(n) PROVE OnTheGroup(m)'
    <3> DEFINE job == Loading("reload", devices[n], cardPendingReload[n])
    <3>1. job.group = Nil
      BY DEF Loading
    <3>2. /\ jobs' = jobs \/ jobs' = [jobs EXCEPT ![n] = @ \cup {job}]
          /\ UNCHANGED <<group, cached, currentModel>>
      BY <2>14 DEF ReloadAfterReformation, perMember
    <3> HIDE DEF job
    <3>3. QED
      BY <3>1, <3>2, <2>a, <2>b
  <2>15. CASE UNCHANGED vars
    BY <2>15, <2>a DEF vars, perMember, ring
  <2>16. QED
    BY <2>1, <2>2, <2>3, <2>4, <2>5, <2>6, <2>7, <2>8, <2>9, <2>10, <2>11, <2>12,
       <2>13, <2>14, <2>15
    DEF Next, LoadProceeds, ReformRing
<1>3. QED
  BY <1>1, <1>2, TypeInvariant, PTL DEF Spec

\* However loads, rebuilds and formations overlap, every handle of a group on a
\* member is of the one group MLX runs there.
THEOREM NoModelOnAnOldGroupHolds == Spec => []NoModelOnAnOldGroup
<1>1. (\A n \in Members : OnTheGroup(n)) => NoModelOnAnOldGroup
  BY DEF OnTheGroup, NoModelOnAnOldGroup
<1>2. QED
  BY <1>1, OnTheGroupInvariant, PTL

-----------------------------------------------------------------------------
(* ReloadsOnNewGroup.                                                      *)

\* The group of a member is not older than any rebuild that has got past its
\* teardown, nor than those whose reload is still running.
UpToDate(n) ==
  /\ devices[n] <= epoch[n]
  /\ \A job \in jobs[n] : job.caller = "reload" => job.number <= devices[n]
  /\ cached[n] # Nil =>
       \A job \in jobs[n] : job.caller = "reload" => job.number <= cached[n]
  /\ cached[n] # Nil /\ rebuilding[n] \in {"tornDown", "synchronizing"} =>
       devices[n] <= cached[n]

\* What a member's groups and epochs are compared by.
Numbers(n) ==
  /\ devices[n] \in 0..MaxEpoch /\ epoch[n] \in 0..MaxEpoch
  /\ cached[n] # Nil => cached[n] \in 0..MaxEpoch
  /\ \A job \in jobs[n] : job.number \in Nat

\* A member is not disturbed by what leaves its ring alone and starts no reload.
LEMMA UpToDateKept ==
  ASSUME NEW m \in Members, UpToDate(m), Numbers(m),
         devices'[m] = devices[m], cached'[m] = cached[m],
         rebuilding'[m] = rebuilding[m] \/ rebuilding'[m] \in {"no", "released"},
         epoch'[m] = epoch[m] \/ epoch'[m] = epoch[m] + 1,
         \A job \in jobs'[m] : job.caller = "reload" =>
           \E other \in jobs[m] : other.caller = "reload" /\ job.number = other.number
  PROVE  UpToDate(m)'
<1>1. devices[m] <= epoch'[m]
  BY DEF UpToDate, Numbers
<1>2. QED
  BY <1>1 DEF UpToDate

\* A group made anew is made of the last ring that was built or of the one the
\* rebuild asks for, and no reload is of a later one.
LEMMA UpToDateInvariant == Spec => [](\A n \in Members : UpToDate(n))
<1> DEFINE All == \A n \in Members : UpToDate(n)
<1>1. Init => All
  <2> SUFFICES ASSUME Init, NEW n \in Members PROVE UpToDate(n)
    OBVIOUS
  <2>1. /\ devices[n] = epoch[n] /\ epoch[n] \in 0..MaxEpoch
        /\ jobs[n] = {} /\ rebuilding[n] = "no"
    BY DEF Init
  <2>2. MaxEpoch \in Nat
    BY LoadingAssumption DEF LoadingAssumption
  <2>3. QED
    BY <2>1, <2>2 DEF UpToDate
<1>2. TypeInv /\ All /\ [Next]_vars => All'
  <2> SUFFICES ASSUME TypeInv, All, [Next]_vars, NEW m \in Members
               PROVE  UpToDate(m)'
    OBVIOUS
  <2>0. /\ UpToDate(m) /\ MaxEpoch \in Nat
        /\ jobs \in [Members -> SUBSET Jobs]
        /\ group \in [Members -> Groups] /\ cached \in [Members -> Groups]
        /\ epoch \in [Members -> 0..MaxEpoch] /\ devices \in [Members -> 0..MaxEpoch]
        /\ rebuilding \in [Members -> {"no", "released", "tornDown", "synchronizing"}]
        /\ Leader \in Members /\ Nil \notin Nat
    BY LoadingAssumption DEF TypeInv, TypeOK, Members, LoadingAssumption
  <2>n. Numbers(m)
    BY <2>0 DEF Numbers, Groups, Jobs
  <2>a. ASSUME UNCHANGED <<devices, cached, epoch, rebuilding, jobs>> PROVE UpToDate(m)'
    BY <2>0, <2>n, <2>a, UpToDateKept
  <2>b. ASSUME UNCHANGED <<devices, cached, epoch, rebuilding>>,
               NEW n \in Members, NEW gone, NEW job,
               job.caller = "reload" => gone \in jobs[n] /\ gone.caller = "reload"
                                        /\ job.number = gone.number,
               \/ jobs' = [jobs EXCEPT ![n] = @ \cup {job}]
               \/ jobs' = [jobs EXCEPT ![n] = (@ \ {gone}) \cup {job}]
        PROVE  UpToDate(m)'
    <3>1. \A j \in jobs'[m] : j \in jobs[m] \/ (m = n /\ j = job)
      BY <2>0, <2>b
    <3>2. \A j \in jobs'[m] : j.caller = "reload" =>
            \E other \in jobs[m] : other.caller = "reload" /\ j.number = other.number
      BY <2>b, <3>1
    <3>3. QED
      BY <2>0, <2>n, <2>b, <3>2, UpToDateKept
  <2>c. ASSUME UNCHANGED <<devices, cached, epoch, rebuilding>>,
               NEW n \in Members, NEW job, jobs' = [jobs EXCEPT ![n] = @ \ {job}]
        PROVE  UpToDate(m)'
    <3>1. \A j \in jobs'[m] : j \in jobs[m]
      BY <2>0, <2>c
    <3>2. QED
      BY <2>0, <2>n, <2>c, <3>1, UpToDateKept
  <2>1. ASSUME NEW c \in Cards, LoadModelAcrossPeers(c) PROVE UpToDate(m)'
    <3> DEFINE job == Loading("leader", op.request + 1, c)
    <3>1. job.caller # "reload"
      BY DEF Loading
    <3>2. jobs' = [jobs EXCEPT ![Leader] = @ \cup {job}]
      BY <2>1 DEF LoadModelAcrossPeers
    <3>3. UNCHANGED <<devices, cached, epoch, rebuilding>>
      BY <2>1 DEF LoadModelAcrossPeers, ring
    <3> HIDE DEF job
    <3>4. QED
      BY <2>0, <3>1, <3>2, <3>3, <2>b
  <2>2. ASSUME NEW post \in requests, HandleModelLoadRequest(post) PROVE UpToDate(m)'
    <3> DEFINE job == Loading("request", post.number, post.card)
    <3>1. post.peer \in Members
      BY DEF TypeInv, TypeOK, Posts, Members
    <3>2. job.caller # "reload"
      BY DEF Loading
    <3>3. /\ jobs' = [jobs EXCEPT ![post.peer] = @ \cup {job}]
          /\ UNCHANGED <<devices, cached, epoch, rebuilding>>
      BY <2>2 DEF HandleModelLoadRequest, ring
    <3> HIDE DEF job
    <3>4. QED
      BY <3>1, <3>2, <3>3, <2>b
  <2>3. ASSUME NEW p \in Peers, NoAnswer(p) PROVE UpToDate(m)'
    BY <2>3, <2>a DEF NoAnswer, ring
  <2>4. ASSUME NEW n \in Members, NEW job \in jobs[n],
               NEW stage \in {"sharded", "assigned"}, NEW g \in Groups,
               jobs' = [jobs EXCEPT ![n] = (@ \ {job}) \cup {Moved(job, stage, g)}],
               UNCHANGED ring
        PROVE  UpToDate(m)'
    <3> DEFINE moved == Moved(job, stage, g)
    <3>1. job \in Jobs
      BY <2>0
    <3>2. moved.caller = job.caller /\ moved.number = job.number
      BY <3>1, MovedType
    <3> HIDE DEF moved
    <3>3. jobs' = [jobs EXCEPT ![n] = (@ \ {job}) \cup {moved}]
      BY <2>4 DEF moved
    <3>4. UNCHANGED <<devices, cached, epoch, rebuilding>>
      BY <2>4 DEF ring
    <3>5. QED
      BY <3>2, <3>3, <3>4, <2>b
  <2>5. ASSUME NEW n \in Members, NEW job \in jobs[n], Shards(n, job) \/ Assigns(n, job)
        PROVE  UpToDate(m)'
    <3>1. group[n] \in Groups /\ Nil \in Groups
      BY <2>0 DEF Groups
    <3>2. CASE Shards(n, job)
      BY <2>4, <3>1, <3>2 DEF Shards, Moved
    <3>3. CASE Assigns(n, job)
      BY <2>4, <3>1, <3>3 DEF Assigns, Moved
    <3>4. QED
      BY <2>5, <3>2, <3>3
  <2>6. ASSUME NEW n \in Members, NEW job \in jobs[n], Returns(n, job) PROVE UpToDate(m)'
    BY <2>6, <2>c DEF Returns, ring
  <2>7. ASSUME NEW n \in Members, NEW job \in jobs[n], LoadFails(n, job) PROVE UpToDate(m)'
    BY <2>7, <2>c DEF LoadFails, ring
  <2>8. CASE FinishLoading
    BY <2>8, <2>a DEF FinishLoading, ring
  <2>9. ASSUME NEW n \in Members, HearsCoordinator(n) PROVE UpToDate(m)'
    <3>1. /\ UNCHANGED <<devices, cached, rebuilding, jobs>>
          /\ epoch' = [epoch EXCEPT ![n] = epoch[n] + 1]
      BY <2>9 DEF HearsCoordinator
    <3>2. epoch'[m] = epoch[m] \/ epoch'[m] = epoch[m] + 1
      BY <2>0, <3>1
    <3>3. QED
      BY <2>0, <2>n, <3>1, <3>2, UpToDateKept
  <2>d. ASSUME NEW n \in Members, Initialised(n, epoch[n]) \/ Initialised(n, devices[n]),
               UNCHANGED <<devices, epoch, jobs>>,
               \/ rebuilding' = rebuilding
               \/ /\ rebuilding[n] = "tornDown"
                  /\ rebuilding' = [rebuilding EXCEPT ![n] = "synchronizing"]
        PROVE  UpToDate(m)'
    <3>1. CASE m # n
      <4>1. cached'[m] = cached[m] /\ rebuilding'[m] = rebuilding[m]
        BY <2>0, <2>d, <3>1 DEF Initialised
      <4>2. QED
        BY <2>0, <2>n, <2>d, <4>1, UpToDateKept
    <3>2. CASE m = n /\ cached[m] # Nil
      <4>1. cached'[m] = cached[m]
        BY <2>0, <2>d, <3>2 DEF Initialised
      <4>2. \/ rebuilding'[m] = rebuilding[m]
            \/ rebuilding[m] = "tornDown"
        BY <2>0, <2>d, <3>2
      <4>3. QED
        BY <2>0, <2>d, <4>1, <4>2 DEF UpToDate
    <3>3. CASE m = n /\ cached[m] = Nil
      <4>1. cached'[m] \in {epoch[m], devices[m]}
        BY <2>0, <2>d, <3>3 DEF Initialised
      <4>2. /\ devices[m] <= cached'[m]
            /\ \A job \in jobs[m] : job.caller = "reload" => job.number <= cached'[m]
        <5>1. devices[m] <= epoch[m] /\ devices[m] \in Nat /\ epoch[m] \in Nat
          BY <2>0 DEF UpToDate
        <5>2. devices[m] <= cached'[m] /\ cached'[m] \in Nat
          BY <4>1, <5>1
        <5>3. QED
          BY <2>n, <2>0, <5>1, <5>2 DEF UpToDate, Numbers
      <4>3. QED
        BY <2>0, <2>d, <4>2 DEF UpToDate
    <3>4. QED
      BY <3>1, <3>2, <3>3
  <2>10. ASSUME NEW n \in Members, FormationInitialises(n) PROVE UpToDate(m)'
    BY <2>10, <2>d DEF FormationInitialises
  <2>11. ASSUME NEW n \in Members, ReleaseModelForReformation(n) PROVE UpToDate(m)'
    <3>1. /\ UNCHANGED <<cached, jobs>>
          /\ epoch' = [epoch EXCEPT ![n] = epoch[n] + 1]
          /\ devices' = [devices EXCEPT ![n] = epoch[n] + 1]
          /\ rebuilding' = [rebuilding EXCEPT ![n] = "released"]
      BY <2>11 DEF ReleaseModelForReformation
    <3>2. CASE m # n
      <4>1. /\ epoch'[m] = epoch[m] /\ devices'[m] = devices[m]
            /\ rebuilding'[m] = rebuilding[m]
        BY <2>0, <3>1, <3>2
      <4>2. QED
        BY <2>0, <2>n, <3>1, <4>1, UpToDateKept
    <3>3. CASE m = n
      <4>1. /\ epoch'[m] = epoch[m] + 1 /\ devices'[m] = epoch[m] + 1
            /\ rebuilding'[m] = "released"
        BY <2>0, <3>1, <3>3
      <4>2. /\ devices'[m] <= epoch'[m]
            /\ \A job \in jobs[m] : job.caller = "reload" => job.number <= devices'[m]
        BY <2>0, <2>n, <4>1 DEF UpToDate, Numbers
      <4>3. QED
        BY <2>0, <3>1, <4>1, <4>2 DEF UpToDate
    <3>4. QED
      BY <3>2, <3>3
  <2>12. ASSUME NEW n \in Members, Teardown(n) PROVE UpToDate(m)'
    <3>1. /\ UNCHANGED <<devices, epoch, jobs>>
          /\ \/ /\ cached' = [cached EXCEPT ![n] = Nil]
                /\ rebuilding' = [rebuilding EXCEPT ![n] = "tornDown"]
             \/ /\ cached' = cached
                /\ rebuilding' = [rebuilding EXCEPT ![n] = "no"]
      BY <2>12 DEF Teardown
    <3>2. CASE cached'[m] = Nil
      BY <2>0, <3>1, <3>2 DEF UpToDate
    <3>3. CASE cached'[m] # Nil
      <4>1. cached'[m] = cached[m] /\ rebuilding'[m] \in {rebuilding[m], "no"}
        BY <2>0, <3>1, <3>3
      <4>2. QED
        BY <2>0, <2>n, <3>1, <4>1, UpToDateKept
    <3>4. QED
      BY <3>2, <3>3
  <2>13. ASSUME NEW n \in Members, InitMLX(n) PROVE UpToDate(m)'
    <3>1. CASE Initialised(n, devices[n])
               /\ rebuilding' = [rebuilding EXCEPT ![n] = "synchronizing"]
      BY <2>13, <2>d, <3>1 DEF InitMLX
    <3>2. CASE cached' = cached /\ rebuilding' = [rebuilding EXCEPT ![n] = "no"]
      <4>1. UNCHANGED <<devices, epoch, jobs>>
        BY <2>13 DEF InitMLX
      <4>2. rebuilding'[m] \in {rebuilding[m], "no"}
        BY <2>0, <3>2
      <4>3. QED
        BY <2>0, <2>n, <3>2, <4>1, <4>2, UpToDateKept
    <3>3. QED
      BY <2>13, <3>1, <3>2 DEF InitMLX
  <2>14. ASSUME NEW n \in Members, ReloadAfterReformation(n) PROVE UpToDate(m)'
    <3> DEFINE job == Loading("reload", devices[n], cardPendingReload[n])
    <3>1. job.number = devices[n]
      BY DEF Loading
    <3>2. /\ jobs' = jobs \/ jobs' = [jobs EXCEPT ![n] = @ \cup {job}]
          /\ UNCHANGED <<devices, cached, epoch>>
          /\ rebuilding[n] = "synchronizing"
          /\ rebuilding' = [rebuilding EXCEPT ![n] = "no"]
      BY <2>14 DEF ReloadAfterReformation
    <3> HIDE DEF job
    <3>3. \A j \in jobs'[m] : j \in jobs[m] \/ (m = n /\ j = job)
      BY <2>0, <3>2
    <3>4. rebuilding'[m] \in {rebuilding[m], "no"}
      BY <2>0, <3>2
    <3>5. devices[m] <= devices[m]
      BY <2>0
    <3>6. QED
      BY <2>0, <3>1, <3>2, <3>3, <3>4, <3>5 DEF UpToDate
  <2>15. CASE UNCHANGED vars
    BY <2>15, <2>a DEF vars, ring
  <2>16. QED
    BY <2>1, <2>2, <2>3, <2>5, <2>6, <2>7, <2>8, <2>9, <2>10, <2>11, <2>12,
       <2>13, <2>14, <2>15
    DEF Next, LoadProceeds, ReformRing
<1>3. QED
  BY <1>1, <1>2, TypeInvariant, PTL DEF Spec

\* Whatever overlaps a rebuild, what it loads again is never put on a group of
\* before.
THEOREM ReloadsOnNewGroupHolds == Spec => []ReloadsOnNewGroup
<1>1. TypeInv /\ (\A n \in Members : OnTheGroup(n)) /\ (\A n \in Members : UpToDate(n))
        => ReloadsOnNewGroup
  <2> SUFFICES ASSUME TypeInv, NEW n \in Members, OnTheGroup(n), UpToDate(n),
                      NEW job \in jobs[n], job.caller = "reload", job.group # Nil
               PROVE  job.group >= job.number
    BY DEF ReloadsOnNewGroup
  <2>1. job.group = cached[n] /\ cached[n] # Nil
    BY DEF OnTheGroup
  <2>2. job.number <= cached[n]
    BY <2>1 DEF UpToDate
  <2>3. cached[n] \in Nat /\ job.number \in Nat
    BY <2>1, LoadingAssumption DEF TypeInv, TypeOK, Groups, Jobs, LoadingAssumption
  <2>4. QED
    BY <2>1, <2>2, <2>3
<1>2. QED
  BY <1>1, TypeInvariant, OnTheGroupInvariant, UpToDateInvariant, PTL

-----------------------------------------------------------------------------
(* AnsweredMeansLoaded.                                                    *)

\* A job of the load the leader is at, or was at last.
Mine(job) == job.caller # "reload" /\ job.number = op.request

\* What is to come of a member: its jobs are of no later load; a member that has
\* not been given up runs one job of this load at most, and none before its
\* request has come; who has been answered for without an error holds the card,
\* unless it was given up or something else came after it.
Accounted(n) ==
  /\ \A job \in jobs[n] : job.caller # "reload" => job.number <= op.request
  /\ \A post \in requests : post.peer = n => post.number <= op.request
  /\ n \in silent => n \notin op.waiting
  /\ n \notin silent =>
       /\ \A job \in jobs[n] : Mine(job) => n \in op.waiting /\ job.card = op.card
       /\ \A job, other \in jobs[n] : Mine(job) /\ Mine(other) => job = other
       /\ \A post \in requests : post.peer = n /\ post.number = op.request =>
            /\ n \in op.waiting /\ post.card = op.card
            /\ \A job \in jobs[n] : ~Mine(job)
  /\ n \in op.waiting /\ n \notin overtaken =>
       \A job \in jobs[n] : Mine(job) /\ job.stage = "assigned" => Holds(n, op.card)
  /\ isLoading /\ ~op.failed /\ n \notin op.waiting /\ n \notin silent /\ n \notin overtaken =>
       Holds(n, op.card)

\* What the others do, and failures, leave a member's account as it is.
SameAccount(m) ==
  /\ jobs'[m] = jobs[m] /\ currentModel'[m] = currentModel[m]
  /\ requests' \subseteq requests
  /\ m \in silent' <=> m \in silent
  /\ m \in overtaken' <=> m \in overtaken
  /\ m \in op'.waiting <=> m \in op.waiting
  /\ op'.request = op.request /\ op'.card = op.card
  /\ op.failed => op'.failed
  /\ isLoading' = isLoading

\* The account of a member is kept by what changes nothing it is about.
LEMMA AccountKept ==
  ASSUME NEW m \in Members, Accounted(m), SameAccount(m)
  PROVE  Accounted(m)'
  BY DEF Accounted, SameAccount, Mine, Holds

\* Nobody is waited for but during a load.
AnswerInv ==
  /\ ~isLoading => op.waiting = {}
  /\ \A n \in Members : Accounted(n)

\* The types the accounts are kept in.
AnswerTypes ==
  /\ op \in Ops /\ op.request \in Nat /\ op.waiting \subseteq Members
  /\ jobs \in [Members -> SUBSET Jobs] /\ requests \subseteq Posts
  /\ currentModel \in [Members -> Models \cup {Nil}]
  /\ isLoading \in BOOLEAN /\ silent \subseteq Peers /\ overtaken \subseteq Members
  /\ Leader \in Members /\ Leader \notin Peers /\ Peers \subseteq Members
  /\ Nil \notin Models

\* The types the accounts need follow from the type invariant.
LEMMA AnswerTypesHold == TypeInv => AnswerTypes
  BY LoadingAssumption
  DEF TypeInv, TypeOK, AnswerTypes, Ops, Members, LoadingAssumption

\* A load that begins waits for everybody, and everything there is belongs to
\* loads before it.
LEMMA BeginningKeepsAccounts ==
  ASSUME AnswerTypes, AnswerInv, NEW c \in Cards, LoadModelAcrossPeers(c)
  PROVE  AnswerInv'
<1> DEFINE own == Loading("leader", op.request + 1, c)
<1>1. /\ op'.request = op.request + 1 /\ op'.card = c /\ op'.waiting = Members
      /\ silent' = {} /\ overtaken' = {} /\ isLoading' = TRUE
      /\ currentModel' = currentModel
      /\ jobs' = [jobs EXCEPT ![Leader] = @ \cup {own}]
      /\ requests' = requests \cup [peer : Peers, number : {op.request + 1}, card : {c}]
  BY DEF LoadModelAcrossPeers, perMember
<1>2. /\ own.caller = "leader" /\ own.number = op.request + 1 /\ own.card = c
      /\ own.stage = "loading"
  BY DEF Loading
<1> HIDE DEF own
<1>3. ASSUME NEW m \in Members PROVE Accounted(m)'
  <2>1. /\ m \notin silent' /\ m \in op'.waiting
        /\ \A job \in jobs[m] : job \in Jobs
    BY <1>1 DEF AnswerTypes
  <2>2. \A job \in jobs[m] : job.caller # "reload" => job.number < op'.request
    BY <1>1, <2>1 DEF AnswerTypes, AnswerInv, Accounted, Jobs
  <2>3. \A job \in jobs'[m] : job \in jobs[m] \/ (m = Leader /\ job = own)
    BY <1>1 DEF AnswerTypes
  <2>4. \A job \in jobs'[m] : Mine(job)' => m = Leader /\ job = own
    BY <1>1, <2>1, <2>2, <2>3 DEF Mine, Jobs, AnswerTypes
  <2>5. \A job \in jobs'[m] : job.caller # "reload" => job.number <= op'.request
    BY <1>1, <1>2, <2>1, <2>2, <2>3 DEF Jobs, AnswerTypes
  <2>6. \A post \in requests : post.peer = m => post.number < op'.request
    BY <1>1 DEF AnswerTypes, AnswerInv, Accounted, Posts
  <2>7. \A post \in requests' : post.peer = m =>
          \/ post \in requests
          \/ post.number = op'.request /\ post.card = c /\ m \in Peers
    BY <1>1
  <2>8. \A post \in requests' : post.peer = m =>
          /\ post.number <= op'.request
          /\ post.number = op'.request => post.card = c /\ m # Leader
    BY <1>1, <2>6, <2>7 DEF AnswerTypes, Posts
  <2>9. QED
    BY <1>1, <1>2, <2>1, <2>4, <2>5, <2>8 DEF Accounted
<1>4. QED
  BY <1>1, <1>3 DEF AnswerInv

\* A request that comes starts a load of its own number.
LEMMA HandlingKeepsAccounts ==
  ASSUME AnswerTypes, AnswerInv, NEW post \in requests, HandleModelLoadRequest(post)
  PROVE  AnswerInv'
<1> DEFINE own == Loading("request", post.number, post.card)
           p == post.peer
<1>1. /\ requests' = requests \ {post}
      /\ jobs' = [jobs EXCEPT ![p] = @ \cup {own}]
      /\ UNCHANGED <<currentModel, isLoading, op, silent, overtaken>>
  BY DEF HandleModelLoadRequest, perMember, leader
<1>2. /\ own.caller = "request" /\ own.number = post.number /\ own.card = post.card
      /\ own.stage = "loading"
  BY DEF Loading
<1>3. p \in Members /\ p \in Peers
  BY DEF AnswerTypes, Posts
<1> HIDE DEF own
<1>4. ASSUME NEW m \in Members, m # p PROVE Accounted(m)'
  BY <1>1, <1>4, AccountKept DEF SameAccount, AnswerInv, AnswerTypes
<1>5. Accounted(p)'
  <2>1. Accounted(p)
    BY <1>3 DEF AnswerInv
  <2>2. \A job \in jobs'[p] : job \in jobs[p] \/ job = own
    BY <1>1, <1>3 DEF AnswerTypes
  <2>3. own.number <= op.request
    BY <1>2, <2>1 DEF Accounted
  <2>4. p \notin silent /\ Mine(own) =>
          /\ p \in op.waiting /\ own.card = op.card
          /\ \A job \in jobs[p] : ~Mine(job)
    BY <1>2, <2>1 DEF Accounted, Mine
  <2>5. p \notin silent /\ Mine(own) =>
          \A other \in requests' : other.peer = p => other.number # op.request
    <3> SUFFICES ASSUME p \notin silent, Mine(own), NEW other \in requests',
                        other.peer = p, other.number = op.request
                 PROVE  FALSE
      OBVIOUS
    <3>1. other \in requests /\ other # post
      BY <1>1
    <3>2. other.card = op.card /\ post.card = op.card /\ post.number = op.request
      BY <1>2, <2>1, <2>4, <3>1 DEF Accounted, Mine
    <3>3. other \in Posts /\ post \in Posts
      BY <3>1 DEF AnswerTypes
    <3>4. other = post
      BY <3>2, <3>3 DEF Posts
    <3>5. QED
      BY <3>1, <3>4
  <2>6. /\ op' = op /\ silent' = silent /\ overtaken' = overtaken
        /\ isLoading' = isLoading /\ currentModel' = currentModel
        /\ requests' \subseteq requests
    BY <1>1
  <2>7. \A job \in jobs[p] \cup {own} : Mine(job)' <=> Mine(job)
    BY <2>6 DEF Mine
  <2>8. \A job \in jobs'[p] : job.caller # "reload" => job.number <= op.request
    BY <2>1, <2>2, <2>3 DEF Accounted
  <2>9. p \notin silent =>
          /\ \A job \in jobs'[p] : Mine(job) => p \in op.waiting /\ job.card = op.card
          /\ \A job, other \in jobs'[p] : Mine(job) /\ Mine(other) => job = other
    BY <2>1, <2>2, <2>4 DEF Accounted
  <2>10. p \notin silent =>
          \A other \in requests' : other.peer = p /\ other.number = op.request =>
            /\ p \in op.waiting /\ other.card = op.card
            /\ \A job \in jobs'[p] : ~Mine(job)
    BY <2>1, <2>2, <2>5, <2>6 DEF Accounted
  <2>11. p \in op.waiting /\ p \notin overtaken =>
          \A job \in jobs'[p] : Mine(job) /\ job.stage = "assigned" => Holds(p, op.card)
    BY <1>2, <2>1, <2>2 DEF Accounted
  <2>12. QED
    BY <2>1, <2>2, <2>6, <2>7, <2>8, <2>9, <2>10, <2>11 DEF Accounted, Holds
<1>6. QED
  BY <1>1, <1>4, <1>5 DEF AnswerInv

\* A load that goes on is still the load it was; one that puts its model in
\* place holds the card, and one that is not waited for overtakes.
LEMMA ProceedingKeepsAccounts ==
  ASSUME AnswerTypes, AnswerInv, group \in [Members -> Groups],
         NEW n \in Members, NEW job \in jobs[n], Shards(n, job) \/ Assigns(n, job)
  PROVE  AnswerInv'
<1>0. job \in Jobs /\ group[n] \in Groups /\ Nil \in Groups /\ Accounted(n)
  BY DEF AnswerTypes, Groups, AnswerInv
<1>1. PICK moved :
        /\ moved.caller = job.caller /\ moved.number = job.number /\ moved.card = job.card
        /\ jobs' = [jobs EXCEPT ![n] = (@ \ {job}) \cup {moved}]
        /\ Shards(n, job) => moved.stage = "sharded"
  <2>1. CASE Shards(n, job)
    <3>1. jobs' = [jobs EXCEPT ![n] = (@ \ {job}) \cup {Moved(job, "sharded", group[n])}]
      BY <2>1 DEF Shards, Moved
    <3> DEFINE new == Moved(job, "sharded", group[n])
    <3>2. /\ new.caller = job.caller /\ new.number = job.number
          /\ new.card = job.card /\ new.stage = "sharded"
      BY <1>0, MovedType
    <3>3. jobs' = [jobs EXCEPT ![n] = (@ \ {job}) \cup {new}]
      BY <3>1
    <3> HIDE DEF new
    <3>4. QED
      BY <3>2, <3>3
  <2>2. CASE ~Shards(n, job)
    <3>1. jobs' = [jobs EXCEPT ![n] = (@ \ {job}) \cup {Moved(job, "assigned", Nil)}]
      BY <2>2 DEF Assigns, Moved
    <3> DEFINE new == Moved(job, "assigned", Nil)
    <3>2. /\ new.caller = job.caller /\ new.number = job.number
          /\ new.card = job.card
      BY <1>0, MovedType
    <3>3. jobs' = [jobs EXCEPT ![n] = (@ \ {job}) \cup {new}]
      BY <3>1
    <3> HIDE DEF new
    <3>4. QED
      BY <2>2, <3>2, <3>3
  <2>3. QED
    BY <2>1, <2>2
<1>2. UNCHANGED <<requests, isLoading, op, silent>>
  BY DEF Shards, Assigns, leader
<1>3. \A m \in Members \ {n} : currentModel'[m] = currentModel[m] /\ (m \in overtaken' <=> m \in overtaken)
  BY DEF Shards, Assigns, perMember, AnswerTypes
<1>4. ASSUME NEW m \in Members, m # n PROVE Accounted(m)'
  <2>1. jobs'[m] = jobs[m]
    BY <1>1, <1>4 DEF AnswerTypes
  <2>2. QED
    BY <1>2, <1>3, <1>4, <2>1, AccountKept DEF SameAccount, AnswerInv
<1>5. Accounted(n)'
  <2>1. \A j \in jobs'[n] : (j \in jobs[n] /\ j # job) \/ j = moved
    BY <1>1 DEF AnswerTypes
  <2>2. (Mine(moved) <=> Mine(job)) /\ (\A j : Mine(j)' <=> Mine(j))
    BY <1>1, <1>2 DEF Mine
  <2>3. \A j \in jobs'[n] : j.caller # "reload" => j.number <= op.request
    BY <1>0, <1>1, <2>1 DEF Accounted
  <2>4. n \notin silent =>
          /\ \A j \in jobs'[n] : Mine(j) => n \in op.waiting /\ j.card = op.card
          /\ \A j, other \in jobs'[n] : Mine(j) /\ Mine(other) => j = other
          /\ \A post \in requests : post.peer = n /\ post.number = op.request =>
               /\ n \in op.waiting /\ post.card = op.card
               /\ \A j \in jobs'[n] : ~Mine(j)
    BY <1>0, <1>1, <2>1, <2>2 DEF Accounted
  <2>5. CASE Shards(n, job)
    <3>1. currentModel' = currentModel /\ overtaken' = overtaken
      BY <2>5 DEF Shards, perMember
    <3>2. moved.stage # "assigned"
      BY <1>1, <2>5
    <3>3. n \in op.waiting /\ n \notin overtaken =>
            \A j \in jobs'[n] : Mine(j) /\ j.stage = "assigned" => Holds(n, op.card)
      BY <1>0, <2>1, <3>2 DEF Accounted
    <3>4. QED
      BY <1>0, <1>2, <2>2, <2>3, <2>4, <3>1, <3>3 DEF Accounted, Holds
  <2>6. CASE Assigns(n, job) /\ Awaited(n, job)
    <3> DEFINE model == [card |-> job.card, group |-> job.group]
    <3>1. currentModel'[n] = model
      BY <2>6 DEF Assigns, AnswerTypes
    <3>2. model # Nil /\ model.card = job.card
      BY <1>0 DEF AnswerTypes, Models, Jobs
    <3> HIDE DEF model
    <3>3. n \in op.waiting /\ n \notin silent /\ Mine(job)
      BY <1>0, <2>6 DEF Awaited, Mine, Accounted
    <3>4. job.card = op.card
      BY <1>0, <3>3 DEF Accounted
    <3>5. Holds(n, op.card)'
      BY <1>2, <3>1, <3>2, <3>4 DEF Holds
    <3>6. QED
      BY <1>0, <1>2, <2>2, <2>3, <2>4, <3>5 DEF Accounted
  <2>7. CASE Assigns(n, job) /\ ~Awaited(n, job)
    <3>1. n \in overtaken'
      BY <2>7 DEF Assigns
    <3>2. QED
      BY <1>0, <1>2, <2>2, <2>3, <2>4, <3>1 DEF Accounted
  <2>8. QED
    BY <2>5, <2>6, <2>7
<1>6. QED
  BY <1>2, <1>4, <1>5 DEF AnswerInv

\* A load that ends is answered for, if it is waited for: with the card in place
\* or as a failure.
LEMMA EndingKeepsAccounts ==
  ASSUME AnswerTypes, AnswerInv, NEW n \in Members, NEW job \in jobs[n], NEW ok \in BOOLEAN,
         ok => job.stage = "assigned", Answer(n, job, ok),
         jobs' = [jobs EXCEPT ![n] = @ \ {job}],
         UNCHANGED <<currentModel, requests, isLoading, silent, overtaken>>
  PROVE  AnswerInv'
<1>0. /\ op \in Ops /\ Accounted(n)
      /\ op'.request = op.request /\ op'.card = op.card
      /\ ~Awaited(n, job) => op' = op
      /\ Awaited(n, job) => /\ op'.waiting = op.waiting \ {n}
                            /\ op'.failed = (op.failed \/ ~ok)
  BY AnswerType DEF AnswerTypes, AnswerInv
<1>1. ~isLoading' => op'.waiting = {}
  BY <1>0 DEF AnswerInv, Awaited
<1>2. ASSUME NEW m \in Members, m # n PROVE Accounted(m)'
  <2>1. jobs'[m] = jobs[m]
    BY <1>2 DEF AnswerTypes
  <2>2. (m \in op'.waiting <=> m \in op.waiting) /\ (op.failed => op'.failed)
    BY <1>0, <1>2
  <2>3. QED
    BY <1>0, <2>1, <2>2, AccountKept DEF SameAccount, AnswerInv
<1>3. Accounted(n)'
  <2>1. \A j \in jobs'[n] : j \in jobs[n] /\ j # job
    BY DEF AnswerTypes
  <2>2. \A j : Mine(j)' <=> Mine(j)
    BY <1>0 DEF Mine
  <2>3. CASE ~Awaited(n, job)
    BY <1>0, <2>1, <2>2, <2>3 DEF Accounted, Holds
  <2>4. CASE Awaited(n, job)
    <3>1. n \in op.waiting /\ n \notin silent /\ Mine(job) /\ n \notin op'.waiting
      BY <1>0, <2>4 DEF Awaited, Mine, Accounted
    <3>2. \A j \in jobs'[n] : ~Mine(j)
      BY <1>0, <2>1, <3>1 DEF Accounted
    <3>3. \A post \in requests : post.peer = n => post.number # op.request
      BY <1>0, <3>1 DEF Accounted
    <3>4. ok /\ n \notin overtaken => Holds(n, op.card)
      BY <1>0, <3>1 DEF Accounted
    <3>5. ~op'.failed => ok
      BY <1>0, <2>4
    <3>6. QED
      BY <1>0, <2>1, <2>2, <3>1, <3>2, <3>3, <3>4, <3>5 DEF Accounted, Holds
  <2>5. QED
    BY <2>3, <2>4
<1>4. QED
  BY <1>1, <1>2, <1>3 DEF AnswerInv

\* The accounts are kept by every step.
LEMMA AccountsKept == TypeInv /\ AnswerInv /\ [Next]_vars => AnswerInv'
<1> SUFFICES ASSUME TypeInv, AnswerInv, [Next]_vars PROVE AnswerInv'
  OBVIOUS
<1>0. AnswerTypes /\ group \in [Members -> Groups]
  BY AnswerTypesHold DEF TypeInv, TypeOK
<1>a. ASSUME UNCHANGED <<currentModel, jobs, requests, isLoading, op, silent, overtaken>>
      PROVE  AnswerInv'
  BY <1>0, <1>a, AccountKept DEF SameAccount, AnswerInv
<1>1. ASSUME NEW c \in Cards, LoadModelAcrossPeers(c) PROVE AnswerInv'
  BY <1>0, <1>1, BeginningKeepsAccounts
<1>2. ASSUME NEW post \in requests, HandleModelLoadRequest(post) PROVE AnswerInv'
  BY <1>0, <1>2, HandlingKeepsAccounts
<1>3. ASSUME NEW p \in Peers, NoAnswer(p) PROVE AnswerInv'
  <2>1. /\ op'.request = op.request /\ op'.card = op.card /\ op'.failed = op.failed
        /\ op'.waiting = op.waiting \ {p}
        /\ silent' = silent \cup {p}
        /\ UNCHANGED <<currentModel, jobs, requests, isLoading, overtaken>>
    BY <1>0, <1>3 DEF NoAnswer, AnswerTypes, Ops, perMember
  <2>2. ASSUME NEW m \in Members, m # p PROVE Accounted(m)'
    BY <2>1, <2>2, AccountKept DEF SameAccount, AnswerInv
  <2>3. Accounted(p) /\ p \in Members
    BY <1>0 DEF AnswerInv, AnswerTypes
  <2>4. Accounted(p)'
    BY <2>1, <2>3 DEF Accounted
  <2>5. QED
    BY <2>1, <2>2, <2>4 DEF AnswerInv
<1>4. ASSUME NEW n \in Members, NEW job \in jobs[n], Shards(n, job) \/ Assigns(n, job)
      PROVE  AnswerInv'
  BY <1>0, <1>4, ProceedingKeepsAccounts
<1>5. ASSUME NEW n \in Members, NEW job \in jobs[n], Returns(n, job) PROVE AnswerInv'
  <2>1. /\ job.stage = "assigned" /\ Answer(n, job, TRUE)
        /\ jobs' = [jobs EXCEPT ![n] = @ \ {job}]
        /\ UNCHANGED <<currentModel, requests, isLoading, silent, overtaken>>
    BY <1>5 DEF Returns
  <2>2. QED
    BY <1>0, <2>1, EndingKeepsAccounts
<1>6. ASSUME NEW n \in Members, NEW job \in jobs[n], LoadFails(n, job) PROVE AnswerInv'
  <2>1. /\ Answer(n, job, FALSE)
        /\ jobs' = [jobs EXCEPT ![n] = @ \ {job}]
        /\ UNCHANGED <<currentModel, requests, isLoading, silent, overtaken>>
    BY <1>6 DEF LoadFails, perMember
  <2>2. QED
    BY <1>0, <2>1, EndingKeepsAccounts
<1>7. CASE FinishLoading
  <2>1. op.request \in 0..MaxRequests /\ op.waiting = {} /\ op' = Idle(op.request)
    BY <1>7 DEF FinishLoading, TypeInv, TypeOK, Ops
  <2>2. /\ op'.request = op.request /\ op'.waiting = {} /\ ~isLoading'
        /\ UNCHANGED <<currentModel, jobs, requests, silent, overtaken>>
    BY <1>7, <2>1, IdleType DEF FinishLoading
  <2>3. ASSUME NEW m \in Members PROVE Accounted(m)'
    <3>1. Accounted(m)
      BY DEF AnswerInv
    <3>2. \A j : Mine(j)' <=> Mine(j)
      BY <2>2 DEF Mine
    <3>3. QED
      BY <2>1, <2>2, <3>1, <3>2 DEF Accounted
  <2>4. QED
    BY <2>2, <2>3 DEF AnswerInv
<1>8. ASSUME NEW n \in Members, HearsCoordinator(n) \/ FormationInitialises(n) \/ Teardown(n) \/ InitMLX(n)
      PROVE  AnswerInv'
  BY <1>8, <1>a
  DEF HearsCoordinator, FormationInitialises, Teardown, InitMLX, perMember, leader
<1>9. ASSUME NEW n \in Members, ReleaseModelForReformation(n) PROVE AnswerInv'
  <2>1. /\ currentModel' = [currentModel EXCEPT ![n] = Nil]
        /\ overtaken' = overtaken \cup {n}
        /\ UNCHANGED <<jobs, requests, isLoading, op, silent>>
    BY <1>9 DEF ReleaseModelForReformation, leader
  <2>2. ASSUME NEW m \in Members, m # n PROVE Accounted(m)'
    <3>1. currentModel'[m] = currentModel[m]
      BY <1>0, <2>1, <2>2 DEF AnswerTypes
    <3>2. QED
      BY <2>1, <2>2, <3>1, AccountKept DEF SameAccount, AnswerInv
  <2>3. Accounted(n)
    BY DEF AnswerInv
  <2>4. Accounted(n)'
    BY <2>1, <2>3 DEF Accounted, Mine
  <2>5. QED
    BY <2>1, <2>2, <2>4 DEF AnswerInv
<1>10. ASSUME NEW n \in Members, ReloadAfterReformation(n) PROVE AnswerInv'
  <2> DEFINE own == Loading("reload", devices[n], cardPendingReload[n])
  <2>1. own.caller = "reload"
    BY DEF Loading
  <2>2. /\ jobs' = jobs \/ jobs' = [jobs EXCEPT ![n] = @ \cup {own}]
        /\ UNCHANGED <<currentModel, requests, isLoading, op, silent, overtaken>>
    BY <1>10 DEF ReloadAfterReformation, perMember, leader
  <2> HIDE DEF own
  <2>3. ASSUME NEW m \in Members PROVE Accounted(m)'
    <3>1. Accounted(m) /\ ~Mine(own)
      BY <2>1 DEF AnswerInv, Mine
    <3>2. \A j \in jobs'[m] : j \in jobs[m] \/ j = own
      BY <1>0, <2>2 DEF AnswerTypes
    <3>3. \A j : Mine(j)' <=> Mine(j)
      BY <2>2 DEF Mine
    <3>4. QED
      BY <2>1, <2>2, <3>1, <3>2, <3>3 DEF Accounted, Holds
  <2>4. QED
    BY <2>2, <2>3 DEF AnswerInv
<1>11. CASE UNCHANGED vars
  BY <1>11, <1>a DEF vars, perMember, leader
<1>12. QED
  BY <1>1, <1>2, <1>3, <1>4, <1>5, <1>6, <1>7, <1>8, <1>9, <1>10, <1>11
  DEF Next, LoadProceeds, ReformRing

\* A load that ends without an error has put its card on every member that gave
\* an answer and where nothing else came after it.
THEOREM AnsweredMeansLoadedHolds == Spec => AnsweredMeansLoaded
<1>1. Init => AnswerInv
  <2> SUFFICES ASSUME Init PROVE AnswerInv
    OBVIOUS
  <2>1. /\ op.waiting = {} /\ ~isLoading /\ requests = {} /\ silent = {}
        /\ \A n \in Members : jobs[n] = {}
    BY IdleType DEF Init
  <2>2. QED
    BY <2>1 DEF AnswerInv, Accounted
<1>2. ASSUME TypeInv, AnswerInv, [Next]_vars, Succeeds
      PROVE  \A n \in Members \ (silent \cup overtaken) : Holds(n, op.card)
  <2>1. FinishLoading
    BY <1>2
    DEF Next, Succeeds, LoadModelAcrossPeers, HandleModelLoadRequest, NoAnswer,
        LoadProceeds, Shards, Assigns, Returns, LoadFails, HearsCoordinator,
        FormationInitialises, ReformRing, ReleaseModelForReformation, Teardown,
        InitMLX, ReloadAfterReformation, leader, vars
  <2>2. op.waiting = {} /\ isLoading /\ ~op.failed
    BY <1>2, <2>1 DEF FinishLoading, Succeeds
  <2>3. QED
    BY <1>2, <2>2 DEF AnswerInv, Accounted
<1>3. TypeInv /\ AnswerInv /\ [Next]_vars
        => [Succeeds => \A n \in Members \ (silent \cup overtaken) : Holds(n, op.card)]_vars
  BY <1>2
<1>4. QED
  BY <1>1, <1>3, AccountsKept, TypeInvariant, PTL DEF Spec, AnsweredMeansLoaded
=============================================================================
