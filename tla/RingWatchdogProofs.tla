-------------------------- MODULE RingWatchdogProofs --------------------------
(***************************************************************************)
(* Proofs about RingWatchdog, for any set of losses and any thresholds,    *)
(* zero included.  The diagnosis invariant is OnlyLossEscalates and the    *)
(* type; every action property follows from it step by step.               *)
(***************************************************************************)
EXTENDS RingWatchdog, TLAPS

\* The bound on the age of the last progress covers both uses of that age.
LEMMA QuietBoundType ==
  /\ QuietBound \in Nat
  /\ StallThreshold <= QuietBound
  /\ GraceAfterLoss <= QuietBound
  BY WatchdogAssumption DEF QuietBound, WatchdogAssumption

\* An age grows, and stays within its bound.
LEMMA OlderType ==
  ASSUME NEW bound \in Nat, NEW age \in 0..bound
  PROVE  Older(age, bound) \in 0..bound /\ Older(age, bound) >= age
  BY DEF Older

\* The diagnosis of a watchdog: what OnlyLossEscalates says of one.
Diagnosed(w) ==
  /\ w.phase # "running" => w.reason \in Reasons /\ w.pending = w.reason
  /\ w.phase = "running" => w.reason = None /\ w.attempts = 0
  /\ w.phase = "terminal" <=> w.cause # None
  /\ w.phase = "reforming" => w.attempts < MaxAttempts \/ w.attempts = 0

GoodDog(w) == w \in Watchdog /\ Diagnosed(w)

\* A new watchdog is well typed and blames nobody.
LEMMA FreshGood == GoodDog(Fresh)
  BY WatchdogAssumption, QuietBoundType
  DEF GoodDog, Watchdog, Diagnosed, Fresh, Phases, Causes, WatchdogAssumption

\* recordProgress keeps a watchdog good.
LEMMA ProgressGood ==
  ASSUME NEW w, GoodDog(w) PROVE GoodDog(WithProgress(w))
<1> DEFINE v == [w EXCEPT !.quiet = 0]
<1>1. w \in Watchdog /\ 0 \in 0..QuietBound
  BY QuietBoundType DEF GoodDog
<1>2. v \in Watchdog
  BY <1>1 DEF Watchdog
<1>3. /\ v.phase = w.phase /\ v.reason = w.reason /\ v.cause = w.cause
      /\ v.pending = w.pending /\ v.attempts = w.attempts
  BY <1>1 DEF Watchdog
<1> HIDE DEF v
<1>4. GoodDog(v)
  BY <1>2, <1>3 DEF GoodDog, Diagnosed
<1>5. QED
  BY <1>4 DEF WithProgress, v

\* recordLoss keeps a watchdog good.
LEMMA LossGood ==
  ASSUME NEW w, GoodDog(w), NEW r \in Reasons PROVE GoodDog(WithLoss(w, r))
<1> DEFINE v == [w EXCEPT !.pending = r, !.lossAge = 0]
<1>1. w \in Watchdog /\ 0 \in 0..GraceAfterLoss
  BY WatchdogAssumption DEF GoodDog, WatchdogAssumption
<1>2. v \in Watchdog
  BY <1>1 DEF Watchdog
<1>3. /\ v.phase = w.phase /\ v.reason = w.reason /\ v.cause = w.cause
      /\ v.attempts = w.attempts
  BY <1>1 DEF Watchdog
<1> HIDE DEF v
<1>4. w.phase = "running" => GoodDog(v)
  BY <1>2, <1>3 DEF GoodDog, Diagnosed
<1>5. QED
  BY <1>4 DEF WithLoss, v

\* reformationSucceeded keeps a watchdog good.
LEMMA SuccessGood ==
  ASSUME NEW w, GoodDog(w) PROVE GoodDog(WithSuccess(w))
<1> DEFINE v == [w EXCEPT !.phase = "running", !.reason = None,
                          !.pending = None, !.lossAge = 0, !.rebuildAge = 0,
                          !.attempts = 0, !.quiet = 0]
<1>1. /\ w \in Watchdog /\ 0 \in 0..GraceAfterLoss /\ 0 \in 0..ReformTimeout
      /\ 0 \in 0..QuietBound /\ 0 \in 0..MaxAttempts + 1
      /\ "running" \in Phases
  BY WatchdogAssumption, QuietBoundType DEF GoodDog, WatchdogAssumption, Phases
<1>2. v \in Watchdog
  BY <1>1 DEF Watchdog
<1>3. /\ v.phase = "running" /\ v.reason = None /\ v.attempts = 0
      /\ v.cause = w.cause
  BY <1>1 DEF Watchdog
<1> HIDE DEF v
<1>4. w.phase = "reforming" => GoodDog(v)
  BY <1>2, <1>3 DEF GoodDog, Diagnosed
<1>5. QED
  BY <1>4 DEF WithSuccess, v

\* Giving up from a rebuild, for whatever cause and after however many tries.
LEMMA GivenUpGood ==
  ASSUME NEW w, GoodDog(w), w.phase = "reforming", NEW c \in Causes,
         NEW k \in 0..MaxAttempts + 1
  PROVE  GoodDog([w EXCEPT !.phase = "terminal", !.cause = c, !.attempts = k])
<1> DEFINE v == [w EXCEPT !.phase = "terminal", !.cause = c, !.attempts = k]
<1>1. w \in Watchdog /\ "terminal" \in Phases /\ c # None
  BY WatchdogAssumption DEF GoodDog, Phases, WatchdogAssumption
<1>2. v \in Watchdog
  BY <1>1 DEF Watchdog
<1>3. /\ v.phase = "terminal" /\ v.cause = c
      /\ v.reason = w.reason /\ v.pending = w.pending
  BY <1>1 DEF Watchdog
<1> HIDE DEF v
<1>4. GoodDog(v)
  BY <1>1, <1>2, <1>3 DEF GoodDog, Diagnosed
<1>5. QED
  BY <1>4 DEF v

\* Giving up without counting another try.
LEMMA GivenUpAsIsGood ==
  ASSUME NEW w, GoodDog(w), w.phase = "reforming", NEW c \in Causes
  PROVE  GoodDog([w EXCEPT !.phase = "terminal", !.cause = c])
<1>1. w \in Watchdog
  BY DEF GoodDog
<1>2. w.attempts \in 0..MaxAttempts + 1
  BY <1>1 DEF Watchdog
<1>3. [w EXCEPT !.phase = "terminal", !.cause = c]
        = [w EXCEPT !.phase = "terminal", !.cause = c, !.attempts = w.attempts]
  BY <1>1 DEF Watchdog
<1>4. QED
  BY <1>2, <1>3, GivenUpGood

\* reformationUnavailable keeps a watchdog good.
LEMMA UnavailableGood ==
  ASSUME NEW w, GoodDog(w) PROVE GoodDog(WithUnavailable(w))
  BY GivenUpAsIsGood DEF WithUnavailable, Causes

\* reformationFailed keeps a watchdog good: a try is counted or the ring given up.
LEMMA FailureGood ==
  ASSUME NEW w, GoodDog(w) PROVE GoodDog(WithFailure(w))
<1>1. w \in Watchdog /\ w.attempts \in Nat /\ MaxAttempts \in Nat
  BY WatchdogAssumption DEF GoodDog, Watchdog, WatchdogAssumption
<1>2. CASE w.phase # "reforming"
  BY <1>2 DEF WithFailure
<1>3. CASE w.phase = "reforming" /\ w.attempts + 1 >= MaxAttempts
  <2>1. w.attempts + 1 \in 0..MaxAttempts + 1
    BY <1>1, <1>3 DEF GoodDog, Diagnosed
  <2>2. "reformationExhausted" \in Causes
    BY DEF Causes
  <2>3. WithFailure(w) = [w EXCEPT !.phase = "terminal",
                                   !.cause = "reformationExhausted",
                                   !.attempts = w.attempts + 1]
    BY <1>3 DEF WithFailure
  <2>4. GoodDog([w EXCEPT !.phase = "terminal",
                          !.cause = "reformationExhausted",
                          !.attempts = w.attempts + 1])
    BY <1>3, <2>1, <2>2, GivenUpGood
  <2>5. QED
    BY <2>3, <2>4
<1>4. CASE w.phase = "reforming" /\ w.attempts + 1 < MaxAttempts
  <2> DEFINE v == [w EXCEPT !.rebuildAge = 0, !.attempts = @ + 1]
  <2>1. w.attempts + 1 \in 0..MaxAttempts + 1 /\ 0 \in 0..ReformTimeout
    BY <1>1, <1>4, WatchdogAssumption DEF WatchdogAssumption
  <2>2. v \in Watchdog
    BY <1>1, <2>1 DEF Watchdog
  <2>3. /\ v.phase = w.phase /\ v.reason = w.reason /\ v.cause = w.cause
        /\ v.pending = w.pending /\ v.attempts = w.attempts + 1
    BY <1>1 DEF Watchdog
  <2> HIDE DEF v
  <2>4. GoodDog(v)
    BY <1>4, <2>2, <2>3 DEF GoodDog, Diagnosed
  <2>5. ~(w.attempts + 1 >= MaxAttempts)
    BY <1>1, <1>4
  <2>6. QED
    BY <1>4, <2>4, <2>5 DEF WithFailure, v
<1>5. QED
  BY <1>1, <1>2, <1>3, <1>4

\* evaluate keeps a watchdog good.
LEMMA EvaluatedGood ==
  ASSUME NEW w, GoodDog(w) PROVE GoodDog(Evaluated(w))
<1>1. w \in Watchdog /\ 0 \in 0..ReformTimeout /\ "reforming" \in Phases
  BY WatchdogAssumption DEF GoodDog, WatchdogAssumption, Phases
<1>2. CASE LossConfirmed(w)
  <2> DEFINE v == [w EXCEPT !.phase = "reforming", !.reason = w.pending,
                            !.rebuildAge = 0]
  <2>1. w.pending \in Reasons
    BY <1>1, <1>2 DEF Watchdog, LossConfirmed
  <2>2. v \in Watchdog
    BY <1>1 DEF Watchdog
  <2>3. /\ v.phase = "reforming" /\ v.reason = w.pending
        /\ v.pending = w.pending /\ v.cause = w.cause
        /\ v.attempts = w.attempts
    BY <1>1 DEF Watchdog
  <2> HIDE DEF v
  <2>4. GoodDog(v)
    BY <1>2, <2>1, <2>2, <2>3 DEF GoodDog, Diagnosed, LossConfirmed
  <2>5. Evaluated(w) = v
    <3>1. w.phase # "reforming"
      BY <1>2 DEF LossConfirmed
    <3>2. QED
      BY <1>2, <3>1 DEF Evaluated, v
  <2>6. QED
    BY <2>4, <2>5
<1>3. CASE ~LossConfirmed(w) /\ w.phase = "reforming"
                             /\ w.rebuildAge >= ReformTimeout
  <2>1. Evaluated(w) = [w EXCEPT !.phase = "terminal",
                                 !.cause = "reformationTimedOut"]
    BY <1>3 DEF Evaluated
  <2>2. "reformationTimedOut" \in Causes
    BY DEF Causes
  <2>3. GoodDog([w EXCEPT !.phase = "terminal",
                          !.cause = "reformationTimedOut"])
    BY <1>3, <2>2, GivenUpAsIsGood
  <2>4. QED
    BY <2>1, <2>3
<1>4. CASE ~LossConfirmed(w) /\ ~(w.phase = "reforming"
                                  /\ w.rebuildAge >= ReformTimeout)
  BY <1>4 DEF Evaluated
<1>5. QED
  BY <1>2, <1>3, <1>4

\* beginGeneration keeps a watchdog good.
LEMMA BegunGood ==
  ASSUME NEW w, GoodDog(w) PROVE GoodDog(Begun(w))
<1> DEFINE u == Evaluated(w)
           v == [u EXCEPT !.quiet = 0, !.pending = None, !.lossAge = 0]
<1>1. GoodDog(u)
  BY EvaluatedGood
<1> HIDE DEF u
<1>2. /\ u \in Watchdog /\ 0 \in 0..QuietBound /\ 0 \in 0..GraceAfterLoss
  BY <1>1, QuietBoundType, WatchdogAssumption DEF GoodDog, WatchdogAssumption
<1>3. v \in Watchdog
  BY <1>2 DEF Watchdog
<1>4. /\ v.phase = u.phase /\ v.reason = u.reason /\ v.cause = u.cause
      /\ v.attempts = u.attempts
  BY <1>2 DEF Watchdog
<1> HIDE DEF v
<1>5. u.phase = "running" => GoodDog(v)
  BY <1>1, <1>3, <1>4 DEF GoodDog, Diagnosed
<1>6. QED
  BY <1>1, <1>5 DEF Begun, Admits, u, v

\* The passing of time keeps a watchdog good.
LEMMA TimeGood ==
  ASSUME NEW w, GoodDog(w) PROVE GoodDog(WithTime(w))
<1> DEFINE v == WithTime(w)
<1>1. /\ w \in Watchdog
      /\ GraceAfterLoss \in Nat /\ ReformTimeout \in Nat /\ QuietBound \in Nat
  BY QuietBoundType, WatchdogAssumption DEF GoodDog, WatchdogAssumption
<1>2. /\ Older(w.quiet, QuietBound) \in 0..QuietBound
      /\ Older(w.lossAge, GraceAfterLoss) \in 0..GraceAfterLoss
      /\ Older(w.rebuildAge, ReformTimeout) \in 0..ReformTimeout
  BY <1>1, OlderType DEF Watchdog
<1>3. v \in Watchdog
  BY <1>1, <1>2 DEF Watchdog, WithTime
<1>4. /\ v.phase = w.phase /\ v.reason = w.reason /\ v.cause = w.cause
      /\ v.pending = w.pending /\ v.attempts = w.attempts
  BY <1>1 DEF Watchdog, WithTime
<1> HIDE DEF v
<1>5. GoodDog(v)
  BY <1>3, <1>4 DEF GoodDog, Diagnosed
<1>6. QED
  BY <1>5 DEF v

-----------------------------------------------------------------------------
GoodInv == GoodDog(dog)

\* Every call keeps the watchdog good.
LEMMA GoodStep == GoodInv /\ [Next]_dog => GoodInv'
<1> SUFFICES ASSUME GoodDog(dog), [Next]_dog PROVE GoodDog(dog')
  BY DEF GoodInv
<1>1. CASE RecordProgress
  BY <1>1, ProgressGood DEF RecordProgress
<1>2. ASSUME NEW r \in Reasons, RecordLoss(r) PROVE GoodDog(dog')
  BY <1>2, LossGood DEF RecordLoss
<1>3. CASE ReformationSucceeded
  BY <1>3, SuccessGood DEF ReformationSucceeded
<1>4. CASE ReformationUnavailable
  BY <1>4, UnavailableGood DEF ReformationUnavailable
<1>5. CASE ReformationFailed
  BY <1>5, FailureGood DEF ReformationFailed
<1>6. CASE Evaluate
  BY <1>6, EvaluatedGood DEF Evaluate
<1>7. CASE BeginGeneration
  BY <1>7, BegunGood DEF BeginGeneration
<1>8. CASE Elapse
  BY <1>8, TimeGood DEF Elapse
<1>9. CASE UNCHANGED dog
  BY <1>9
<1>10. QED
  BY <1>1, <1>2, <1>3, <1>4, <1>5, <1>6, <1>7, <1>8, <1>9 DEF Next

\* The watchdog is good throughout.
LEMMA GoodInvariant == Spec => []GoodInv
<1>1. Init => GoodInv
  BY FreshGood DEF Init, GoodInv
<1>2. QED
  BY <1>1, GoodStep, PTL DEF Spec

\* Type correctness: in particular attempts never exceed their limit by more
\* than the one that exhausts them.
THEOREM WatchdogTypeCorrect == Spec => []TypeOK
<1>1. GoodInv => TypeOK
  BY DEF GoodInv, GoodDog, TypeOK
<1>2. QED
  BY <1>1, GoodInvariant, PTL

\* A ring is rebuilt or given up only for a diagnosed loss, never for a stall.
THEOREM OnlyLossEscalatesHolds == Spec => []OnlyLossEscalates
<1>1. GoodInv => OnlyLossEscalates
  BY DEF GoodInv, GoodDog, Diagnosed, OnlyLossEscalates
<1>2. QED
  BY <1>1, GoodInvariant, PTL

-----------------------------------------------------------------------------
(* What one call can do to the fields that matter: nothing but note a      *)
(* loss, start a rebuild, end it one way or the other, count a retry, or   *)
(* drop an unconfirmed loss for a new request.                             *)

Keeps(w, v) ==
  /\ v.phase = w.phase
  /\ v.reason = w.reason
  /\ v.cause = w.cause
  /\ v.attempts = w.attempts
  /\ v.pending = w.pending \/ w.pending = None

Escalates(w, v) ==
  /\ LossConfirmed(w)
  /\ v.phase = "reforming"
  /\ v.reason = w.pending
  /\ v.pending = w.pending
  /\ v.cause = w.cause
  /\ v.attempts = w.attempts

GivesUp(w, v) ==
  /\ w.phase = "reforming"
  /\ v.phase = "terminal"
  /\ v.reason = w.reason
  /\ v.pending = w.pending
  /\ v.attempts \in {w.attempts, w.attempts + 1}

Recovers(w, v) ==
  /\ w.phase = "reforming"
  /\ v.phase = "running"
  /\ v.reason = None
  /\ v.attempts = 0

Retries(w, v) ==
  /\ w.phase = "reforming"
  /\ v.phase = "reforming"
  /\ v.reason = w.reason
  /\ v.pending = w.pending
  /\ v.cause = w.cause
  /\ v.attempts = w.attempts + 1
  /\ w.attempts + 1 < MaxAttempts

Admitted(w, v) ==
  /\ w.phase = "running"
  /\ v.phase = "running"
  /\ v.reason = w.reason
  /\ v.cause = w.cause
  /\ v.attempts = w.attempts

\* evaluate starts a rebuild, gives one up, or does nothing.
LEMMA EvaluatedShape ==
  ASSUME NEW w \in Watchdog
  PROVE  \/ Escalates(w, Evaluated(w))
         \/ GivesUp(w, Evaluated(w))
         \/ Evaluated(w) = w
<1>1. CASE LossConfirmed(w)
  <2>1. w.phase # "reforming"
    BY <1>1 DEF LossConfirmed
  <2>2. Evaluated(w) = [w EXCEPT !.phase = "reforming", !.reason = w.pending,
                                 !.rebuildAge = 0]
    BY <1>1, <2>1 DEF Evaluated
  <2>3. QED
    BY <1>1, <2>2 DEF Escalates, Watchdog
<1>2. CASE ~LossConfirmed(w) /\ w.phase = "reforming"
                             /\ w.rebuildAge >= ReformTimeout
  <2>1. Evaluated(w) = [w EXCEPT !.phase = "terminal",
                                 !.cause = "reformationTimedOut"]
    BY <1>2 DEF Evaluated
  <2>2. QED
    BY <1>2, <2>1 DEF GivesUp, Watchdog
<1>3. CASE ~LossConfirmed(w) /\ ~(w.phase = "reforming"
                                  /\ w.rebuildAge >= ReformTimeout)
  BY <1>3 DEF Evaluated
<1>4. QED
  BY <1>1, <1>2, <1>3

\* Progress, a loss and time keep the phase and the diagnosis; a rebuild that
\* cannot run gives up, one that succeeds recovers.
LEMMA ReportShape ==
  ASSUME NEW w \in Watchdog
  PROVE  /\ Keeps(w, w)
         /\ Keeps(w, WithProgress(w))
         /\ \A r \in Reasons : Keeps(w, WithLoss(w, r))
         /\ Keeps(w, WithTime(w))
         /\ Keeps(w, WithUnavailable(w)) \/ GivesUp(w, WithUnavailable(w))
         /\ Keeps(w, WithSuccess(w)) \/ Recovers(w, WithSuccess(w))
<1>1. Keeps(w, w)
  BY DEF Keeps
<1>2. Keeps(w, WithProgress(w))
  BY DEF Keeps, WithProgress, Watchdog
<1>3. \A r \in Reasons : Keeps(w, WithLoss(w, r))
  BY DEF Keeps, WithLoss, Watchdog
<1>4. Keeps(w, WithTime(w))
  BY DEF Keeps, WithTime, Watchdog
<1>5. Keeps(w, WithUnavailable(w)) \/ GivesUp(w, WithUnavailable(w))
  BY DEF Keeps, GivesUp, WithUnavailable, Watchdog
<1>6. Keeps(w, WithSuccess(w)) \/ Recovers(w, WithSuccess(w))
  BY DEF Keeps, Recovers, WithSuccess, Watchdog
<1>7. QED
  BY <1>1, <1>2, <1>3, <1>4, <1>5, <1>6

\* A failed rebuild is retried and counted, or the ring is given up.
LEMMA FailureShape ==
  ASSUME NEW w \in Watchdog
  PROVE  \/ Keeps(w, WithFailure(w))
         \/ GivesUp(w, WithFailure(w))
         \/ Retries(w, WithFailure(w))
<1>1. w.attempts \in Nat /\ MaxAttempts \in Nat
  BY WatchdogAssumption DEF Watchdog, WatchdogAssumption
<1>2. CASE w.phase # "reforming"
  BY <1>2 DEF WithFailure, Keeps
<1>3. CASE w.phase = "reforming" /\ w.attempts + 1 >= MaxAttempts
  <2>1. WithFailure(w) = [w EXCEPT !.phase = "terminal",
                                   !.cause = "reformationExhausted",
                                   !.attempts = w.attempts + 1]
    BY <1>3 DEF WithFailure
  <2>2. QED
    BY <1>3, <2>1 DEF GivesUp, Watchdog
<1>4. CASE w.phase = "reforming" /\ w.attempts + 1 < MaxAttempts
  <2>1. ~(w.attempts + 1 >= MaxAttempts)
    BY <1>1, <1>4
  <2>2. WithFailure(w) = [w EXCEPT !.rebuildAge = 0,
                                   !.attempts = w.attempts + 1]
    BY <1>4, <2>1 DEF WithFailure
  <2>3. QED
    BY <1>4, <2>2 DEF Retries, Watchdog
<1>5. QED
  BY <1>1, <1>2, <1>3, <1>4

\* beginGeneration does what evaluate does, or admits the request: then no loss
\* is confirmed, and the unconfirmed one is dropped.
LEMMA BegunShape ==
  ASSUME NEW w \in Watchdog
  PROVE  \/ Escalates(w, Begun(w))
         \/ GivesUp(w, Begun(w))
         \/ Begun(w) = w
         \/ Admitted(w, Begun(w)) /\ ~LossConfirmed(w)
<1> DEFINE u == Evaluated(w)
           v == [u EXCEPT !.quiet = 0, !.pending = None, !.lossAge = 0]
<1>1. Escalates(w, u) \/ GivesUp(w, u) \/ u = w
  BY EvaluatedShape
<1>2. LossConfirmed(w) => Escalates(w, u)
  <2>1. LossConfirmed(w) => w.phase # "reforming" /\ u # w
    <3> SUFFICES ASSUME LossConfirmed(w)
                 PROVE  w.phase # "reforming" /\ u # w
      OBVIOUS
    <3>1. w.phase # "reforming"
      BY DEF LossConfirmed
    <3>2. u.phase = "reforming"
      BY <3>1 DEF Evaluated, Watchdog
    <3>3. QED
      BY <3>1, <3>2
  <2>2. QED
    BY <1>1, <2>1 DEF GivesUp
<1>3. Begun(w) = IF u.phase = "running" THEN v ELSE u
  BY DEF Begun, Admits
<1> HIDE DEF u
<1>4. CASE u.phase = "running"
  <2>1. u = w
    BY <1>1, <1>4 DEF Escalates, GivesUp
  <2>2. Admitted(w, v)
    BY <1>4, <2>1 DEF Admitted, Watchdog
  <2>3. ~LossConfirmed(w)
    BY <1>2, <1>4 DEF Escalates
  <2>4. QED
    BY <1>3, <1>4, <2>2, <2>3
<1>5. CASE u.phase # "running"
  BY <1>1, <1>3, <1>5
<1>6. QED
  BY <1>4, <1>5

StepShape(w, v) ==
  \/ Keeps(w, v)
  \/ Escalates(w, v)
  \/ GivesUp(w, v)
  \/ Recovers(w, v)
  \/ Retries(w, v)
  \/ Admitted(w, v) /\ BeginGeneration /\ ~LossConfirmed(w)

\* Every step of the watchdog has one of these shapes.
LEMMA NextShape == GoodInv /\ [Next]_dog => StepShape(dog, dog')
<1> SUFFICES ASSUME GoodInv, [Next]_dog PROVE StepShape(dog, dog')
  OBVIOUS
<1>0. dog \in Watchdog
  BY DEF GoodInv, GoodDog
<1>1. Keeps(dog, dog)
  BY <1>0, ReportShape
<1> USE DEF StepShape
<1>2. CASE RecordProgress
  BY <1>0, <1>2, ReportShape DEF RecordProgress
<1>3. ASSUME NEW r \in Reasons, RecordLoss(r) PROVE StepShape(dog, dog')
  BY <1>0, <1>3, ReportShape DEF RecordLoss
<1>4. CASE ReformationSucceeded
  BY <1>0, <1>4, ReportShape DEF ReformationSucceeded
<1>5. CASE ReformationUnavailable
  BY <1>0, <1>5, ReportShape DEF ReformationUnavailable
<1>6. CASE ReformationFailed
  BY <1>0, <1>6, FailureShape DEF ReformationFailed
<1>7. CASE Evaluate
  BY <1>0, <1>1, <1>7, EvaluatedShape DEF Evaluate
<1>8. CASE BeginGeneration
  <2>1. dog' = Begun(dog)
    BY <1>8 DEF BeginGeneration
  <2>2. QED
    BY <1>0, <1>1, <1>8, <2>1, BegunShape
<1>9. CASE Elapse
  BY <1>0, <1>9, ReportShape DEF Elapse
<1>10. CASE UNCHANGED dog
  BY <1>1, <1>10
<1>11. QED
  BY <1>2, <1>3, <1>4, <1>5, <1>6, <1>7, <1>8, <1>9, <1>10 DEF Next

\* A rebuild starts only for a loss that outlived the grace in silence.
THEOREM NeverCutsShortHolds == Spec => NeverCutsShort
<1>1. GoodInv /\ [Next]_dog => [RebuildIsDue]_dog
  BY NextShape
  DEF StepShape, Keeps, Escalates, GivesUp, Recovers, Retries, Admitted,
      RebuildIsDue, LossConfirmed
<1>2. QED
  BY <1>1, GoodInvariant, PTL DEF Spec, NeverCutsShort

\* Giving up is final, whatever is reported afterwards.
THEOREM TerminalIsFinalHolds == Spec => TerminalIsFinal
<1>1. GoodInv /\ [Next]_dog => [StaysGivenUp]_dog
  BY NextShape
  DEF StepShape, Keeps, Escalates, GivesUp, Recovers, Retries, Admitted,
      StaysGivenUp, LossConfirmed
<1>2. QED
  BY <1>1, GoodInvariant, PTL DEF Spec, TerminalIsFinal

\* No request is admitted into a ring with an overdue loss, or one being
\* rebuilt.
THEOREM NoRequestIntoDeadRingHolds == Spec => NoRequestIntoDeadRing
<1>1. GoodInv /\ [Next]_dog => [RequestIsSafe]_dog
  <2> SUFFICES ASSUME GoodInv, BeginGeneration,
                      LossConfirmed(dog) \/ dog.phase # "running"
               PROVE  dog'.phase # "running"
    BY DEF RequestIsSafe
  <2>1. dog \in Watchdog /\ dog' = Begun(dog)
    BY DEF GoodInv, GoodDog, BeginGeneration
  <2>2. \/ Escalates(dog, dog')
        \/ GivesUp(dog, dog')
        \/ dog' = dog
        \/ Admitted(dog, dog') /\ ~LossConfirmed(dog)
    BY <2>1, BegunShape
  <2>3. LossConfirmed(dog) => dog' # dog
    <3> SUFFICES ASSUME LossConfirmed(dog) PROVE dog'.phase # dog.phase
      OBVIOUS
    <3>1. dog.phase = "running"
      BY DEF LossConfirmed
    <3>2. Evaluated(dog).phase = "reforming"
      BY <2>1, <3>1 DEF Evaluated, Watchdog
    <3>3. dog' = Evaluated(dog)
      BY <2>1, <3>2 DEF Begun, Admits
    <3>4. QED
      BY <3>1, <3>2, <3>3
  <2>4. QED
    BY <2>2, <2>3 DEF Escalates, GivesUp, Admitted
<1>2. QED
  BY <1>1, GoodInvariant, PTL DEF Spec, NoRequestIntoDeadRing

\* The first diagnosis is dropped only by a successful rebuild or by admitting
\* a request.
THEOREM DiagnosisIsKeptHolds == Spec => DiagnosisIsKept
<1>1. GoodInv /\ [Next]_dog => [LossIsRemembered]_dog
  BY NextShape
  DEF StepShape, Keeps, Escalates, GivesUp, Recovers, Retries, Admitted,
      LossIsRemembered, LossConfirmed
<1>2. QED
  BY <1>1, GoodInvariant, PTL DEF Spec, DiagnosisIsKept

-----------------------------------------------------------------------------
(* The safety part of the refinement: every step of the watchdog is a step *)
(* of RingRecovery or leaves its variables alone.  That the rebuild ends   *)
(* needs fairness and is left to TLC.                                      *)

\* The watchdog loses, retries, recovers and gives up only as RingRecovery
\* allows: no more tries than it promises, and one member blamed throughout.
THEOREM RecoverySafety == Spec => RecoverySteps
<1>1. Init => Recovery!Init
  BY DEF Init, Recovery!Init, Fresh
<1>2. GoodInv /\ [Next]_dog => [Recovery!Next]_(Recovery!vars)
  <2> SUFFICES ASSUME GoodInv, [Next]_dog
               PROVE  Recovery!Next \/ UNCHANGED Recovery!vars
    OBVIOUS
  <2> USE DEF Recovery!Next, Recovery!vars
  <2>1. /\ StepShape(dog, dog')
        /\ dog \in Watchdog
        /\ Diagnosed(dog)
    BY NextShape DEF GoodInv, GoodDog
  <2>2. CASE Keeps(dog, dog') \/ Admitted(dog, dog')
    BY <2>2 DEF Keeps, Admitted
  <2>3. CASE Escalates(dog, dog')
    <3>1. dog.pending \in Reasons
      BY <2>1, <2>3 DEF Escalates, LossConfirmed, Watchdog
    <3>2. QED
      BY <2>3, <3>1 DEF Escalates, LossConfirmed, Recovery!Lose
  <2>4. CASE GivesUp(dog, dog')
    BY <2>4 DEF GivesUp, Recovery!GiveUp
  <2>5. CASE Recovers(dog, dog')
    BY <2>5 DEF Recovers, Recovery!Recover
  <2>6. CASE Retries(dog, dog')
    <3>1. /\ dog.attempts \in Nat /\ MaxAttempts \in Nat
          /\ dog.attempts + 1 < MaxAttempts
      BY <2>1, <2>6, WatchdogAssumption
      DEF Watchdog, WatchdogAssumption, Retries
    <3>2. dog.attempts + 1 < (IF MaxAttempts > 0 THEN MaxAttempts ELSE 1)
      BY <3>1
    <3>3. QED
      BY <2>6, <3>2 DEF Retries, Recovery!Retry
  <2>7. QED
    BY <2>1, <2>2, <2>3, <2>4, <2>5, <2>6 DEF StepShape
<1>3. QED
  BY <1>1, <1>2, GoodInvariant, PTL DEF Spec, RecoverySteps
=============================================================================
