---------------------------- MODULE RingWatchdog ----------------------------
(***************************************************************************)
(* The watchdog of one ring host (RingWatchdog.swift): it turns silence    *)
(* plus a known loss of a member into a rebuild of the ring, bounds that   *)
(* rebuild in time and in attempts, and decides whether a request may      *)
(* start.  It owns no timer: the host calls it, in any order, and every    *)
(* action below but Elapse is one call.                                    *)
(*                                                                         *)
(* Times are kept as ages.  An age stops growing at the bound it is        *)
(* compared with, since only >= comparisons are made.                      *)
(***************************************************************************)
EXTENDS Naturals

CONSTANTS
  Reasons,         \* RingLossReason: who left, announced or unreachable
  None,            \* nil
  StallThreshold,  \* config.stallThreshold
  GraceAfterLoss,  \* config.graceAfterLoss
  ReformTimeout,   \* config.reformationTimeout
  MaxAttempts      \* config.maxReformationAttempts

Phases == {"running", "reforming", "terminal"}
Causes == {"reformationFailed", "reformationTimedOut", "reformationExhausted"}

ASSUME WatchdogAssumption ==
  /\ None \notin Reasons \cup Causes
  /\ StallThreshold \in Nat
  /\ GraceAfterLoss \in Nat
  /\ ReformTimeout \in Nat
  /\ MaxAttempts \in Nat

VARIABLE dog

\* quiet is the age of the last progress, lossAge that of the recorded loss
\* and rebuildAge that of the current rebuild attempt.
QuietBound ==
  IF StallThreshold >= GraceAfterLoss THEN StallThreshold ELSE GraceAfterLoss

Watchdog ==
  [phase      : Phases,
   reason     : Reasons \cup {None},
   cause      : Causes \cup {None},
   pending    : Reasons \cup {None},
   quiet      : 0..QuietBound,
   lossAge    : 0..GraceAfterLoss,
   rebuildAge : 0..ReformTimeout,
   attempts   : 0..MaxAttempts + 1]

Fresh ==
  [phase |-> "running", reason |-> None, cause |-> None, pending |-> None,
   quiet |-> 0, lossAge |-> 0, rebuildAge |-> 0, attempts |-> 0]

-----------------------------------------------------------------------------
(* The calls as functions of the watchdog: a host may make several in one  *)
(* step.                                                                   *)

WithProgress(w) == IF w.phase = "running" THEN [w EXCEPT !.quiet = 0] ELSE w

\* A bug variant: the latest diagnosis wins.
WithLossLatest(w, r) ==
  IF w.phase = "running" THEN [w EXCEPT !.pending = r, !.lossAge = 0] ELSE w

\* The first diagnosis is kept: it names the node that broke the ring.
WithLoss(w, r) ==
  IF w.phase = "running" /\ w.pending = None
    THEN [w EXCEPT !.pending = r, !.lossAge = 0]
    ELSE w

\* A bug variant: a late success revives a ring that was given up.
WithSuccessLate(w) ==
  IF w.phase = "running" THEN w
  ELSE [w EXCEPT !.phase = "running", !.reason = None, !.cause = None,
                 !.pending = None, !.lossAge = 0, !.rebuildAge = 0,
                 !.attempts = 0, !.quiet = 0]

WithSuccess(w) ==
  IF w.phase # "reforming" THEN w
  ELSE [w EXCEPT !.phase = "running", !.reason = None, !.pending = None,
                 !.lossAge = 0, !.rebuildAge = 0, !.attempts = 0, !.quiet = 0]

WithUnavailable(w) ==
  IF w.phase # "reforming" THEN w
  ELSE [w EXCEPT !.phase = "terminal", !.cause = "reformationFailed"]

\* Bug variants: attempts are not limited; attempts are not counted.
WithFailureUnlimited(w) ==
  IF w.phase # "reforming" THEN w
  ELSE [w EXCEPT !.rebuildAge = 0, !.attempts = @ + 1]

WithFailureUncounted(w) ==
  IF w.phase # "reforming" THEN w ELSE [w EXCEPT !.rebuildAge = 0]

WithFailure(w) ==
  IF w.phase # "reforming" THEN w
  ELSE IF w.attempts + 1 >= MaxAttempts
    THEN [w EXCEPT !.phase = "terminal", !.cause = "reformationExhausted",
                   !.attempts = @ + 1]
    ELSE [w EXCEPT !.rebuildAge = 0, !.attempts = @ + 1]

\* A bug variant: the grace runs from the loss, whatever was produced since.
LossConfirmedByAge(w) ==
  /\ w.phase = "running"
  /\ w.pending # None
  /\ w.lossAge >= GraceAfterLoss

\* The grace runs from the last token or the loss, whichever came later.
LossConfirmed(w) ==
  /\ w.phase = "running"
  /\ w.pending # None
  /\ w.quiet >= GraceAfterLoss
  /\ w.lossAge >= GraceAfterLoss

\* A bug variant: a stall is loss enough.
EvaluatedOnStall(w) ==
  CASE w.phase = "running" /\ w.quiet >= StallThreshold ->
         [w EXCEPT !.phase = "reforming", !.reason = w.pending,
                   !.rebuildAge = 0]
    [] w.phase = "reforming" /\ w.rebuildAge >= ReformTimeout ->
         [w EXCEPT !.phase = "terminal", !.cause = "reformationTimedOut"]
    [] OTHER -> w

Evaluated(w) ==
  CASE LossConfirmed(w) ->
         [w EXCEPT !.phase = "reforming", !.reason = w.pending,
                   !.rebuildAge = 0]
    [] w.phase = "reforming" /\ w.rebuildAge >= ReformTimeout ->
         [w EXCEPT !.phase = "terminal", !.cause = "reformationTimedOut"]
    [] OTHER -> w

\* The verdict evaluate returns, for a watchdog it has just brought up to date.
Health(w) ==
  CASE w.phase = "terminal"  -> "lost"
    [] w.phase = "reforming" -> "reforming"
    [] w.phase = "running" /\ (w.pending # None \/ w.quiet >= StallThreshold)
                             -> "stalled"
    [] OTHER                 -> "healthy"

\* What beginGeneration answers, and what it leaves behind.
Admits(w) == Evaluated(w).phase = "running"

\* A bug variant: the phase is read without evaluating it first.
BegunUnchecked(w) ==
  IF w.phase = "running"
    THEN [w EXCEPT !.quiet = 0, !.pending = None, !.lossAge = 0]
    ELSE w

Begun(w) ==
  IF Admits(w)
    THEN [Evaluated(w) EXCEPT !.quiet = 0, !.pending = None, !.lossAge = 0]
    ELSE Evaluated(w)

Older(age, bound) == IF age < bound THEN age + 1 ELSE bound

WithTime(w) ==
  [w EXCEPT
     !.quiet      = Older(@, QuietBound),
     !.lossAge    = IF w.pending = None THEN @ ELSE Older(@, GraceAfterLoss),
     !.rebuildAge = IF w.phase = "reforming" THEN Older(@, ReformTimeout) ELSE @]

-----------------------------------------------------------------------------
Init == dog = Fresh

RecordProgress == dog' = WithProgress(dog)

RecordLoss(r) == dog' = WithLoss(dog, r)

ReformationSucceeded == dog' = WithSuccess(dog)

ReformationUnavailable == dog' = WithUnavailable(dog)

ReformationFailed == dog' = WithFailure(dog)

Evaluate == dog' = Evaluated(dog)

BeginGeneration == dog' = Begun(dog)

Elapse == dog' = WithTime(dog)

Next ==
  \/ RecordProgress
  \/ \E r \in Reasons : RecordLoss(r)
  \/ ReformationSucceeded
  \/ ReformationUnavailable
  \/ ReformationFailed
  \/ Evaluate
  \/ BeginGeneration
  \/ Elapse

Spec == Init /\ [][Next]_dog

\* The host polls evaluate (once a second during a generation, every two
\* seconds otherwise) and time passes; nothing is assumed of what it reports.
FairSpec == Spec /\ WF_dog(Evaluate) /\ WF_dog(Elapse)

-----------------------------------------------------------------------------
TypeOK == dog \in Watchdog

\* A ring is rebuilt or given up only for a diagnosed loss: a stall alone,
\* however long, never leaves the running phase (the discriminating rule of
\* RingWatchdog).  While it runs nothing is blamed and no attempt is counted,
\* so a later loss has the whole budget of attempts.
OnlyLossEscalates ==
  /\ dog.phase # "running" => dog.reason \in Reasons /\ dog.pending = dog.reason
  /\ dog.phase = "running" => dog.reason = None /\ dog.attempts = 0
  /\ dog.phase = "terminal" <=> dog.cause # None

RebuildIsDue ==
  dog.phase = "running" /\ dog'.phase # "running" =>
    /\ dog.pending # None
    /\ dog'.reason = dog.pending
    /\ dog.quiet >= GraceAfterLoss
    /\ dog.lossAge >= GraceAfterLoss

StaysGivenUp ==
  dog.phase = "terminal" =>
    /\ dog'.phase = "terminal"
    /\ dog'.reason = dog.reason
    /\ dog'.cause = dog.cause

RequestIsSafe ==
  BeginGeneration /\ (LossConfirmed(dog) \/ dog.phase # "running") =>
    dog'.phase # "running"

LossIsRemembered ==
  dog.pending # None =>
    \/ dog'.pending = dog.pending
    \/ dog.phase = "reforming" /\ dog'.phase = "running"
    \/ dog.phase = "running" /\ BeginGeneration

\* A generation that still produces tokens is never cut short: a rebuild
\* starts only when the grace has passed since the last token and since the
\* loss that is blamed was learnt (evaluate).
NeverCutsShort == [][RebuildIsDue]_dog

\* Giving up is final: no late report of a rebuild, no token and no request
\* revives the ring or changes whom and what the failure is put down to.
TerminalIsFinal == [][StaysGivenUp]_dog

\* A request is never admitted into a ring whose loss is overdue, even if
\* nobody evaluated since (beginGeneration), nor into one being rebuilt.
NoRequestIntoDeadRing == [][RequestIsSafe]_dog

\* Known loss is not forgotten by being silent: unless a rebuild succeeded or
\* a request was admitted, the first diagnosis stays.
DiagnosisIsKept == [][LossIsRemembered]_dog

\* Bounded recovery: retries restart the clock but are counted, so a rebuild
\* is never retried or awaited for ever (RingRecovery).
Recovery == INSTANCE RingRecovery
              WITH Losses <- Reasons, Nobody <- None,
                   MaxTries <- IF MaxAttempts > 0 THEN MaxAttempts ELSE 1,
                   stage <- dog.phase, blamed <- dog.reason,
                   tries <- dog.attempts

RecoverySpec == Recovery!Spec

\* Its safety part, without the promise that a rebuild ends.
RecoverySteps == Recovery!Init /\ [][Recovery!Next]_(Recovery!vars)
=============================================================================
