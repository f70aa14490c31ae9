---------------------------- MODULE RingRecovery ----------------------------
(***************************************************************************)
(* What a ring that lost a member promises its users: it is blamed on one  *)
(* member, it is rebuilt or given up after a bounded number of tries, it   *)
(* is never left in between, and giving up is final.                       *)
(***************************************************************************)
EXTENDS Naturals

CONSTANTS
  Losses,     \* the diagnoses a loss can be given
  Nobody,     \* no diagnosis
  MaxTries    \* how often a rebuild may be tried

VARIABLES stage, blamed, tries

vars == <<stage, blamed, tries>>

Init ==
  /\ stage = "running"
  /\ blamed = Nobody
  /\ tries = 0

Lose ==
  /\ stage = "running"
  /\ stage' = "reforming"
  /\ blamed' \in Losses
  /\ tries' = tries

Retry ==
  /\ stage = "reforming"
  /\ tries + 1 < MaxTries
  /\ tries' = tries + 1
  /\ UNCHANGED <<stage, blamed>>

Recover ==
  /\ stage = "reforming"
  /\ stage' = "running"
  /\ blamed' = Nobody
  /\ tries' = 0

GiveUp ==
  /\ stage = "reforming"
  /\ stage' = "terminal"
  /\ blamed' = blamed
  /\ tries' \in {tries, tries + 1}

Next == Lose \/ Retry \/ Recover \/ GiveUp

\* A rebuild ends: it is not retried for ever and not waited for for ever.
Spec == Init /\ [][Next]_vars /\ WF_vars(Recover \/ GiveUp)
=============================================================================
