----------------------------- MODULE RingEpochs -----------------------------
(***************************************************************************)
(* What the membership service promises a scheduler about epochs, whatever *)
(* happens to the nodes: the set of usable nodes changes as it likes, but  *)
(* the ring is versioned.  Epochs are numbered one after the other, each   *)
(* lasts at least the dwell time, each is started for the set that is      *)
(* usable at that moment, and none is started for the set the ring already *)
(* has.                                                                    *)
(***************************************************************************)
EXTENDS Naturals

CONSTANTS Nodes, Dwell

VARIABLES
  usable,   \* the nodes that may be planned for now
  epoch,    \* the number of the current epoch
  age,      \* how long it has lasted, up to Dwell
  members   \* whom it was started for

vars == <<usable, epoch, age, members>>

Init ==
  /\ usable = {}
  /\ epoch = 0
  /\ age = 0
  /\ members = {}

\* Nodes come, go, drain and are evicted; the ring's epoch is not edited.
Churn ==
  /\ usable' \in SUBSET Nodes
  /\ UNCHANGED <<epoch, age, members>>

\* The epoch is replaced, by one for the nodes usable at the end of the step.
Begin ==
  /\ age >= Dwell
  /\ usable' \in SUBSET Nodes
  /\ usable' # members
  /\ epoch' = epoch + 1
  /\ age' = 0
  /\ members' = usable'

Pass ==
  /\ age < Dwell
  /\ age' = age + 1
  /\ UNCHANGED <<usable, epoch, members>>

Next == Churn \/ Begin \/ Pass

Spec == Init /\ [][Next]_vars
=============================================================================
