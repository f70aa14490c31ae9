--------------------------- MODULE MCRingElection ---------------------------
(* Two devices that differ in memory or are alike.                          *)
EXTENDS RingElection, TLC

CONSTANTS a, b

MCOrder == <<a, b>>

\* Two different devices, undisturbed or disturbed once, and two alike,
\* disturbed twice.
MCPairs ==
  {[memory |-> a :> 1 @@ b :> 2, budget |-> n] : n \in {0, 1}} \cup
  {[memory |-> a :> 1 @@ b :> 1, budget |-> 2]}
=============================================================================
