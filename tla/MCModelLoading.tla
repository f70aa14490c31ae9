--------------------------- MODULE MCModelLoading ---------------------------
EXTENDS ModelLoading

CONSTANTS Mac, Phone, Llama, Qwen

\* How often each member may still build its ring again, and how many loads
\* the user may still ask for.
Turns(mac, phone, loads) ==
  /\ epoch = [n \in Members |-> MaxEpoch - (IF n = Leader THEN mac ELSE phone)]
  /\ op = Idle(MaxRequests - loads)

MCInit ==
  /\ Init
  /\ Turns(0, 2, 2) \/ Turns(1, 0, 2) \/ Turns(2, 0, 1) \/ Turns(1, 1, 1)

MCSpec == MCInit /\ [][Next]_vars

MCFairSpec == MCInit /\ [][Next]_vars /\ Fairness
=============================================================================
