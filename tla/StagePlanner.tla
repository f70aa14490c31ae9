---------------------------- MODULE StagePlanner ----------------------------
(***************************************************************************)
(* The planner (StagePlanner.swift): who may hold a required stage, and    *)
(* which layers of a model each of them gets.  It is a pure function of    *)
(* what it is given, so the module holds operators only.                   *)
(*                                                                         *)
(* A model is a record: layers, bytes of weights and overhead per node.    *)
(* The weights take at least one byte: with none, a ring without any       *)
(* spare memory would pass the check of the aggregate and be given layers  *)
(* its members are not entitled to.                                        *)
(* The code divides in doubles.  Below 2^52 for layers times bytes the     *)
(* whole parts are exact and different remainders order as the fractions   *)
(* do; but the fractions of ranks with equal remainders may differ by what *)
(* their quotients were rounded by, and then decide before the rank does.  *)
(* lift stands for that: how far rounding moved each rank's fraction, one  *)
(* of Roundings.                                                           *)
(***************************************************************************)
EXTENDS Naturals, SequencesExt

Model == [layers : Nat, bytes : Nat \ {0}, overhead : Nat]

\* Rounded up: an estimate that is too low would be the dangerous one.
BytesPerLayer(m) ==
  IF m.layers = 0 THEN 0 ELSE (m.bytes + m.layers - 1) \div m.layers

BytesFor(m, k) == k * BytesPerLayer(m) + m.overhead

Capacity(usable, m) == IF usable > m.overhead THEN usable - m.overhead ELSE 0

\* What the first i entries of s add up to, for every i.
Sums(s) ==
  LET sum[i \in 0..Len(s)] == IF i = 0 THEN 0 ELSE sum[i - 1] + s[i]
  IN  sum

Total(s) == Sums(s)[Len(s)]

-----------------------------------------------------------------------------
(* Apportionment by largest remainders.                                    *)

\* Nobody has spare capacity: the first ranks get one more.
Even(total, n) ==
  [i \in 1..n |-> total \div n + IF i <= total % n THEN 1 ELSE 0]

Whole(total, weights) ==
  [i \in DOMAIN weights |-> (total * weights[i]) \div Total(weights)]

Rest(total, weights) ==
  [i \in DOMAIN weights |-> (total * weights[i]) % Total(weights)]

\* Only the order of the roundings matters; equal weights are rounded alike.
Roundings(weights) ==
  {lift \in [DOMAIN weights -> 0..Len(weights) - 1] :
     \A i, j \in DOMAIN weights : weights[i] = weights[j] => lift[i] = lift[j]}

\* The ranks with a larger fraction than i, ties to the lower rank.
Ahead(rest, lift, i) ==
  {j \in DOMAIN rest :
     \/ rest[j] > rest[i]
     \/ rest[j] = rest[i] /\ lift[j] > lift[i]
     \/ rest[j] = rest[i] /\ lift[j] = lift[i] /\ j < i}

\* Everyone gets the whole part of its share; what is left goes to the largest
\* fractions.
ByRemainder(total, weights, lift) ==
  LET whole == Whole(total, weights)
      rest  == Rest(total, weights)
      left  == total - Total(whole)
  IN  [i \in DOMAIN weights |->
         whole[i] + IF Cardinality(Ahead(rest, lift, i)) < left THEN 1 ELSE 0]

Starved(s) == {i \in DOMAIN s : s[i] = 0}

First(S) == CHOOSE i \in S : \A j \in S : i <= j

\* max(by:) keeps the first of several largest.
Largest(s) == First({i \in DOMAIN s : \A j \in DOMAIN s : s[j] <= s[i]})

\* A round of the loop: the largest holder gives a layer to the first rank that
\* holds none.
FedOnce(s) ==
  IF Starved(s) = {} \/ s[Largest(s)] <= 1 THEN s
  ELSE [s EXCEPT ![Largest(s)] = @ - 1, ![First(Starved(s))] = @ + 1]

\* The loop ends when a round changes nothing.  Each feeds one for good, so as
\* many rounds as there are ranks are enough.
Fed(shares) ==
  LET after[k \in 0..Len(shares)] ==
        IF k = 0 THEN shares ELSE FedOnce(after[k - 1])
  IN  after[Len(shares)]

Apportion(total, weights, lift) ==
  Fed(IF Total(weights) = 0 THEN Even(total, Len(weights))
                            ELSE ByRemainder(total, weights, lift))

-----------------------------------------------------------------------------
(* The plan for the eligible members, in the order of their identities;    *)
(* usable[n] is the memory n offers.                                       *)

Failed(error) == [outcome |-> error]

Capacities(m, members, usable) ==
  [i \in DOMAIN members |-> Capacity(usable[members[i]], m)]

Planned(m, members, usable, epoch, lift) ==
  LET capacity == Capacities(m, members, usable)
      shares   == Apportion(m.layers, capacity, lift)
      start(i) == Sums(shares)[i - 1]
      fits     == \A i \in DOMAIN members :
                    BytesFor(m, shares[i]) <= usable[members[i]]
  IN  CASE members = << >>                -> Failed("noEligibleNodes")
        [] Len(members) > m.layers        -> Failed("moreNodesThanLayers")
        [] members # << >> /\ Len(members) <= m.layers /\ Total(capacity) < m.bytes
                                          -> Failed("insufficientAggregateMemory")
        [] OTHER ->
             IF ~fits THEN Failed("nodeCannotFitShard")
             ELSE [outcome     |-> "plan",
                   epoch       |-> epoch,
                   model       |-> m,
                   assignments |->
                     [i \in DOMAIN members |->
                        [node       |-> members[i],
                         startLayer |-> start(i),
                         endLayer   |-> start(i) + shares[i]]]]

-----------------------------------------------------------------------------
(* What a plan is for, stated without the algorithm.                       *)

Share(a) == a.endLayer - a.startLayer

\* Every layer is held exactly once, in rank order, and nobody holds none.
CoversModel(plan) ==
  LET as == plan.assignments
  IN  /\ as # << >>
      /\ as[1].startLayer = 0
      /\ as[Len(as)].endLayer = plan.model.layers
      /\ \A i \in 1..Len(as) - 1 : as[i].endLayer = as[i + 1].startLayer
      /\ \A i \in DOMAIN as : as[i].startLayer < as[i].endLayer

\* Every node can hold its shard, by the true size of the weights rather than
\* by the rounded one the planner uses.
FitsEveryNode(plan, usable) ==
  \A i \in DOMAIN plan.assignments :
    LET a == plan.assignments[i]
    IN  Share(a) * plan.model.bytes
          <= (usable[a.node] - plan.model.overhead) * plan.model.layers

\* Nobody gets a whole layer more than its capacity entitles it to.
WithinEntitlement(plan, usable) ==
  LET cap(a) == Capacity(usable[a.node], plan.model)
      all    == Total([i \in DOMAIN plan.assignments |->
                         cap(plan.assignments[i])])
  IN  \A i \in DOMAIN plan.assignments :
        (Share(plan.assignments[i]) - 1) * all
          < plan.model.layers * cap(plan.assignments[i])
=============================================================================
