------------------------ MODULE MCCrossPlatformPool ------------------------
EXTENDS CrossPlatformPool

CONSTANTS laptop, desk, phone

MCIdOrder == <<desk, laptop, phone>>

MCPlatform == [n \in {laptop, desk, phone} |->
                 IF n = phone THEN "ios" ELSE "windows"]

MCPublished ==
  [n \in {laptop, desk, phone} |->
     IF n = phone
       THEN [link |-> "iosSuspended", connectivity |-> "elasticMobile",
             declares |-> TRUE]
       ELSE [link |-> "desktopUnrestricted", connectivity |-> "coreDesktop",
             declares |-> TRUE]]

MCUsable == [n \in {laptop, desk, phone} |->
               CASE n = desk -> 13 [] n = laptop -> 29 [] OTHER -> 8]

MCSupport ==
  [l \in {"desktopUnrestricted", "androidForegroundService", "iosSuspended"} |->
     CASE l = "desktopUnrestricted" -> 4
       [] l = "androidForegroundService" -> 3
       [] OTHER -> 2]

\* One whose layers come out even, one the smallest share has to be fed for,
\* one whose shares do not fit though the memory suffices, and one with fewer
\* layers than devices.
MCModels ==
  {[layers |-> 5, bytes |-> 20, overhead |-> 0],
   [layers |-> 7, bytes |-> 7, overhead |-> 7],
   [layers |-> 3, bytes |-> 20, overhead |-> 0],
   [layers |-> 1, bytes |-> 3, overhead |-> 0]}

-----------------------------------------------------------------------------
(* The apportionment on bounded inputs, against what it is meant to be.    *)

\* For up to three ranks of at most four units of capacity, up to six layers
\* that give each rank one, and however the fractions were rounded, the shares
\* add up, nobody gets none, and nobody with capacity gets a whole layer more
\* than its share.  The shares are those of the largest remainders, corrected
\* only where a rank would hold nothing.
ApportionmentIsSound ==
  \A k \in 1..3 : \A w \in [1..k -> 0..4] :
  \A total \in k..6, lift \in Roundings(w) :
    LET shares == Apportion(total, w, lift)
        quota  == Total(w)
    IN  /\ Total(shares) = total
        /\ \A i \in 1..k : shares[i] >= 1
        /\ \A i \in 1..k : w[i] > 0 => (shares[i] - 1) * quota < total * w[i]
        /\ quota > 0 /\ Starved(ByRemainder(total, w, lift)) = {} =>
             \A i \in 1..k : (shares[i] + 1) * quota > total * w[i]

\* The bytes a share is estimated at are never fewer than its weights take.
EstimateIsSafe ==
  \A layers \in 1..6, bytes \in 0..20, k \in 0..6 :
    LET m == [layers |-> layers, bytes |-> bytes, overhead |-> 2]
    IN  (BytesFor(m, k) - m.overhead) * layers >= k * bytes

ASSUME PlannerOnBoundedInputs == ApportionmentIsSound /\ EstimateIsSafe
=============================================================================
