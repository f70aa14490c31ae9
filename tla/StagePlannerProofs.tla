------------------------- MODULE StagePlannerProofs -------------------------
(***************************************************************************)
(* Theorems about StagePlanner, for any number of layers and ranks and any *)
(* capacities: the apportionment gives away every layer, leaves nobody     *)
(* without one, and gives nobody with capacity a whole layer more than its *)
(* share; and a plan covers its model and fits the nodes it names.         *)
(*                                                                         *)
(* The sums of the code's loops are recursive functions, so the lemmas     *)
(* about them are inductions, made from the least counterexample.          *)
(***************************************************************************)
EXTENDS StagePlanner, Integers, SequenceTheorems, FiniteSetTheorems,
        WellFoundedInduction, TLAPS

-----------------------------------------------------------------------------
(* Induction.                                                              *)

\* A set of natural numbers that is not empty has a least one.
LEMMA NatMin ==
  ASSUME NEW S \in SUBSET Nat, S # {}
  PROVE  \E n \in S : \A m \in S : n <= m
<1>1. PICK n \in S : \A m \in Nat : <<m, n>> \in OpToRel(<, Nat) => m \notin S
  BY NatLessThanWellFounded, WFMin
<1>2. \A m \in S : ~(m < n)
  BY <1>1 DEF OpToRel
<1>3. QED
  BY <1>2

\* A set that holds 0 and with every number the next holds all.
LEMMA NatAll ==
  ASSUME NEW S, 0 \in S, \A n \in Nat : n \in S => n + 1 \in S
  PROVE  Nat \subseteq S
<1> DEFINE T == {n \in Nat : n \notin S}
<1>1. SUFFICES ASSUME T # {} PROVE FALSE
  OBVIOUS
<1>2. PICK n \in T : \A m \in T : n <= m
  BY <1>1, NatMin
<1>3. n # 0 /\ n - 1 \in Nat /\ ~(n <= n - 1)
  BY <1>2
<1>4. n - 1 \in S
  BY <1>2, <1>3
<1>5. (n - 1) + 1 \in S /\ (n - 1) + 1 = n
  BY <1>3, <1>4
<1>6. QED
  BY <1>2, <1>5

\* A function on 1..n is a sequence of that length.
LEMMA FunIsSeq ==
  ASSUME NEW n \in Nat, NEW S, NEW s \in [1..n -> S]
  PROVE  s \in Seq(S) /\ Len(s) = n /\ DOMAIN s = 1..n
<1>1. s \in Seq(S)
  BY SeqDef
<1>2. DOMAIN s = 1..Len(s) /\ Len(s) \in Nat
  BY <1>1, LenProperties
<1>3. QED
  BY <1>1, <1>2

-----------------------------------------------------------------------------
(* Sums.                                                                   *)

\* f holds the sums of the first entries of s, for up to k of them.
SumsUpTo(f, s, k) ==
  /\ f \in [0..k -> Nat]
  /\ f[0] = 0
  /\ \A i \in 1..k : f[i] = f[i - 1] + s[i]

HasSums(s, k) == \E f : SumsUpTo(f, s, k)

\* The sums of one entry more.
LEMMA SumsExtend ==
  ASSUME NEW n \in Nat, NEW s \in [1..n -> Nat], NEW k \in Nat, k + 1 <= n, HasSums(s, k)
  PROVE  HasSums(s, k + 1)
<1>1. PICK f : SumsUpTo(f, s, k)
  BY DEF HasSums
<1>2. f \in [0..k -> Nat] /\ f[0] = 0 /\ \A i \in 1..k : f[i] = f[i - 1] + s[i]
  BY <1>1 DEF SumsUpTo
<1>3. s[k + 1] \in Nat /\ f[k] \in Nat
  BY <1>2
<1> DEFINE g == [i \in 0..(k + 1) |-> IF i <= k THEN f[i] ELSE f[k] + s[k + 1]]
<1>4. g \in [0..(k + 1) -> Nat]
  BY <1>2, <1>3
<1>5. g[0] = 0
  BY <1>2
<1>6. ASSUME NEW i \in 1..(k + 1) PROVE g[i] = g[i - 1] + s[i]
  <2>1. CASE i <= k
    <3>1. g[i] = f[i] /\ g[i - 1] = f[i - 1]
      BY <2>1
    <3>2. QED
      BY <1>2, <2>1, <3>1
  <2>2. CASE i = k + 1
    <3>1. g[i] = f[k] + s[k + 1] /\ g[i - 1] = f[k]
      BY <2>2
    <3>2. QED
      BY <2>2, <3>1
  <2>3. QED
    BY <2>1, <2>2
<1> HIDE DEF g
<1>7. SumsUpTo(g, s, k + 1)
  BY <1>4, <1>5, <1>6 DEF SumsUpTo
<1>8. QED
  BY <1>7 DEF HasSums

\* The sums of a sequence are what their definition says.
LEMMA SumsAre ==
  ASSUME NEW n \in Nat, NEW s \in [1..n -> Nat]
  PROVE  SumsUpTo(Sums(s), s, n)
<1>1. Len(s) = n
  BY FunIsSeq
<1> DEFINE Sum(f) == f = [i \in 0..n |-> IF i = 0 THEN 0 ELSE f[i - 1] + s[i]]
           Good == {k \in Nat : k <= n => HasSums(s, k)}
<1>2. 0 \in Good
  <2> DEFINE z == [i \in 0..0 |-> 0]
  <2>1. z \in [0..0 -> Nat] /\ z[0] = 0
    OBVIOUS
  <2>2. SumsUpTo(z, s, 0)
    BY <2>1 DEF SumsUpTo
  <2>3. QED
    BY <2>2 DEF HasSums
<1>3. ASSUME NEW k \in Nat, k \in Good
      PROVE  k + 1 \in Good
  BY <1>3, SumsExtend
<1>4. n \in Good
  <2> HIDE DEF Good
  <2>1. QED
    BY <1>2, <1>3, NatAll
<1>5. PICK f : SumsUpTo(f, s, n)
  BY <1>4 DEF HasSums
<1>6. Sum(f)
  BY <1>5 DEF SumsUpTo
<1>7. Sums(s) = CHOOSE g : Sum(g)
  BY <1>1 DEF Sums
<1>8. Sum(Sums(s))
  <2> HIDE DEF Sum
  <2>1. QED
    BY <1>6, <1>7
<1> DEFINE F == Sums(s)
<1>9. F = [i \in 0..n |-> IF i = 0 THEN 0 ELSE F[i - 1] + s[i]]
  BY <1>8
<1> HIDE DEF F
<1>10. DOMAIN F = 0..n /\ F[0] = 0
  BY <1>9
<1>11. \A i \in 1..n : F[i] = F[i - 1] + s[i]
  BY <1>9
<1> DEFINE Typed == {k \in Nat : k <= n => F[k] \in Nat}
<1>12. 0 \in Typed
  BY <1>10
<1>13. ASSUME NEW k \in Nat, k \in Typed
       PROVE  k + 1 \in Typed
  <2>1. SUFFICES ASSUME k + 1 <= n PROVE F[k + 1] \in Nat
    OBVIOUS
  <2>2. F[k] \in Nat /\ s[k + 1] \in Nat
    BY <1>13, <2>1
  <2>3. F[k + 1] = F[k] + s[k + 1]
    <3>1. k + 1 \in 1..n /\ (k + 1) - 1 = k
      BY <2>1
    <3>2. QED
      BY <1>11, <3>1
  <2>4. QED
    BY <2>2, <2>3
<1>14. \A i \in 0..n : F[i] \in Nat
  <2>1. Nat \subseteq Typed
    <3> HIDE DEF Typed
    <3>1. QED
      BY <1>12, <1>13, NatAll
  <2>2. QED
    BY <2>1
<1>15. F \in [0..n -> Nat]
  BY <1>9, <1>14
<1>16. QED
  BY <1>10, <1>11, <1>15 DEF SumsUpTo, F

\* The total is the last sum.
LEMMA TotalIs ==
  ASSUME NEW n \in Nat, NEW s \in [1..n -> Nat]
  PROVE  Total(s) = Sums(s)[n] /\ Total(s) \in Nat
<1>1. Len(s) = n
  BY FunIsSeq
<1>2. Sums(s)[n] \in Nat
  BY SumsAre DEF SumsUpTo
<1>3. QED
  BY <1>1, <1>2 DEF Total

\* What holds of the sums of nothing and is kept by every entry holds of all.
LEMMA SumsInd ==
  ASSUME NEW n \in Nat, NEW S, 0 \in S,
         \A k \in 0..(n - 1) : k \in S => k + 1 \in S
  PROVE  n \in S
<1> DEFINE Good == {k \in Nat : k <= n => k \in S}
<1>1. 0 \in Good /\ \A k \in Nat : k \in Good => k + 1 \in Good
  OBVIOUS
<1>2. Nat \subseteq Good
  <2> HIDE DEF Good
  <2>1. QED
    BY <1>1, NatAll
<1>3. QED
  BY <1>2

\* One entry more.
LEMMA SumsNext ==
  ASSUME NEW n \in Nat, NEW s \in [1..n -> Nat], NEW k \in 0..(n - 1)
  PROVE  /\ Sums(s)[k] \in Nat /\ s[k + 1] \in Nat
         /\ Sums(s)[k + 1] = Sums(s)[k] + s[k + 1]
<1>1. k + 1 \in 1..n /\ (k + 1) - 1 = k /\ k \in 0..n
  OBVIOUS
<1>2. QED
  BY <1>1, SumsAre DEF SumsUpTo

\* A multiple of every entry adds up to the multiple.
LEMMA TotalScale ==
  ASSUME NEW n \in Nat, NEW s \in [1..n -> Nat], NEW c \in Nat
  PROVE  Total([i \in 1..n |-> c * s[i]]) = c * Total(s)
<1> DEFINE t == [i \in 1..n |-> c * s[i]]
           S == {k \in 0..n : Sums(t)[k] = c * Sums(s)[k]}
<1>1. t \in [1..n -> Nat] /\ \A i \in 1..n : t[i] = c * s[i]
  OBVIOUS
<1> HIDE DEF t
<1>2. 0 \in S
  <2>1. Sums(t)[0] = 0 /\ Sums(s)[0] = 0
    BY <1>1, SumsAre DEF SumsUpTo
  <2>2. QED
    BY <2>1
<1>3. ASSUME NEW k \in 0..(n - 1), k \in S
      PROVE  k + 1 \in S
  <2>1. Sums(t)[k + 1] = Sums(t)[k] + t[k + 1]
    BY <1>1, SumsNext
  <2>2. /\ Sums(s)[k + 1] = Sums(s)[k] + s[k + 1]
        /\ Sums(s)[k] \in Nat /\ s[k + 1] \in Nat
    BY SumsNext
  <2>3. t[k + 1] = c * s[k + 1]
    BY <1>1
  <2>4. c * (Sums(s)[k] + s[k + 1]) = c * Sums(s)[k] + c * s[k + 1]
    BY <2>2
  <2>5. QED
    BY <1>3, <2>1, <2>2, <2>3, <2>4
<1>4. n \in S
  <2> HIDE DEF S
  <2>1. QED
    BY <1>2, <1>3, SumsInd
<1>5. QED
  BY <1>1, <1>4, TotalIs DEF t

\* Adding entry by entry adds the totals.
LEMMA TotalAdd ==
  ASSUME NEW n \in Nat, NEW s \in [1..n -> Nat], NEW r \in [1..n -> Nat]
  PROVE  Total([i \in 1..n |-> s[i] + r[i]]) = Total(s) + Total(r)
<1> DEFINE t == [i \in 1..n |-> s[i] + r[i]]
           S == {k \in 0..n : Sums(t)[k] = Sums(s)[k] + Sums(r)[k]}
<1>1. t \in [1..n -> Nat] /\ \A i \in 1..n : t[i] = s[i] + r[i]
  OBVIOUS
<1> HIDE DEF t
<1>2. 0 \in S
  <2>1. Sums(t)[0] = 0 /\ Sums(s)[0] = 0 /\ Sums(r)[0] = 0
    BY <1>1, SumsAre DEF SumsUpTo
  <2>2. QED
    BY <2>1
<1>3. ASSUME NEW k \in 0..(n - 1), k \in S
      PROVE  k + 1 \in S
  <2>0. k + 1 \in 1..n
    OBVIOUS
  <2>a. Sums(t)[k + 1] = Sums(t)[k] + t[k + 1]
    BY <1>1, SumsNext
  <2>1. Sums(t)[k + 1] = Sums(t)[k] + t[k + 1] /\ t[k + 1] = s[k + 1] + r[k + 1]
    BY <1>1, <2>0, <2>a
  <2>2. /\ Sums(s)[k + 1] = Sums(s)[k] + s[k + 1]
        /\ Sums(s)[k] \in Nat /\ s[k + 1] \in Nat
    BY SumsNext
  <2>3. /\ Sums(r)[k + 1] = Sums(r)[k] + r[k + 1]
        /\ Sums(r)[k] \in Nat /\ r[k + 1] \in Nat
    BY SumsNext
  <2>4. QED
    BY <1>3, <2>1, <2>2, <2>3
<1>4. n \in S
  <2> HIDE DEF S
  <2>1. QED
    BY <1>2, <1>3, SumsInd
<1>5. QED
  BY <1>1, <1>4, TotalIs DEF t

\* Smaller entries add up to less.
LEMMA TotalMono ==
  ASSUME NEW n \in Nat, NEW s \in [1..n -> Nat], NEW t \in [1..n -> Nat],
         \A i \in 1..n : s[i] <= t[i]
  PROVE  Total(s) <= Total(t)
<1> DEFINE S == {k \in 0..n : Sums(s)[k] <= Sums(t)[k]}
<1>1. 0 \in S
  <2>1. Sums(t)[0] = 0 /\ Sums(s)[0] = 0
    BY SumsAre DEF SumsUpTo
  <2>2. QED
    BY <2>1
<1>2. ASSUME NEW k \in 0..(n - 1), k \in S
      PROVE  k + 1 \in S
  <2>1. /\ Sums(t)[k + 1] = Sums(t)[k] + t[k + 1]
        /\ Sums(t)[k] \in Nat /\ t[k + 1] \in Nat
    BY SumsNext
  <2>2. /\ Sums(s)[k + 1] = Sums(s)[k] + s[k + 1]
        /\ Sums(s)[k] \in Nat /\ s[k + 1] \in Nat
    BY SumsNext
  <2>3. s[k + 1] <= t[k + 1]
    OBVIOUS
  <2>4. QED
    BY <1>2, <2>1, <2>2, <2>3
<1>3. n \in S
  <2> HIDE DEF S
  <2>1. QED
    BY <1>1, <1>2, SumsInd
<1>4. QED
  BY <1>3, TotalIs

\* Ones add up to how many there are.
LEMMA TotalOnes ==
  ASSUME NEW n \in Nat, NEW T \in SUBSET (1..n)
  PROVE  Total([i \in 1..n |-> IF i \in T THEN 1 ELSE 0]) = Cardinality(T)
<1> DEFINE t == [i \in 1..n |-> IF i \in T THEN 1 ELSE 0]
           S == {k \in 0..n : Sums(t)[k] = Cardinality(T \cap (1..k))}
<1>1. t \in [1..n -> Nat] /\ \A i \in 1..n : t[i] = IF i \in T THEN 1 ELSE 0
  OBVIOUS
<1> HIDE DEF t
<1>2. 0 \in S
  <2>1. Sums(t)[0] = 0
    BY <1>1, SumsAre DEF SumsUpTo
  <2>2. T \cap (1..0) = {}
    OBVIOUS
  <2>3. QED
    BY <2>1, <2>2, FS_EmptySet
<1>3. ASSUME NEW k \in 0..(n - 1), k \in S
      PROVE  k + 1 \in S
  <2> DEFINE U == T \cap (1..k)
             V == T \cap (1..(k + 1))
  <2>0. k + 1 \in 1..n
    OBVIOUS
  <2>a. Sums(t)[k + 1] = Sums(t)[k] + t[k + 1]
    BY <1>1, SumsNext
  <2>1. Sums(t)[k + 1] = Sums(t)[k] + t[k + 1] /\ t[k + 1] = IF k + 1 \in T THEN 1 ELSE 0
    BY <1>1, <2>0, <2>a
  <2>2. IsFiniteSet(U)
    <3>1. IsFiniteSet(1..k)
      BY FS_Interval
    <3>2. QED
      BY <3>1, FS_Subset
  <2>3. CASE k + 1 \in T
    <3>1. V = U \cup {k + 1} /\ k + 1 \notin U
      BY <2>3
    <3> HIDE DEF U, V
    <3>2. Cardinality(V) = Cardinality(U) + 1
      BY <2>2, <3>1, FS_AddElement
    <3>3. QED
      BY <1>3, <2>1, <2>3, <3>2 DEF U, V
  <2>4. CASE k + 1 \notin T
    <3>1. V = U
      BY <2>4
    <3>2. Cardinality(U) \in Nat
      <4> HIDE DEF U
      <4>1. QED
        BY <2>2, FS_CardinalityType
    <3>3. Sums(t)[k] = Cardinality(U) /\ k + 1 \in 0..n
      BY <1>3
    <3>4. Sums(t)[k + 1] = Cardinality(V)
      <4> HIDE DEF U, V
      <4>1. QED
        BY <2>1, <2>4, <3>1, <3>2, <3>3
    <3>5. QED
      BY <3>3, <3>4
  <2>5. QED
    BY <2>3, <2>4
<1>4. n \in S
  <2> HIDE DEF S
  <2>1. QED
    BY <1>2, <1>3, SumsInd
<1>5. T \cap (1..n) = T
  OBVIOUS
<1>6. QED
  BY <1>1, <1>4, <1>5, TotalIs DEF t

\* Changing one entry changes the total by as much.
LEMMA TotalExcept ==
  ASSUME NEW n \in Nat, NEW s \in [1..n -> Nat], NEW t \in [1..n -> Nat],
         NEW j \in 1..n, \A i \in 1..n : i # j => t[i] = s[i]
  PROVE  Total(t) + s[j] = Total(s) + t[j]
<1> DEFINE v == t[j]
           S == {k \in 0..n : Sums(t)[k] + (IF j <= k THEN s[j] ELSE 0)
                                = Sums(s)[k] + (IF j <= k THEN v ELSE 0)}
<1>1. /\ t \in [1..n -> Nat] /\ t[j] = v /\ s[j] \in Nat /\ v \in Nat
      /\ \A i \in 1..n : i # j => t[i] = s[i]
  OBVIOUS
<1> HIDE DEF v
<1>2. 0 \in S
  <2>1. Sums(t)[0] = 0 /\ Sums(s)[0] = 0
    BY <1>1, SumsAre DEF SumsUpTo
  <2>2. QED
    BY <2>1
<1>3. ASSUME NEW k \in 0..(n - 1), k \in S
      PROVE  k + 1 \in S
  <2>1. /\ Sums(t)[k + 1] = Sums(t)[k] + t[k + 1]
        /\ Sums(t)[k] \in Nat /\ t[k + 1] \in Nat
    BY <1>1, SumsNext
  <2>2. /\ Sums(s)[k + 1] = Sums(s)[k] + s[k + 1]
        /\ Sums(s)[k] \in Nat /\ s[k + 1] \in Nat
    BY SumsNext
  <2>3. CASE j <= k
    <3>1. t[k + 1] = s[k + 1] /\ j <= k + 1
      BY <1>1, <2>3
    <3>2. Sums(t)[k] + s[j] = Sums(s)[k] + v
      BY <1>3, <2>3
    <3>3. s[j] \in Nat
      BY <1>1
    <3>4. Sums(t)[k + 1] + s[j] = Sums(s)[k + 1] + v
      <4> HIDE DEF S
      <4> DEFINE a == Sums(t)[k]
                 b == Sums(s)[k]
                 c == s[k + 1]
                 d == s[j]
      <4>1. /\ a \in Nat /\ b \in Nat /\ c \in Nat /\ d \in Nat
            /\ Sums(t)[k + 1] = a + c /\ Sums(s)[k + 1] = b + c
            /\ a + d = b + v
        BY <2>1, <2>2, <3>1, <3>2, <3>3
      <4>2. v \in Nat
        BY <1>1
      <4> HIDE DEF a, b, c, d
      <4>3. (a + c) + d = (b + c) + v
        BY <4>1, <4>2
      <4>4. QED
        BY <4>1, <4>3 DEF d
    <3>5. QED
      BY <3>1, <3>4
  <2>4. CASE j = k + 1
    <3>1. Sums(t)[k] = Sums(s)[k]
      BY <1>3, <2>1, <2>2, <2>4
    <3>2. t[k + 1] = v /\ s[k + 1] = s[j] /\ v \in Nat
      BY <1>1, <2>4
    <3>3. Sums(t)[k + 1] + s[j] = Sums(s)[k + 1] + v
      BY <2>1, <2>2, <3>1, <3>2
    <3>4. QED
      BY <2>4, <3>3
  <2>5. CASE j > k + 1
    <3>1. t[k + 1] = s[k + 1]
      BY <1>1, <2>5
    <3>2. QED
      BY <1>1, <1>3, <2>1, <2>2, <2>5, <3>1
  <2>6. QED
    BY <2>3, <2>4, <2>5
<1>4. n \in S
  <2> HIDE DEF S
  <2>1. QED
    BY <1>2, <1>3, SumsInd
<1>5. Sums(t)[n] + s[j] = Sums(s)[n] + v
  BY <1>4
<1>6. Total(t) + s[j] = Total(s) + v
  BY <1>1, <1>5, TotalIs
<1>7. QED
  BY <1>1, <1>6

\* No entry is more than the total.
LEMMA EntryBelowTotal ==
  ASSUME NEW n \in Nat, NEW s \in [1..n -> Nat], NEW j \in 1..n
  PROVE  s[j] <= Total(s)
<1> DEFINE t == [i \in 1..n |-> IF i = j THEN 0 ELSE s[i]]
<1>1. t \in [1..n -> Nat] /\ t[j] = 0 /\ \A i \in 1..n : i # j => t[i] = s[i]
  OBVIOUS
<1> HIDE DEF t
<1>2. Total(t) + s[j] = Total(s) + t[j]
  BY <1>1, TotalExcept
<1>3. Total(t) \in Nat /\ Total(s) \in Nat /\ s[j] \in Nat
  BY <1>1, TotalIs
<1>4. QED
  BY <1>1, <1>2, <1>3

-----------------------------------------------------------------------------
(* Ranks.                                                                  *)

\* B says of each member of S who comes before it, in one order of all.
Orders(B, S) ==
  /\ B \in [S -> SUBSET S]
  /\ \A x \in S : x \notin B[x]
  /\ \A x, y \in S : x \in B[y] => B[x] \subseteq B[y]
  /\ \A x, y \in S : x = y \/ x \in B[y] \/ y \in B[x]

\* Who comes later has more before it, and nobody has all.
LEMMA RankGrows ==
  ASSUME NEW B, NEW S, IsFiniteSet(S), Orders(B, S), NEW x \in S
  PROVE  /\ Cardinality(B[x]) \in 0..(Cardinality(S) - 1)
         /\ \A y \in S : x \in B[y] =>
              Cardinality(B[x]) < Cardinality(B[y])
<1>1. \A y \in S : B[y] \in SUBSET S /\ y \notin B[y]
  BY DEF Orders
<1>2. \A y \in S : IsFiniteSet(B[y]) /\ Cardinality(B[y]) \in Nat
  BY <1>1, FS_Subset, FS_CardinalityType
<1>3. IsFiniteSet(B[x] \cup {x}) /\ Cardinality(B[x] \cup {x}) = Cardinality(B[x]) + 1
  BY <1>1, <1>2, FS_AddElement
<1>4. Cardinality(S) \in Nat
  BY FS_CardinalityType
<1>5. Cardinality(B[x]) + 1 <= Cardinality(S)
  <2>1. B[x] \cup {x} \in SUBSET S
    BY <1>1
  <2>2. QED
    BY <1>3, <2>1, FS_Subset
<1>6. ASSUME NEW y \in S, x \in B[y]
      PROVE  Cardinality(B[x]) < Cardinality(B[y])
  <2>1. B[x] \cup {x} \in SUBSET B[y]
    BY <1>6 DEF Orders
  <2>2. Cardinality(B[x] \cup {x}) <= Cardinality(B[y])
    BY <1>2, <2>1, FS_Subset
  <2>3. QED
    BY <1>2, <1>3, <2>2
<1>7. Cardinality(B[x]) \in 0..(Cardinality(S) - 1)
  BY <1>2, <1>4, <1>5
<1>8. QED
  BY <1>6, <1>7

\* Every rank is taken.
LEMMA RankTaken ==
  ASSUME NEW B, NEW S, IsFiniteSet(S), Orders(B, S), NEW k \in 0..(Cardinality(S) - 1)
  PROVE  \E x \in S : Cardinality(B[x]) = k
<1> DEFINE N == Cardinality(S)
           f == [x \in S |-> Cardinality(B[x])]
<1>1. N \in Nat
  BY FS_CardinalityType
<1>2. IsFiniteSet(0..(N - 1)) /\ Cardinality(0..(N - 1)) = N
  <2>1. 0 \in Int /\ N - 1 \in Int
    BY <1>1
  <2>2. /\ IsFiniteSet(0..(N - 1))
        /\ Cardinality(0..(N - 1)) = IF 0 > N - 1 THEN 0 ELSE (N - 1) - 0 + 1
    <3> HIDE DEF N
    <3>1. QED
      BY <2>1, FS_Interval
  <2>3. QED
    BY <1>1, <2>2
<1>3. f \in [S -> 0..(N - 1)]
  BY RankGrows
<1>4. ASSUME NEW x \in S, NEW y \in S, x # y
      PROVE  f[x] # f[y]
  <2>1. Cardinality(B[x]) \in Int /\ Cardinality(B[y]) \in Int
    BY RankGrows
  <2>2. x \in B[y] \/ y \in B[x]
    BY <1>4 DEF Orders
  <2>3. \/ Cardinality(B[x]) < Cardinality(B[y])
        \/ Cardinality(B[y]) < Cardinality(B[x])
    BY <2>2, RankGrows
  <2>4. QED
    BY <2>1, <2>3
<1>5. f \in Injection(S, 0..(N - 1))
  <2> HIDE DEF f
  <2>1. QED
    BY <1>3, <1>4 DEF Injection, IsInjective
<1>6. f \in Surjection(S, 0..(N - 1))
  <2> HIDE DEF f
  <2>1. QED
    BY <1>2, <1>5, FS_Injection
<1>7. QED
  BY <1>6 DEF Surjection

\* As many come before rank k as k says.
LEMMA RankBelow ==
  ASSUME NEW B, NEW S, IsFiniteSet(S), Orders(B, S), NEW k \in 0..Cardinality(S)
  PROVE  Cardinality({x \in S : Cardinality(B[x]) < k}) = k
<1> DEFINE N == Cardinality(S)
           T == {x \in S : Cardinality(B[x]) < k}
           f == [x \in T |-> Cardinality(B[x])]
<1>1. N \in Nat /\ k \in Nat /\ k <= N
  BY FS_CardinalityType
<1>2. IsFiniteSet(0..(k - 1)) /\ Cardinality(0..(k - 1)) = k
  <2>1. 0 \in Int /\ k - 1 \in Int
    BY <1>1
  <2>2. /\ IsFiniteSet(0..(k - 1))
        /\ Cardinality(0..(k - 1)) = IF 0 > k - 1 THEN 0 ELSE (k - 1) - 0 + 1
    BY <2>1, FS_Interval
  <2>3. QED
    BY <1>1, <2>2
<1>3. f \in [T -> 0..(k - 1)]
  <2>1. \A x \in T : Cardinality(B[x]) \in 0..(k - 1)
    <3>1. \A x \in S : Cardinality(B[x]) \in 0..(N - 1)
      BY RankGrows
    <3>2. QED
      BY <1>1, <3>1
  <2>2. QED
    BY <2>1
<1>4. ASSUME NEW x \in T, NEW y \in T, x # y
      PROVE  f[x] # f[y]
  <2>1. Cardinality(B[x]) \in Int /\ Cardinality(B[y]) \in Int
    BY RankGrows
  <2>2. x \in B[y] \/ y \in B[x]
    BY <1>4 DEF Orders
  <2>3. \/ Cardinality(B[x]) < Cardinality(B[y])
        \/ Cardinality(B[y]) < Cardinality(B[x])
    BY <2>2, RankGrows
  <2>4. QED
    BY <2>1, <2>3
<1>5. f \in Injection(T, 0..(k - 1))
  <2> HIDE DEF f, T
  <2>1. QED
    BY <1>3, <1>4 DEF Injection, IsInjective
<1>6. \A i \in 0..(k - 1) : \E x \in T : f[x] = i
  <2>1. SUFFICES ASSUME NEW i \in 0..(k - 1) PROVE \E x \in T : f[x] = i
    OBVIOUS
  <2>2. i \in 0..(N - 1)
    BY <1>1
  <2>3. PICK x \in S : Cardinality(B[x]) = i
    BY <2>2, RankTaken
  <2>4. x \in T
    BY <1>1, <2>3
  <2>5. QED
    BY <2>3, <2>4
<1>7. f \in Surjection(T, 0..(k - 1))
  <2> HIDE DEF f, T
  <2>1. QED
    BY <1>3, <1>6 DEF Surjection
<1>8. Cardinality(T) = Cardinality(0..(k - 1))
  <2> HIDE DEF f, T
  <2>1. QED
    BY <1>2, <1>5, <1>7, FS_Injection
<1>9. QED
  BY <1>2, <1>8

-----------------------------------------------------------------------------
(* Apportionment.                                                          *)

\* Division with a remainder.
LEMMA Division ==
  ASSUME NEW a \in Nat, NEW b \in Nat \ {0}
  PROVE  /\ a \div b \in Nat /\ a % b \in 0..(b - 1)
         /\ a = b * (a \div b) + (a % b)
  OBVIOUS

\* Nobody has capacity: an even split gives everything away.
LEMMA EvenIsWhole ==
  ASSUME NEW n \in Nat \ {0}, NEW total \in Nat
  PROVE  /\ Even(total, n) \in [1..n -> Nat]
         /\ Total(Even(total, n)) = total
<1> DEFINE q == total \div n
           r == total % n
           all == [i \in 1..n |-> IF i \in 1..n THEN 1 ELSE 0]
           a == [i \in 1..n |-> q * all[i]]
           b == [i \in 1..n |-> IF i \in 1..r THEN 1 ELSE 0]
           e == [i \in 1..n |-> a[i] + b[i]]
<1>1. q \in Nat /\ r \in 0..(n - 1) /\ total = n * q + r
  BY Division
<1> HIDE DEF q, r
<1>2. Cardinality(1..n) = n /\ Cardinality(1..r) = r
  BY <1>1, FS_Interval
<1>3. all \in [1..n -> Nat] /\ Total(all) = n
  BY <1>2, TotalOnes
<1> HIDE DEF all
<1>4. a \in [1..n -> Nat] /\ Total(a) = q * n
  <2>1. \A i \in 1..n : q * all[i] \in Nat
    BY <1>1, <1>3
  <2>2. Total(a) = q * Total(all)
    BY <1>1, <1>3, TotalScale
  <2>3. QED
    BY <1>3, <2>1, <2>2
<1> HIDE DEF a
<1>5. b \in [1..n -> Nat] /\ Total(b) = r
  BY <1>1, <1>2, TotalOnes
<1> HIDE DEF b
<1>6. e \in [1..n -> Nat] /\ Total(e) = q * n + r
  <2>1. \A i \in 1..n : a[i] + b[i] \in Nat
    BY <1>4, <1>5
  <2>2. Total(e) = Total(a) + Total(b)
    BY <1>4, <1>5, TotalAdd
  <2>3. QED
    BY <1>4, <1>5, <2>1, <2>2
<1>7. Even(total, n) = e
  <2>1. \A i \in 1..n : all[i] = 1
    BY DEF all
  <2>2. \A i \in 1..n : a[i] = q
    BY <1>1, <2>1 DEF a
  <2>3. \A i \in 1..n : b[i] = IF i <= r THEN 1 ELSE 0
    BY <1>1 DEF b
  <2>4. Even(total, n) = [i \in 1..n |-> q + IF i <= r THEN 1 ELSE 0]
    BY DEF Even, q, r
  <2>5. QED
    BY <2>2, <2>3, <2>4
<1>8. q * n = n * q
  BY <1>1
<1>9. QED
  BY <1>1, <1>6, <1>7, <1>8

\* The fractions order the ranks.
LEMMA RestIsOrdered ==
  ASSUME NEW n \in Nat, NEW rest \in [1..n -> Nat], NEW lift \in [1..n -> Nat]
  PROVE  Orders([i \in 1..n |-> Ahead(rest, lift, i)], 1..n)
<1>1. DOMAIN rest = 1..n /\ \A i \in 1..n : rest[i] \in Nat /\ lift[i] \in Nat
  OBVIOUS
<1>2. \A i, j \in 1..n :
        j \in Ahead(rest, lift, i) <=>
          \/ rest[j] > rest[i]
          \/ rest[j] = rest[i] /\ lift[j] > lift[i]
          \/ rest[j] = rest[i] /\ lift[j] = lift[i] /\ j < i
  BY <1>1 DEF Ahead
<1>3. \A i \in 1..n : Ahead(rest, lift, i) \in SUBSET (1..n)
  BY <1>1 DEF Ahead
<1>4. \A i, j \in 1..n : i \in Ahead(rest, lift, j) => Ahead(rest, lift, i) \subseteq Ahead(rest, lift, j)
  <2>1. SUFFICES ASSUME NEW i \in 1..n, NEW j \in 1..n, i \in Ahead(rest, lift, j),
                        NEW k \in Ahead(rest, lift, i)
                 PROVE  k \in Ahead(rest, lift, j)
    OBVIOUS
  <2>2. k \in 1..n
    BY <1>3
  <2>3. \/ rest[i] > rest[j]
        \/ rest[i] = rest[j] /\ lift[i] > lift[j]
        \/ rest[i] = rest[j] /\ lift[i] = lift[j] /\ i < j
    BY <1>2, <2>1
  <2>4. \/ rest[k] > rest[i]
        \/ rest[k] = rest[i] /\ lift[k] > lift[i]
        \/ rest[k] = rest[i] /\ lift[k] = lift[i] /\ k < i
    BY <1>2, <2>1, <2>2
  <2>5. /\ rest[i] \in Nat /\ rest[j] \in Nat /\ rest[k] \in Nat
        /\ lift[i] \in Nat /\ lift[j] \in Nat /\ lift[k] \in Nat
    BY <1>1, <2>2
  <2>6. \/ rest[k] > rest[j]
        \/ rest[k] = rest[j] /\ lift[k] > lift[j]
        \/ rest[k] = rest[j] /\ lift[k] = lift[j] /\ k < j
    BY <2>2, <2>3, <2>4, <2>5
  <2>7. QED
    BY <1>2, <2>2, <2>6
<1>5. \A i, j \in 1..n : i = j \/ i \in Ahead(rest, lift, j) \/ j \in Ahead(rest, lift, i)
  <2>1. SUFFICES ASSUME NEW i \in 1..n, NEW j \in 1..n, i # j
                 PROVE  i \in Ahead(rest, lift, j) \/ j \in Ahead(rest, lift, i)
    OBVIOUS
  <2>2. /\ rest[i] \in Nat /\ rest[j] \in Nat
        /\ lift[i] \in Nat /\ lift[j] \in Nat
        /\ i \in Nat /\ j \in Nat
    BY <1>1
  <2>3. \/ rest[i] > rest[j] \/ rest[j] > rest[i]
        \/ rest[i] = rest[j] /\ (lift[i] > lift[j] \/ lift[j] > lift[i])
        \/ rest[i] = rest[j] /\ lift[i] = lift[j] /\ (i < j \/ j < i)
    BY <2>1, <2>2
  <2>4. QED
    BY <1>2, <2>3
<1>6. \A i \in 1..n : i \notin Ahead(rest, lift, i)
  BY <1>1, <1>2
<1>7. QED
  BY <1>3, <1>4, <1>5, <1>6 DEF Orders

\* whole and rest are the parts of the division by S, rank by rank.
Divides(n, S, total, w, whole, rest) ==
  /\ S \in Nat \ {0}
  /\ whole \in [1..n -> Nat] /\ rest \in [1..n -> Nat]
  /\ \A i \in 1..n : rest[i] < S /\ total * w[i] = S * whole[i] + rest[i]

\* Whole and Rest are that, by the total of the capacities.
LEMMA WholeAndRest ==
  ASSUME NEW n \in Nat, NEW w \in [1..n -> Nat], NEW total \in Nat, Total(w) # 0
  PROVE  Divides(n, Total(w), total, w, Whole(total, w), Rest(total, w))
<1> DEFINE S == Total(w)
<1>1. S \in Nat \ {0}
  BY TotalIs
<1> HIDE DEF S
<1>2. ASSUME NEW i \in 1..n
      PROVE  /\ (total * w[i]) \div S \in Nat
             /\ (total * w[i]) % S \in 0..(S - 1)
             /\ total * w[i] = S * ((total * w[i]) \div S) + ((total * w[i]) % S)
  <2>1. total * w[i] \in Nat
    OBVIOUS
  <2>2. QED
    BY <1>1, <2>1, Division
<1>3. /\ Whole(total, w) = [i \in 1..n |-> (total * w[i]) \div S]
      /\ Rest(total, w) = [i \in 1..n |-> (total * w[i]) % S]
  BY DEF Whole, Rest, S
<1>4. \A i \in 1..n : (total * w[i]) % S \in Nat /\ (total * w[i]) % S < S
  BY <1>1, <1>2
<1>5. Whole(total, w) \in [1..n -> Nat] /\ Rest(total, w) \in [1..n -> Nat]
  BY <1>2, <1>3, <1>4
<1>6. ASSUME NEW i \in 1..n
      PROVE  /\ Rest(total, w)[i] < S
             /\ total * w[i] = S * Whole(total, w)[i] + Rest(total, w)[i]
  <2>1. /\ Whole(total, w)[i] = (total * w[i]) \div S
        /\ Rest(total, w)[i] = (total * w[i]) % S
    BY <1>3
  <2>2. QED
    BY <1>2, <1>4, <2>1
<1>7. QED
  BY <1>1, <1>5, <1>6 DEF S, Divides

\* What rounding leaves over is no more than there are ranks with a remainder.
LEMMA LeftIsCovered ==
  ASSUME NEW n \in Nat, NEW w \in [1..n -> Nat], NEW total \in Nat, Total(w) # 0
  PROVE  LET left == total - Total(Whole(total, w))
             some == {i \in 1..n : Rest(total, w)[i] # 0}
         IN  /\ left \in Nat
             /\ left <= Cardinality(some)
             /\ Cardinality(some) <= n
<1> DEFINE S == Total(w)
           whole == Whole(total, w)
           rest == Rest(total, w)
           left == total - Total(whole)
           some == {i \in 1..n : rest[i] # 0}
           all == [i \in 1..n |-> total * w[i]]
           parts == [i \in 1..n |-> S * whole[i]]
           one == [i \in 1..n |-> IF i \in some THEN 1 ELSE 0]
           most == [i \in 1..n |-> S * one[i]]
<1>0. Divides(n, S, total, w, whole, rest)
  BY WholeAndRest
<1>2. Total(all) = total * S
  BY TotalScale
<1>s. S = Total(w)
  OBVIOUS
<1> HIDE DEF S, whole, rest
<1>1. /\ S \in Nat \ {0}
      /\ whole \in [1..n -> Nat] /\ rest \in [1..n -> Nat]
      /\ \A i \in 1..n : rest[i] < S /\ total * w[i] = S * whole[i] + rest[i]
  BY <1>0 DEF Divides
<1>3. parts \in [1..n -> Nat] /\ Total(parts) = S * Total(whole)
  <2>1. \A i \in 1..n : S * whole[i] \in Nat
    BY <1>1
  <2>2. Total(parts) = S * Total(whole)
    BY <1>1, TotalScale
  <2>3. QED
    BY <2>1, <2>2
<1>4. all = [i \in 1..n |-> parts[i] + rest[i]]
  <2>1. \A i \in 1..n : parts[i] + rest[i] = total * w[i]
    <3>1. \A i \in 1..n : parts[i] = S * whole[i]
      OBVIOUS
    <3>2. QED
      BY <1>1, <3>1
  <2> HIDE DEF parts
  <2>2. QED
    BY <2>1
<1> HIDE DEF parts, all
<1>5. Total(all) = S * Total(whole) + Total(rest)
  <2>1. parts \in [1..n -> Nat] /\ rest \in [1..n -> Nat]
    BY <1>1, <1>3
  <2>2. Total([i \in 1..n |-> parts[i] + rest[i]]) = Total(parts) + Total(rest)
    BY <2>1, TotalAdd
  <2>3. QED
    BY <1>3, <1>4, <2>2
<1>6. one \in [1..n -> Nat] /\ Total(one) = Cardinality(some)
  BY TotalOnes
<1>7. \A i \in 1..n : rest[i] <= S * one[i]
  <2>1. SUFFICES ASSUME NEW i \in 1..n PROVE rest[i] <= S * one[i]
    OBVIOUS
  <2>2. CASE rest[i] = 0
    <3>1. one[i] = 0
      BY <2>2
    <3>2. S * 0 = 0
      BY <1>1
    <3>3. QED
      BY <2>2, <3>1, <3>2
  <2>3. CASE rest[i] # 0
    <3>1. one[i] = 1
      BY <2>3
    <3>2. S * 1 = S /\ rest[i] < S /\ rest[i] \in Nat
      BY <1>1
    <3>3. QED
      BY <1>1, <3>1, <3>2
  <2>4. QED
    BY <2>2, <2>3
<1> HIDE DEF one
<1>8. most \in [1..n -> Nat] /\ Total(most) = S * Cardinality(some)
  <2>1. \A i \in 1..n : S * one[i] \in Nat
    BY <1>1, <1>6
  <2>2. Total(most) = S * Total(one)
    BY <1>1, <1>6, TotalScale
  <2>3. QED
    BY <1>6, <2>1, <2>2
<1>9. \A i \in 1..n : rest[i] <= most[i]
  BY <1>7
<1> HIDE DEF most
<1>10. Total(rest) <= S * Cardinality(some)
  BY <1>1, <1>8, <1>9, TotalMono
<1>11. Total(whole) \in Nat /\ Total(rest) \in Nat
  BY <1>1, TotalIs
<1>12. Cardinality(some) \in Nat /\ Cardinality(some) <= n
  <2>1. some \in SUBSET (1..n)
    OBVIOUS
  <2> HIDE DEF some, one, left
  <2>a. IsFiniteSet(1..n) /\ Cardinality(1..n) = IF 1 > n THEN 0 ELSE n - 1 + 1
    BY FS_Interval
  <2>b. IsFiniteSet(1..n) /\ Cardinality(1..n) = n
    BY <2>a
  <2>2. IsFiniteSet(some) /\ Cardinality(some) <= Cardinality(1..n)
    BY <2>1, <2>b, FS_Subset
  <2>3. QED
    BY <2>b, <2>2, FS_CardinalityType
<1> HIDE DEF some
<1>13. total * S = S * Total(whole) + Total(rest)
  BY <1>2, <1>5
<1> DEFINE x == Total(whole)
           y == Total(rest)
           c == Cardinality(some)
<1>14. x \in Nat /\ y \in Nat /\ c \in Nat /\ total * S = S * x + y /\ y <= S * c
  BY <1>10, <1>11, <1>12, <1>13
<1> HIDE DEF x, y, c
<1>15. S * (total - x) = y
  BY <1>1, <1>14
<1>16. total - x >= 0
  <2>1. SUFFICES ASSUME total - x < 0 PROVE FALSE
    BY <1>14
  <2>2. S * (total - x) < 0
    BY <1>1, <1>14, <2>1
  <2>3. QED
    BY <1>14, <1>15, <2>2
<1>17. total - x <= c
  <2>1. SUFFICES ASSUME c < total - x PROVE FALSE
    BY <1>14
  <2>2. S * c < S * (total - x)
    BY <1>1, <1>14, <2>1
  <2>3. S * c \in Nat /\ S * (total - x) \in Int
    BY <1>1, <1>14
  <2>4. QED
    BY <1>14, <1>15, <2>2, <2>3
<1>18. left \in Nat /\ left <= Cardinality(some)
  BY <1>14, <1>16, <1>17 DEF x, c
<1>19. QED
  BY <1>12, <1>18 DEF some, rest, whole

\* The largest remainders give everything away, and a rank gets one more than
\* the whole part of its share only if something remains of it.
LEMMA ByRemainderIsWhole ==
  ASSUME NEW n \in Nat, NEW w \in [1..n -> Nat], NEW total \in Nat, Total(w) # 0,
         NEW lift \in [1..n -> Nat]
  PROVE  /\ ByRemainder(total, w, lift) \in [1..n -> Nat]
         /\ Total(ByRemainder(total, w, lift)) = total
         /\ \A i \in 1..n : (ByRemainder(total, w, lift)[i] - 1) * Total(w) < total * w[i]
<1> DEFINE S == Total(w)
           whole == Whole(total, w)
           rest == Rest(total, w)
           left == total - Total(whole)
           some == {i \in 1..n : rest[i] # 0}
           B == [i \in 1..n |-> Ahead(rest, lift, i)]
           lucky == {i \in 1..n : Cardinality(B[i]) < left}
           one == [i \in 1..n |-> IF i \in lucky THEN 1 ELSE 0]
<1>0. Divides(n, S, total, w, whole, rest)
  BY WholeAndRest
<1>2. left \in Nat /\ left <= Cardinality(some) /\ Cardinality(some) <= n
  BY LeftIsCovered
<1>3. ByRemainder(total, w, lift) = [i \in 1..n |-> whole[i] + one[i]]
  BY DEF ByRemainder
<1> HIDE DEF S, whole, rest
<1>1. /\ S \in Nat \ {0}
      /\ whole \in [1..n -> Nat] /\ rest \in [1..n -> Nat]
      /\ \A i \in 1..n : rest[i] < S /\ total * w[i] = S * whole[i] + rest[i]
  BY <1>0 DEF Divides
<1>4. Total(whole) \in Nat /\ left = total - Total(whole)
  BY <1>1, TotalIs
<1>5. Orders(B, 1..n)
  BY <1>1, RestIsOrdered
<1>6. IsFiniteSet(1..n) /\ Cardinality(1..n) = n
  BY FS_Interval
<1>7. IsFiniteSet(some) /\ Cardinality(some) \in Nat
  <2>1. some \in SUBSET (1..n)
    OBVIOUS
  <2> HIDE DEF some
  <2>2. QED
    BY <1>6, <2>1, FS_Subset, FS_CardinalityType
<1>8. left \in 0..Cardinality(1..n)
  <2> HIDE DEF left, some
  <2>1. QED
    BY <1>2, <1>6, <1>7
<1>9. Cardinality(lucky) = left
  <2> HIDE DEF left, B
  <2>1. QED
    BY <1>5, <1>6, <1>8, RankBelow
<1>10. one \in [1..n -> Nat] /\ Total(one) = left
  <2>1. lucky \in SUBSET (1..n)
    OBVIOUS
  <2>2. Total(one) = Cardinality(lucky)
    <3> HIDE DEF lucky
    <3>1. QED
      BY <2>1, TotalOnes
  <2>3. one \in [1..n -> Nat]
    OBVIOUS
  <2>4. QED
    BY <1>9, <2>2, <2>3
<1>11. \A i \in 1..n : one[i] \in {0, 1} /\ (one[i] = 1 => Cardinality(B[i]) < left)
  OBVIOUS
<1>12. ASSUME NEW i \in 1..n, rest[i] = 0
       PROVE  ~(Cardinality(B[i]) < left)
  <2>1. some \subseteq B[i]
    <3>1. \A j \in 1..n : rest[j] > rest[i] => j \in B[i]
      BY <1>1 DEF Ahead
    <3>2. ASSUME NEW j \in 1..n, rest[j] # 0 PROVE rest[j] > rest[i]
      <4>1. rest[j] \in Nat
        BY <1>1
      <4>2. QED
        BY <1>12, <3>2, <4>1
    <3> HIDE DEF B
    <3>3. QED
      BY <3>1, <3>2
  <2>2. IsFiniteSet(B[i]) /\ Cardinality(B[i]) \in Nat
    <3>1. B[i] \in SUBSET (1..n)
      BY <1>5 DEF Orders
    <3> HIDE DEF B
    <3>2. QED
      BY <1>6, <3>1, FS_Subset, FS_CardinalityType
  <2>3. Cardinality(some) <= Cardinality(B[i])
    <3> HIDE DEF B, some
    <3>1. QED
      BY <2>1, <2>2, FS_Subset
  <2> HIDE DEF B, some, left
  <2>4. QED
    BY <1>2, <1>7, <2>2, <2>3
<1> HIDE DEF one, left, B, lucky, some
<1>13. Total([i \in 1..n |-> whole[i] + one[i]]) = Total(whole) + left
  BY <1>1, <1>10, TotalAdd
<1>14. Total(whole) + left = total
  BY <1>4
<1>15. ByRemainder(total, w, lift) \in [1..n -> Nat]
  <2>1. \A i \in 1..n : whole[i] + one[i] \in Nat
    BY <1>1, <1>10
  <2>2. QED
    BY <1>3, <2>1
<1>16. ASSUME NEW i \in 1..n
       PROVE  (ByRemainder(total, w, lift)[i] - 1) * S < total * w[i]
  <2> DEFINE h == whole[i]
             r == rest[i]
             t == total * w[i]
             g == ByRemainder(total, w, lift)[i]
  <2>1. /\ h \in Nat /\ r \in Nat /\ t = S * h + r /\ g = h + one[i]
        /\ S \in Nat \ {0}
    BY <1>1, <1>3
  <2>2. one[i] = 1 => r # 0
    BY <1>11, <1>12
  <2>3. one[i] \in {0, 1}
    BY <1>11
  <2> SUFFICES (g - 1) * S < t
    OBVIOUS
  <2> HIDE DEF h, r, t, g
  <2> DEFINE p == S * h
  <2>4. p \in Nat /\ (h - 1) * S = p - S /\ h * S = p
    BY <2>1
  <2>5. t = p + r
    BY <2>1
  <2> HIDE DEF p
  <2>6. CASE one[i] = 0
    <3>1. g - 1 = h - 1
      BY <2>1, <2>6
    <3>2. (g - 1) * S = p - S
      BY <2>4, <3>1
    <3>3. QED
      BY <2>1, <2>4, <2>5, <3>2
  <2>7. CASE one[i] = 1
    <3>1. g - 1 = h
      BY <2>1, <2>7
    <3>2. (g - 1) * S = p
      BY <2>4, <3>1
    <3>3. QED
      BY <2>1, <2>2, <2>4, <2>5, <2>7, <3>2
  <2>8. QED
    BY <2>3, <2>6, <2>7
<1>17. QED
  BY <1>3, <1>13, <1>14, <1>15, <1>16 DEF S

-----------------------------------------------------------------------------
(* Feeding those who hold nothing.                                         *)

\* There is a first of every set of ranks.
LEMMA FirstIs ==
  ASSUME NEW S \in SUBSET Nat, S # {}
  PROVE  First(S) \in S /\ \A j \in S : First(S) <= j
<1>1. \E i \in S : \A j \in S : i <= j
  BY NatMin
<1>2. QED
  BY <1>1 DEF First

\* There is a largest holder, and nobody holds more.
LEMMA LargestIs ==
  ASSUME NEW n \in Nat \ {0}, NEW s \in [1..n -> Nat]
  PROVE  Largest(s) \in 1..n /\ \A j \in 1..n : s[j] <= s[Largest(s)]
<1> DEFINE S == {k \in 0..n : k = 0 \/ \E i \in 1..k : \A j \in 1..k : s[j] <= s[i]}
           Top == {i \in DOMAIN s : \A j \in DOMAIN s : s[j] <= s[i]}
<1>0. DOMAIN s = 1..n /\ \A i \in 1..n : s[i] \in Nat
  OBVIOUS
<1>1. 0 \in S
  OBVIOUS
<1>2. ASSUME NEW k \in 0..(n - 1), k \in S
      PROVE  k + 1 \in S
  <2>1. k + 1 \in 1..n /\ s[k + 1] \in Nat
    OBVIOUS
  <2>2. SUFFICES \E i \in 1..(k + 1) : \A j \in 1..(k + 1) : s[j] <= s[i]
    BY <2>1
  <2>3. CASE k = 0
    BY <2>1, <2>3
  <2>4. CASE k # 0
    <3>1. PICK i \in 1..k : \A j \in 1..k : s[j] <= s[i]
      BY <1>2, <2>4
    <3>2. i \in 1..n /\ s[i] \in Nat
      OBVIOUS
    <3>3. CASE s[k + 1] <= s[i]
      <4>1. \A j \in 1..(k + 1) : s[j] <= s[i]
        BY <3>1, <3>3
      <4>2. QED
        BY <4>1
    <3>4. CASE s[i] <= s[k + 1]
      <4>1. \A j \in 1..(k + 1) : s[j] <= s[k + 1]
        BY <1>0, <2>1, <3>1, <3>2, <3>4
      <4>2. QED
        BY <2>1, <4>1
    <3>5. QED
      BY <2>1, <3>2, <3>3, <3>4
  <2>5. QED
    BY <2>3, <2>4
<1>3. n \in S
  <2> HIDE DEF S
  <2>1. QED
    BY <1>1, <1>2, SumsInd
<1>4. Top # {} /\ Top \in SUBSET Nat
  <2>1. PICK i \in 1..n : \A j \in 1..n : s[j] <= s[i]
    BY <1>3
  <2> HIDE DEF S
  <2>2. i \in Top
    BY <1>0, <2>1
  <2>3. DOMAIN s \subseteq Nat
    BY <1>0
  <2>4. QED
    BY <2>2, <2>3
<1>5. First(Top) \in Top
  <2> HIDE DEF Top
  <2>1. QED
    BY <1>4, FirstIs
<1>6. QED
  BY <1>0, <1>5 DEF Largest

\* t is s after some rounds: everything is still given away, and nobody has more
\* than before or than one layer.
Feeds(n, s, t) ==
  /\ t \in [1..n -> Nat]
  /\ Total(t) = Total(s)
  /\ \A i \in 1..n : t[i] <= s[i] \/ t[i] <= 1

\* t is s with one layer of a's given to b.
Moves(n, s, t, a, b) ==
  /\ s \in [1..n -> Nat] /\ t \in [1..n -> Nat]
  /\ a \in 1..n /\ b \in 1..n /\ a # b
  /\ t[a] + 1 = s[a] /\ t[b] = s[b] + 1
  /\ \A i \in 1..n : i # a /\ i # b => t[i] = s[i]

\* Giving leaves the total as it was.
LEMMA TotalMoved ==
  ASSUME NEW n \in Nat, NEW s, NEW t, NEW a, NEW b, Moves(n, s, t, a, b)
  PROVE  Total(t) = Total(s)
<1>0. /\ s \in [1..n -> Nat] /\ t \in [1..n -> Nat]
      /\ a \in 1..n /\ b \in 1..n /\ a # b
      /\ t[a] + 1 = s[a] /\ t[b] = s[b] + 1
      /\ \A i \in 1..n : i # a /\ i # b => t[i] = s[i]
  BY DEF Moves
<1> DEFINE r == [i \in 1..n |-> IF i = a THEN t[a] ELSE s[i]]
<1>1. /\ r \in [1..n -> Nat] /\ r[a] = t[a] /\ r[b] = s[b]
      /\ \A i \in 1..n : i # a => r[i] = s[i]
      /\ \A i \in 1..n : i # b => t[i] = r[i]
  BY <1>0
<1> HIDE DEF r
<1>2. Total(r) + s[a] = Total(s) + r[a]
  BY <1>0, <1>1, TotalExcept
<1>3. Total(t) + r[b] = Total(r) + t[b]
  BY <1>0, <1>1, TotalExcept
<1>4. Total(t) \in Nat /\ Total(r) \in Nat /\ Total(s) \in Nat
  BY <1>0, <1>1, TotalIs
<1>5. Total(r) + (t[a] + 1) = Total(s) + t[a]
  BY <1>0, <1>1, <1>2
<1>6. Total(t) + s[b] = Total(r) + (s[b] + 1)
  BY <1>0, <1>1, <1>3
<1>7. t[a] \in Nat /\ s[b] \in Nat
  BY <1>0
<1> DEFINE T == Total(t)
           R == Total(r)
           S == Total(s)
           c == t[a]
           d == s[b]
<1>8. T = S
  <2>1. T \in Nat /\ R \in Nat /\ S \in Nat /\ c \in Nat /\ d \in Nat
    BY <1>4, <1>7
  <2>2. R + (c + 1) = S + c /\ T + d = R + (d + 1)
    BY <1>5, <1>6
  <2> HIDE DEF T, R, S, c, d
  <2>3. QED
    BY <2>1, <2>2
<1>9. QED
  BY <1>8

\* As long as there are layers for all, a rank without one is fed by one that
\* has more than one, so that a round feeds a rank for good.
LEMMA FedOnceFeeds ==
  ASSUME NEW n \in Nat \ {0}, NEW s \in [1..n -> Nat], n <= Total(s)
  PROVE  /\ Feeds(n, s, FedOnce(s))
         /\ Starved(s) = {} => FedOnce(s) = s
         /\ Starved(s) # {} =>
              \E i \in Starved(s) : Starved(FedOnce(s)) = Starved(s) \ {i}
<1>0. DOMAIN s = 1..n /\ \A i \in 1..n : s[i] \in Nat
  OBVIOUS
<1>1. CASE Starved(s) = {}
  <2>1. FedOnce(s) = s
    BY <1>1 DEF FedOnce
  <2>2. QED
    BY <1>0, <1>1, <2>1 DEF Feeds
<1>2. CASE Starved(s) # {}
  <2> DEFINE a == Largest(s)
             b == First(Starved(s))
  <2>1. a \in 1..n /\ \A j \in 1..n : s[j] <= s[a]
    BY LargestIs
  <2>2. b \in Starved(s) /\ b \in 1..n /\ s[b] = 0
    <3>1. Starved(s) \in SUBSET Nat
      BY <1>0 DEF Starved
    <3>2. b \in Starved(s)
      BY <1>2, <3>1, FirstIs
    <3>3. QED
      BY <1>0, <3>2 DEF Starved
  <2>3. s[a] > 1
    <3>1. SUFFICES ASSUME s[a] <= 1 PROVE FALSE
      BY <1>0, <2>1
    <3> DEFINE T == {i \in 1..n : s[i] # 0}
               one == [i \in 1..n |-> IF i \in T THEN 1 ELSE 0]
    <3>2. one \in [1..n -> Nat] /\ \A i \in 1..n : s[i] <= one[i]
      BY <1>0, <2>1, <3>1
    <3>3. Total(one) = Cardinality(T)
      BY TotalOnes
    <3>4. Total(s) <= Total(one)
      <4> HIDE DEF one
      <4>1. QED
        BY <3>2, TotalMono
    <3>5. T \in SUBSET (1..n) /\ T # 1..n
      BY <2>2
    <3>6. IsFiniteSet(1..n) /\ Cardinality(1..n) = n
      BY FS_Interval
    <3> HIDE DEF T, one
    <3>a. IsFiniteSet(T) /\ Cardinality(T) <= Cardinality(1..n)
      BY <3>5, <3>6, FS_Subset
    <3>b. Cardinality(T) = Cardinality(1..n) => T = 1..n
      BY <3>5, <3>6, FS_Subset
    <3>7. IsFiniteSet(T) /\ Cardinality(T) <= n /\ Cardinality(T) # n
      BY <3>5, <3>6, <3>a, <3>b
    <3>8. Cardinality(T) \in Nat /\ Total(s) \in Nat
      BY <3>7, FS_CardinalityType, TotalIs
    <3>9. QED
      BY <3>3, <3>4, <3>7, <3>8
  <2>4. FedOnce(s) = [s EXCEPT ![a] = @ - 1, ![b] = @ + 1]
    <3>1. ~(s[a] <= 1)
      BY <1>0, <2>1, <2>3
    <3>2. QED
      BY <1>2, <3>1 DEF FedOnce
  <2>5. a # b
    BY <2>2, <2>3
  <2> DEFINE t == FedOnce(s)
  <2>10. s[a] > 0 /\ s[a] \in Nat
    BY <1>0, <2>1, <2>3
  <2> HIDE DEF a, b
  <2>11. /\ t \in [1..n -> Nat]
         /\ t[b] = 1 /\ t[a] = s[a] - 1
         /\ \A i \in 1..n : i # a /\ i # b => t[i] = s[i]
    BY <1>0, <2>1, <2>2, <2>4, <2>5, <2>10
  <2> HIDE DEF t
  <2>12. Total(t) = Total(s)
    <3>1. t[a] + 1 = s[a] /\ t[b] = s[b] + 1
      BY <2>2, <2>10, <2>11
    <3>2. Moves(n, s, t, a, b)
      BY <2>1, <2>2, <2>5, <2>11, <3>1 DEF Moves
    <3>3. QED
      BY <3>2, TotalMoved
  <2>13. ASSUME NEW i \in 1..n
         PROVE  t[i] <= s[i] \/ t[i] <= 1
    <3>1. s[i] \in Nat
      BY <1>0
    <3>2. CASE i = b
      BY <2>11, <3>2
    <3>3. CASE i = a
      BY <2>10, <2>11, <3>3
    <3>4. CASE i # a /\ i # b
      <4>1. t[i] = s[i]
        BY <2>11, <3>4
      <4>2. QED
        BY <3>1, <4>1
    <3>5. QED
      BY <3>2, <3>3, <3>4
  <2>14. Feeds(n, s, t)
    BY <2>11, <2>12, <2>13 DEF Feeds
  <2>15. Starved(t) = Starved(s) \ {b}
    <3>1. DOMAIN t = 1..n
      BY <2>11
    <3>2. s[a] # 0 /\ t[a] # 0
      BY <1>0, <2>1, <2>3, <2>11
    <3>3. QED
      BY <1>0, <2>11, <3>1, <3>2 DEF Starved
  <2>16. QED
    BY <1>2, <2>2, <2>14, <2>15 DEF t
<1>3. QED
  BY <1>1, <1>2
\* f holds the shares after up to k rounds from s.
RoundsUpTo(f, s, k) ==
  /\ f = [i \in 0..k |-> f[i]]
  /\ f[0] = s
  /\ \A i \in 1..k : f[i] = FedOnce(f[i - 1])

HasRounds(s, k) == \E f : RoundsUpTo(f, s, k)

\* One round more.
LEMMA RoundsExtend ==
  ASSUME NEW s, NEW k \in Nat, HasRounds(s, k)
  PROVE  HasRounds(s, k + 1)
<1>1. PICK f : RoundsUpTo(f, s, k)
  BY DEF HasRounds
<1>2. f[0] = s /\ \A i \in 1..k : f[i] = FedOnce(f[i - 1])
  BY <1>1 DEF RoundsUpTo
<1> DEFINE g == [i \in 0..(k + 1) |-> IF i <= k THEN f[i] ELSE FedOnce(f[k])]
<1>3. g = [i \in 0..(k + 1) |-> g[i]] /\ g[0] = s
  BY <1>2
<1>4. ASSUME NEW i \in 1..(k + 1) PROVE g[i] = FedOnce(g[i - 1])
  <2>1. CASE i <= k
    <3>1. g[i] = f[i] /\ g[i - 1] = f[i - 1]
      BY <2>1
    <3>2. QED
      BY <1>2, <2>1, <3>1
  <2>2. CASE i = k + 1
    <3>1. g[i] = FedOnce(f[k]) /\ g[i - 1] = f[k]
      BY <2>2
    <3>2. QED
      BY <3>1
  <2>3. QED
    BY <2>1, <2>2
<1> HIDE DEF g
<1>5. RoundsUpTo(g, s, k + 1)
  BY <1>3, <1>4 DEF RoundsUpTo
<1>6. QED
  BY <1>5 DEF HasRounds

\* What is fed is what as many rounds as there are ranks make of it.
LEMMA FedIs ==
  ASSUME NEW n \in Nat, NEW s, Len(s) = n
  PROVE  \E f : RoundsUpTo(f, s, n) /\ Fed(s) = f[n]
<1> DEFINE Rounds(f) == f = [i \in 0..n |-> IF i = 0 THEN s ELSE FedOnce(f[i - 1])]
           Good == {k \in Nat : HasRounds(s, k)}
<1>1. 0 \in Good
  <2> DEFINE z == [i \in 0..0 |-> s]
  <2>1. z = [i \in 0..0 |-> z[i]] /\ z[0] = s
    OBVIOUS
  <2> HIDE DEF z
  <2>2. RoundsUpTo(z, s, 0)
    BY <2>1 DEF RoundsUpTo
  <2>3. QED
    BY <2>2 DEF HasRounds
<1>2. ASSUME NEW k \in Nat, k \in Good
      PROVE  k + 1 \in Good
  BY <1>2, RoundsExtend
<1>3. n \in Good
  <2> HIDE DEF Good
  <2>1. QED
    BY <1>1, <1>2, NatAll
<1>4. PICK f : RoundsUpTo(f, s, n)
  BY <1>3 DEF HasRounds
<1>5. Rounds(f)
  <2>1. ASSUME NEW i \in 0..n
        PROVE  f[i] = IF i = 0 THEN s ELSE FedOnce(f[i - 1])
    <3>1. CASE i = 0
      BY <1>4, <3>1 DEF RoundsUpTo
    <3>2. CASE i # 0
      <4>1. i \in 1..n
        BY <3>2
      <4>2. f[i] = FedOnce(f[i - 1])
        BY <1>4, <4>1 DEF RoundsUpTo
      <4>3. QED
        BY <3>2, <4>2
    <3>3. QED
      BY <3>1, <3>2
  <2>2. f = [i \in 0..n |-> f[i]]
    BY <1>4 DEF RoundsUpTo
  <2>3. [i \in 0..n |-> f[i]] = [i \in 0..n |-> IF i = 0 THEN s ELSE FedOnce(f[i - 1])]
    BY <2>1
  <2>4. QED
    BY <2>2, <2>3
<1>6. Fed(s) = (CHOOSE g : Rounds(g))[n]
  BY DEF Fed
<1> DEFINE F == CHOOSE g : Rounds(g)
<1>7. Rounds(F)
  <2> HIDE DEF Rounds
  <2>1. QED
    BY <1>5
<1> HIDE DEF F
<1>8. F = [i \in 0..n |-> IF i = 0 THEN s ELSE FedOnce(F[i - 1])]
  BY <1>7
<1>9. F[0] = s /\ \A i \in 1..n : F[i] = FedOnce(F[i - 1])
  BY <1>8
<1>10. F = [i \in 0..n |-> F[i]]
  BY <1>8
<1>11. RoundsUpTo(F, s, n)
  BY <1>9, <1>10 DEF RoundsUpTo
<1>12. QED
  BY <1>6, <1>11 DEF F

\* After k rounds everyone is fed, or as many as there were rounds.
FedAfter(n, s, k, t) ==
  /\ Feeds(n, s, t)
  /\ Starved(t) = {} \/ Cardinality(Starved(t)) + k <= n

\* A round more feeds one more.
LEMMA FedAfterNext ==
  ASSUME NEW n \in Nat \ {0}, NEW s \in [1..n -> Nat], n <= Total(s),
         NEW k \in Nat, NEW t, FedAfter(n, s, k, t)
  PROVE  FedAfter(n, s, k + 1, FedOnce(t))
<1> DEFINE u == FedOnce(t)
<1>1. /\ t \in [1..n -> Nat] /\ Total(t) = Total(s)
      /\ \A i \in 1..n : t[i] <= s[i] \/ t[i] <= 1
      /\ Starved(t) = {} \/ Cardinality(Starved(t)) + k <= n
  BY DEF FedAfter, Feeds
<1>2. /\ Feeds(n, t, u)
      /\ Starved(t) = {} => u = t
      /\ Starved(t) # {} => \E i \in Starved(t) : Starved(u) = Starved(t) \ {i}
  BY <1>1, FedOnceFeeds
<1> HIDE DEF u
<1>3. /\ u \in [1..n -> Nat] /\ Total(u) = Total(t)
      /\ \A i \in 1..n : u[i] <= t[i] \/ u[i] <= 1
  BY <1>2 DEF Feeds
<1>4. ASSUME NEW i \in 1..n
      PROVE  u[i] <= s[i] \/ u[i] <= 1
  <2>1. s[i] \in Nat /\ t[i] \in Nat /\ u[i] \in Nat
    BY <1>1, <1>3
  <2>2. (t[i] <= s[i] \/ t[i] <= 1) /\ (u[i] <= t[i] \/ u[i] <= 1)
    BY <1>1, <1>3
  <2>3. QED
    BY <2>1, <2>2
<1>5. Feeds(n, s, u)
  BY <1>1, <1>3, <1>4 DEF Feeds
<1>6. Starved(u) = {} \/ Cardinality(Starved(u)) + (k + 1) <= n
  <2>1. CASE Starved(t) = {}
    BY <1>2, <2>1
  <2>2. CASE Starved(t) # {}
    <3>1. PICK i \in Starved(t) : Starved(u) = Starved(t) \ {i}
      BY <1>2, <2>2
    <3>2. IsFiniteSet(Starved(t))
      <4>1. Starved(t) \in SUBSET (1..n)
        BY <1>1 DEF Starved
      <4>2. IsFiniteSet(1..n)
        BY FS_Interval
      <4>3. QED
        BY <4>1, <4>2, FS_Subset
    <3>3. Cardinality(Starved(t)) \in Nat
      BY <3>2, FS_CardinalityType
    <3>4. Cardinality(Starved(t) \ {i}) = Cardinality(Starved(t)) - 1
      BY <3>2, FS_RemoveElement
    <3>5. QED
      BY <1>1, <2>2, <3>1, <3>3, <3>4
  <2>3. QED
    BY <2>1, <2>2
<1>7. QED
  BY <1>5, <1>6 DEF FedAfter, u

\* When there are layers for all, feeding leaves nobody without one.
LEMMA FedFeeds ==
  ASSUME NEW n \in Nat \ {0}, NEW s \in [1..n -> Nat], n <= Total(s)
  PROVE  Feeds(n, s, Fed(s)) /\ Starved(Fed(s)) = {}
<1>1. Len(s) = n
  BY FunIsSeq
<1>2. PICK f : RoundsUpTo(f, s, n) /\ Fed(s) = f[n]
  BY <1>1, FedIs
<1> DEFINE S == {k \in 0..n : FedAfter(n, s, k, f[k])}
<1>3. 0 \in S
  <2>1. f[0] = s
    BY <1>2 DEF RoundsUpTo
  <2>2. Feeds(n, s, s)
    BY DEF Feeds
  <2>3. Cardinality(Starved(s)) + 0 <= n
    <3>1. Starved(s) \in SUBSET (1..n)
      BY DEF Starved
    <3>2. IsFiniteSet(1..n) /\ Cardinality(1..n) = n
      BY FS_Interval
    <3>3. Cardinality(Starved(s)) <= n /\ IsFiniteSet(Starved(s))
      BY <3>1, <3>2, FS_Subset
    <3>4. Cardinality(Starved(s)) \in Nat
      BY <3>3, FS_CardinalityType
    <3>5. QED
      BY <3>3, <3>4
  <2>4. QED
    BY <2>1, <2>2, <2>3 DEF FedAfter
<1>4. ASSUME NEW k \in 0..(n - 1), k \in S
      PROVE  k + 1 \in S
  <2>1. k + 1 \in 1..n /\ (k + 1) - 1 = k /\ k \in Nat
    OBVIOUS
  <2>2. f[k + 1] = FedOnce(f[k])
    BY <1>2, <2>1 DEF RoundsUpTo
  <2>3. FedAfter(n, s, k, f[k])
    BY <1>4
  <2>4. FedAfter(n, s, k + 1, f[k + 1])
    BY <2>1, <2>2, <2>3, FedAfterNext
  <2>5. QED
    BY <2>1, <2>4
<1>5. n \in S
  <2> HIDE DEF S
  <2>1. QED
    BY <1>3, <1>4, SumsInd
<1> DEFINE t == Fed(s)
<1>6. FedAfter(n, s, n, t)
  BY <1>2, <1>5
<1> HIDE DEF t
<1>7. Feeds(n, s, t) /\ (Starved(t) = {} \/ Cardinality(Starved(t)) + n <= n)
  BY <1>6 DEF FedAfter
<1>8. Starved(t) = {}
  <2>1. t \in [1..n -> Nat]
    BY <1>7 DEF Feeds
  <2>2. Starved(t) \in SUBSET (1..n)
    BY <2>1 DEF Starved
  <2>3. IsFiniteSet(Starved(t))
    <3>1. IsFiniteSet(1..n)
      BY FS_Interval
    <3>2. QED
      BY <2>2, <3>1, FS_Subset
  <2>4. Cardinality(Starved(t)) \in Nat
    BY <2>3, FS_CardinalityType
  <2>5. CASE Cardinality(Starved(t)) + n <= n
    <3>1. Cardinality(Starved(t)) = 0
      BY <2>4, <2>5
    <3>2. QED
      BY <2>3, <3>1, FS_EmptySet
  <2>6. QED
    BY <1>7, <2>5
<1>9. QED
  BY <1>7, <1>8 DEF t

-----------------------------------------------------------------------------
(* The apportionment.                                                      *)

\* With at least a layer each, the apportionment gives away every layer, gives
\* everyone one, and gives nobody with capacity a whole layer more than its
\* share of the whole.
THEOREM ApportionIsFair ==
  ASSUME NEW n \in Nat \ {0}, NEW w \in [1..n -> Nat], NEW total \in Nat, n <= total,
         NEW lift \in [1..n -> Nat]
  PROVE  LET shares == Apportion(total, w, lift)
         IN  /\ shares \in [1..n -> Nat \ {0}]
             /\ Total(shares) = total
             /\ \A i \in 1..n :
                  w[i] > 0 => (shares[i] - 1) * Total(w) < total * w[i]
<1> DEFINE S == Total(w)
           s == IF S = 0 THEN Even(total, n) ELSE ByRemainder(total, w, lift)
           t == Fed(s)
<1>1. Len(w) = n
  BY FunIsSeq
<1>2. Apportion(total, w, lift) = t
  BY <1>1 DEF Apportion
<1>3. S \in Nat
  BY TotalIs
<1>4. /\ s \in [1..n -> Nat] /\ Total(s) = total
      /\ S # 0 => \A i \in 1..n : (s[i] - 1) * S < total * w[i]
  <2>1. CASE S = 0
    BY <2>1, EvenIsWhole
  <2>2. CASE S # 0
    <3>1. s = ByRemainder(total, w, lift)
      BY <2>2
    <3>2. /\ ByRemainder(total, w, lift) \in [1..n -> Nat]
          /\ Total(ByRemainder(total, w, lift)) = total
          /\ \A i \in 1..n :
               (ByRemainder(total, w, lift)[i] - 1) * Total(w) < total * w[i]
      <4> HIDE DEF s
      <4>1. n \in Nat /\ Total(w) # 0
        BY <2>2
      <4>2. QED
        BY <4>1, ByRemainderIsWhole
    <3> HIDE DEF s
    <3>3. QED
      BY <3>1, <3>2
  <2>3. QED
    BY <2>1, <2>2
<1> HIDE DEF s
<1>5. Feeds(n, s, t) /\ Starved(t) = {}
  BY <1>4, FedFeeds
<1> HIDE DEF t
<1>6. /\ t \in [1..n -> Nat] /\ Total(t) = total
      /\ \A i \in 1..n : t[i] <= s[i] \/ t[i] <= 1
      /\ \A i \in 1..n : t[i] # 0
  BY <1>4, <1>5 DEF Feeds, Starved
<1>7. t \in [1..n -> Nat \ {0}]
  BY <1>6
<1>8. ASSUME NEW i \in 1..n, w[i] > 0
      PROVE  (t[i] - 1) * S < total * w[i]
  <2> DEFINE x == w[i]
             y == s[i]
             z == t[i]
             p == total * x
  <2>1. x \in Nat /\ x > 0 /\ total > 0 /\ y \in Nat /\ z \in Nat /\ z # 0 /\ (z <= y \/ z <= 1)
    BY <1>4, <1>6, <1>8
  <2>2. x <= S
    BY EntryBelowTotal
  <2>3. S # 0
    BY <1>3, <2>1, <2>2
  <2>4. (y - 1) * S < p
    BY <1>4, <2>3
  <2> SUFFICES (z - 1) * S < p
    OBVIOUS
  <2> HIDE DEF S, x, y, z
  <2>5. p > 0 /\ p \in Nat
    BY <2>1
  <2> HIDE DEF p
  <2>6. CASE z = 1
    BY <1>3, <2>5, <2>6
  <2>7. CASE z <= y /\ z # 1
    <3>1. (z - 1) * S <= (y - 1) * S
      BY <1>3, <2>1, <2>7
    <3>2. (z - 1) * S \in Int /\ (y - 1) * S \in Int
      BY <1>3, <2>1
    <3>3. QED
      BY <2>4, <2>5, <3>1, <3>2
  <2>8. QED
    BY <2>1, <2>6, <2>7
<1>9. QED
  BY <1>2, <1>6, <1>7, <1>8

FairShares(n, w, total, shares) ==
  /\ shares \in [1..n -> Nat \ {0}]
  /\ Total(shares) = total
  /\ \A i \in 1..n : w[i] > 0 => (shares[i] - 1) * Total(w) < total * w[i]

\* ApportionIsFair, in a word.
LEMMA FairlyApportioned ==
  ASSUME NEW n \in Nat \ {0}, NEW w \in [1..n -> Nat], NEW total \in Nat, n <= total,
         NEW lift \in [1..n -> Nat]
  PROVE  FairShares(n, w, total, Apportion(total, w, lift))
<1> DEFINE s == Apportion(total, w, lift)
<1>1. /\ s \in [1..n -> Nat \ {0}]
      /\ Total(s) = total
      /\ \A i \in 1..n : w[i] > 0 => (s[i] - 1) * Total(w) < total * w[i]
  BY ApportionIsFair
<1> HIDE DEF s
<1>2. FairShares(n, w, total, s)
  BY <1>1 DEF FairShares
<1>3. QED
  BY <1>2 DEF s

-----------------------------------------------------------------------------
(* Plans.                                                                  *)

\* A layer is estimated at a byte at least, and all of them at the model's
\* bytes at least.
LEMMA EstimateCovers ==
  ASSUME NEW m \in Model, m.layers # 0
  PROVE  /\ BytesPerLayer(m) \in Nat \ {0}
         /\ m.bytes <= m.layers * BytesPerLayer(m)
<1> DEFINE L == m.layers
           b == m.bytes
           c == b + L - 1
           q == c \div L
<1>1. L \in Nat \ {0} /\ b \in Nat \ {0} /\ c = b + L - 1 /\ BytesPerLayer(m) = q
  BY DEF Model, BytesPerLayer
<1> HIDE DEF L, b, c
<1>2. c \in Nat /\ c >= L
  BY <1>1
<1>3. q \in Nat /\ c % L \in 0..(L - 1) /\ c = L * q + (c % L)
  BY <1>1, <1>2, Division
<1> HIDE DEF q
<1>4. q # 0
  <2>1. SUFFICES ASSUME q = 0 PROVE FALSE
    OBVIOUS
  <2>2. L * q = 0
    BY <1>1, <2>1
  <2>3. QED
    BY <1>1, <1>2, <1>3, <2>2
<1> DEFINE p == L * q
           r == c % L
<1>5. p \in Nat /\ r \in 0..(L - 1) /\ c = p + r
  BY <1>1, <1>3
<1> HIDE DEF p, r
<1>6. b <= p
  BY <1>1, <1>5
<1>7. QED
  BY <1>1, <1>3, <1>4, <1>6 DEF p, L, b

\* The shares of a plan, with the capacities they were made from.
IsPlanFor(plan, m, members, usable, e, lift, n, cap, shares) ==
  /\ cap = [i \in 1..n |-> Capacity(usable[members[i]], m)]
  /\ shares = Apportion(m.layers, cap, lift)
  /\ \A i \in 1..n : BytesFor(m, shares[i]) <= usable[members[i]]
  /\ plan.outcome = "plan" /\ plan.epoch = e /\ plan.model = m
  /\ plan.assignments =
       [i \in 1..n |-> [node       |-> members[i],
                        startLayer |-> Sums(shares)[i - 1],
                        endLayer   |-> Sums(shares)[i - 1] + shares[i]]]

\* Every rank but the last has one after it.
LEMMA NextPlace ==
  ASSUME NEW n \in Nat, NEW i \in 1..(n - 1)
  PROVE  i \in 1..n /\ i + 1 \in 1..n /\ (i + 1) - 1 = i
  OBVIOUS

\* What is handed out as a plan has passed every check.
LEMMA PlannedIsPlan ==
  ASSUME NEW n \in Nat, NEW N, NEW members \in [1..n -> N], NEW usable,
         NEW m \in Model, NEW e, NEW lift,
         Planned(m, members, usable, e, lift).outcome = "plan"
  PROVE  /\ n # 0 /\ n <= m.layers
         /\ \E cap, shares : IsPlanFor(Planned(m, members, usable, e, lift),
                                       m, members, usable, e, lift, n, cap, shares)
<1> DEFINE cap == [i \in 1..n |-> Capacity(usable[members[i]], m)]
           shares == Apportion(m.layers, cap, lift)
           fits == \A i \in 1..n : BytesFor(m, shares[i]) <= usable[members[i]]
           good == [outcome     |-> "plan",
                    epoch       |-> e,
                    model       |-> m,
                    assignments |->
                      [i \in 1..n |->
                         [node       |-> members[i],
                          startLayer |-> Sums(shares)[i - 1],
                          endLayer   |-> Sums(shares)[i - 1] + shares[i]]]]
           plan == Planned(m, members, usable, e, lift)
<1>1. Len(members) = n /\ DOMAIN members = 1..n /\ members \in Seq(N)
  BY FunIsSeq
<1>2. plan =
        CASE members = << >>     -> Failed("noEligibleNodes")
          [] Len(members) > m.layers -> Failed("moreNodesThanLayers")
          [] members # << >> /\ Len(members) <= m.layers /\ Total(cap) < m.bytes
                                 -> Failed("insufficientAggregateMemory")
          [] OTHER -> IF ~fits THEN Failed("nodeCannotFitShard") ELSE good
  BY <1>1 DEF Planned, Capacities
<1>3. plan.outcome = "plan"
  OBVIOUS
<1>4. \A error : Failed(error).outcome = error
  BY DEF Failed
<1>5. good.outcome = "plan" /\ good.epoch = e /\ good.model = m
  OBVIOUS
<1>6. n # 0 /\ n <= m.layers /\ fits /\ plan = good
  <2> HIDE DEF plan, good, fits, cap
  <2>1. m.layers \in Nat
    BY DEF Model
  <2>2. members = << >> \/ n # 0
    BY <1>1, EmptySeq
  <2>3. CASE members = << >>
    BY <1>2, <1>3, <1>4, <2>3
  <2>4. CASE members # << >> /\ Len(members) > m.layers
    <3>1. plan = Failed("moreNodesThanLayers")
      BY <1>1, <1>2, <2>1, <2>4
    <3>2. QED
      BY <1>3, <1>4, <3>1
  <2>5. CASE members # << >> /\ Len(members) <= m.layers /\ Total(cap) < m.bytes
    <3>1. plan = Failed("insufficientAggregateMemory")
      BY <1>1, <1>2, <2>1, <2>5
    <3>2. QED
      BY <1>3, <1>4, <3>1
  <2>6. CASE /\ members # << >> /\ ~(Len(members) > m.layers)
             /\ ~(Len(members) <= m.layers /\ Total(cap) < m.bytes)
    <3>1. plan = IF ~fits THEN Failed("nodeCannotFitShard") ELSE good
      BY <1>2, <2>6
    <3>2. fits /\ plan = good
      BY <1>3, <1>4, <3>1
    <3>3. QED
      BY <1>1, <2>1, <2>2, <2>6, <3>2
  <2>7. QED
    BY <1>1, <2>1, <2>3, <2>4, <2>5, <2>6
<1>7. IsPlanFor(plan, m, members, usable, e, lift, n, cap, shares)
  <2> HIDE DEF plan
  <2>1. QED
    BY <1>5, <1>6 DEF IsPlanFor
<1>8. QED
  BY <1>6, <1>7

\* A plan names the members it was made for in their order and the epoch it was
\* asked for, covers its model, fits every node, and is within everyone's share.
THEOREM PlanIsSound ==
  ASSUME NEW n \in Nat, NEW N, NEW members \in [1..n -> N],
         NEW usable \in [N -> Nat], NEW m \in Model, NEW e,
         NEW lift \in [1..n -> Nat],
         Planned(m, members, usable, e, lift).outcome = "plan"
  PROVE  LET plan == Planned(m, members, usable, e, lift)
         IN  /\ plan.epoch = e
             /\ DOMAIN plan.assignments = 1..n
             /\ \A i \in 1..n : plan.assignments[i].node = members[i]
             /\ CoversModel(plan)
             /\ FitsEveryNode(plan, usable)
             /\ WithinEntitlement(plan, usable)
<1> DEFINE plan == Planned(m, members, usable, e, lift)
           as == plan.assignments
           L == m.layers
<1>0. n # 0 /\ n <= L
  BY PlannedIsPlan
<1>1. PICK cap, shares : IsPlanFor(plan, m, members, usable, e, lift, n, cap, shares)
  BY PlannedIsPlan
<1> HIDE DEF plan
<1>2. /\ cap = [i \in 1..n |-> Capacity(usable[members[i]], m)]
      /\ shares = Apportion(L, cap, lift)
      /\ \A i \in 1..n : BytesFor(m, shares[i]) <= usable[members[i]]
      /\ plan.epoch = e /\ plan.model = m
  BY <1>1 DEF IsPlanFor
<1>3. as = [i \in 1..n |-> [node       |-> members[i],
                            startLayer |-> Sums(shares)[i - 1],
                            endLayer   |-> Sums(shares)[i - 1] + shares[i]]]
  BY <1>1 DEF IsPlanFor
<1>4. L \in Nat /\ m.bytes \in Nat \ {0} /\ m.overhead \in Nat
  BY DEF Model
<1>5. \A i \in 1..n : usable[members[i]] \in Nat
  OBVIOUS
<1>6. cap \in [1..n -> Nat]
  <2>1. \A i \in 1..n : Capacity(usable[members[i]], m) \in Nat
    BY <1>4, <1>5 DEF Capacity
  <2>2. QED
    BY <1>2, <2>1
<1>7. /\ shares \in [1..n -> Nat \ {0}] /\ Total(shares) = L
      /\ \A i \in 1..n : cap[i] > 0 => (shares[i] - 1) * Total(cap) < L * cap[i]
  <2>1. n \in Nat \ {0}
    BY <1>0
  <2> HIDE DEF L
  <2> DEFINE s == Apportion(L, cap, lift)
  <2>2. /\ s \in [1..n -> Nat \ {0}] /\ Total(s) = L
        /\ \A i \in 1..n : cap[i] > 0 => (s[i] - 1) * Total(cap) < L * cap[i]
    <3>1. FairShares(n, cap, L, s)
      BY <1>0, <1>4, <1>6, <2>1, FairlyApportioned
    <3>2. QED
      BY <3>1 DEF FairShares
  <2>3. shares = s
    BY <1>2
  <2> HIDE DEF s
  <2>4. QED
    BY <2>2, <2>3
<1>8. shares \in [1..n -> Nat] /\ \A i \in 1..n : shares[i] \in Nat \ {0}
  BY <1>7
<1> DEFINE sum == Sums(shares)
<1>9. /\ sum \in [0..n -> Nat] /\ sum[0] = 0
      /\ \A i \in 1..n : sum[i] = sum[i - 1] + shares[i]
  BY <1>8, SumsAre DEF SumsUpTo
<1>10. sum[n] = L
  BY <1>7, <1>8, TotalIs
<1> HIDE DEF sum
<1>11. ASSUME NEW i \in 1..n
       PROVE  /\ as[i].node = members[i]
              /\ as[i].startLayer = sum[i - 1] /\ as[i].endLayer = sum[i]
              /\ sum[i - 1] \in Nat /\ sum[i] \in Nat
              /\ Share(as[i]) = shares[i]
  <2>1. /\ as[i].node = members[i]
        /\ as[i].startLayer = sum[i - 1] /\ as[i].endLayer = sum[i - 1] + shares[i]
    BY <1>3 DEF sum
  <2>2. i - 1 \in 0..n /\ i \in 0..n
    OBVIOUS
  <2>3. sum[i - 1] \in Nat /\ sum[i] \in Nat /\ shares[i] \in Nat
    BY <1>8, <1>9, <2>2
  <2>4. sum[i] = sum[i - 1] + shares[i]
    BY <1>9
  <2>5. QED
    BY <2>1, <2>3, <2>4 DEF Share
<1>12. DOMAIN as = 1..n /\ Len(as) = n /\ as # << >>
  <2>1. as \in [1..n -> {as[i] : i \in 1..n}]
    BY <1>3
  <2>2. Len(as) = n /\ DOMAIN as = 1..n
    BY <2>1, FunIsSeq
  <2>3. QED
    BY <1>0, <2>2
<1> HIDE DEF as
<1>13. CoversModel(plan)
  <2>1. as[1].startLayer = 0 /\ as[n].endLayer = L
    <3>1. 1 \in 1..n /\ n \in 1..n /\ 1 - 1 = 0
      BY <1>0
    <3>2. as[1].startLayer = sum[1 - 1] /\ as[n].endLayer = sum[n]
      BY <1>11, <3>1
    <3>3. QED
      BY <1>9, <1>10, <3>1, <3>2
  <2>2. ASSUME NEW i \in 1..(n - 1)
        PROVE  as[i].endLayer = as[i + 1].startLayer
    <3>1. i \in 1..n /\ i + 1 \in 1..n /\ (i + 1) - 1 = i
      BY NextPlace
    <3>2. QED
      BY <1>11, <3>1
  <2>3. ASSUME NEW i \in 1..n
        PROVE  as[i].startLayer < as[i].endLayer
    <3> DEFINE a == sum[i - 1]
               b == sum[i]
               c == shares[i]
    <3>1. /\ a \in Nat /\ b \in Nat /\ c \in Nat \ {0} /\ b = a + c
          /\ as[i].startLayer = a /\ as[i].endLayer = b
      BY <1>8, <1>9, <1>11
    <3> HIDE DEF a, b, c
    <3>2. QED
      BY <3>1
  <2>4. QED
    BY <1>2, <1>12, <2>1, <2>2, <2>3 DEF CoversModel, as
<1>14. FitsEveryNode(plan, usable)
  <2>1. ASSUME NEW i \in 1..n
        PROVE  shares[i] * m.bytes <= (usable[members[i]] - m.overhead) * L
    <3> DEFINE q == BytesPerLayer(m)
               b == m.bytes
               u == usable[members[i]]
               v == m.overhead
               k == shares[i]
    <3>1. q \in Nat \ {0} /\ b <= L * q
      BY <1>0, <1>4, EstimateCovers
    <3>2. k * q + v <= u
      BY <1>2 DEF BytesFor
    <3>3. k \in Nat /\ b \in Nat /\ v \in Nat /\ u \in Nat /\ L \in Nat
      BY <1>4, <1>5, <1>8
    <3> SUFFICES k * b <= (u - v) * L
      OBVIOUS
    <3> HIDE DEF q, b, u, v, k, L
    <3>4. k * b <= k * (L * q)
      BY <3>1, <3>3
    <3>5. k * (L * q) = (k * q) * L
      BY <3>1, <3>3
    <3> DEFINE p == k * q
    <3>6. p \in Nat /\ p <= u - v
      BY <3>1, <3>2, <3>3
    <3>7. k * b <= p * L
      BY <3>4, <3>5
    <3>8. k * b \in Nat
      BY <3>3
    <3> HIDE DEF p
    <3>9. p * L <= (u - v) * L
      BY <3>3, <3>6
    <3>10. p * L \in Nat /\ (u - v) * L \in Int
      BY <3>3, <3>6
    <3> DEFINE x == k * b
               y == p * L
               z == (u - v) * L
    <3> HIDE DEF x, y, z
    <3>11. x <= z
      BY <3>7, <3>8, <3>9, <3>10 DEF x, y, z
    <3>12. QED
      BY <3>11 DEF x, z
  <2>2. QED
    <3>1. plan.model = m /\ \A i \in 1..n : as[i].node = members[i]
      BY <1>2, <1>11
    <3>2. ASSUME NEW i \in 1..n
          PROVE  Share(as[i]) * m.bytes <= (usable[as[i].node] - m.overhead) * L
      <4>1. Share(as[i]) = shares[i] /\ as[i].node = members[i]
        BY <1>11
      <4>2. shares[i] * m.bytes <= (usable[members[i]] - m.overhead) * L
        BY <2>1
      <4> HIDE DEF L
      <4>3. QED
        BY <4>1, <4>2
    <3>3. QED
      BY <1>12, <3>1, <3>2 DEF FitsEveryNode, as
<1>15. WithinEntitlement(plan, usable)
  <2>1. ASSUME NEW i \in 1..n
        PROVE  Capacity(usable[as[i].node], m) = cap[i]
    BY <1>2, <1>11
  <2>2. [i \in 1..n |-> Capacity(usable[as[i].node], m)] = cap
    BY <1>6, <2>1
  <2>3. ASSUME NEW i \in 1..n
        PROVE  cap[i] > 0
    <3> DEFINE u == usable[members[i]]
               b == shares[i] * BytesPerLayer(m)
    <3>1. BytesPerLayer(m) \in Nat \ {0}
      BY <1>0, <1>4, EstimateCovers
    <3>2. b \in Nat \ {0}
      BY <1>8, <3>1
    <3>3. b + m.overhead <= u /\ u \in Nat
      BY <1>2, <1>5 DEF BytesFor
    <3>4. cap[i] = Capacity(u, m)
      BY <1>2
    <3> HIDE DEF u, b
    <3>5. u > m.overhead
      BY <1>4, <3>2, <3>3
    <3>6. QED
      BY <1>4, <3>3, <3>4, <3>5 DEF Capacity
  <2>4. \A i \in 1..n : (Share(as[i]) - 1) * Total(cap) < L * cap[i]
    BY <1>7, <1>11, <2>3
  <2>5. QED
    BY <1>2, <1>12, <2>1, <2>2, <2>4 DEF WithinEntitlement, as
<1>16. QED
  BY <1>2, <1>11, <1>12, <1>13, <1>14, <1>15 DEF plan, as
=============================================================================
