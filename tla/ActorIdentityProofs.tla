------------------------- MODULE ActorIdentityProofs -------------------------
(***************************************************************************)
(* ActorIdentity, for every arc, threshold, cap and set of torrents: the    *)
(* caps on exemplars, the evidence no analysis takes back, and the          *)
(* evaluation, proved along the loops of the code.                          *)
(*                                                                         *)
(* The loops are folds, so a fact about one is an induction.  The library's *)
(* induction theorems take the fact as an operator, which no prover here    *)
(* can instantiate; Induction takes it as a set instead, and FoldExists     *)
(* derives from it that a fold whose steps stay in a set has values there.  *)
(* A hypothesis such a lemma is given about a function or an order has a    *)
(* name (Follows, Orders, Lists), for the provers to match.                 *)
(***************************************************************************)
EXTENDS ActorIdentity, FiniteSetTheorems, FunctionTheorems, SequenceTheorems,
        WellFoundedInduction, TLAPS

-----------------------------------------------------------------------------
(***************************************************************************)
(* Induction over an interval, by the least number at which it would fail.  *)
(***************************************************************************)

\* What holds of 0 and goes from each number to the next holds up to n.
LEMMA Induction ==
    ASSUME NEW n \in Nat, NEW S, 0 \in S, \A i \in 0 .. n - 1 : i \in S => i + 1 \in S
    PROVE  0 .. n \subseteq S
  <1> DEFINE R == OpToRel(<, Nat)
             T == (0 .. n) \ S
  <1> SUFFICES ASSUME T # {} PROVE FALSE
    OBVIOUS
  <1>1. PICK x \in T : \A y \in T : <<y, x>> \notin R
    <2>1. IsWellFoundedOn(R, Nat)
      BY NatLessThanWellFounded
    <2>2. T \subseteq Nat
      OBVIOUS
    <2> HIDE DEF R, T
    <2> QED BY <2>1, <2>2, WFMin
  <1>2. x - 1 \in 0 .. n - 1
    OBVIOUS
  <1>3. <<x - 1, x>> \in R
    BY <1>2 DEF OpToRel
  <1>4. x - 1 \notin T
    BY <1>1, <1>3
  <1> QED BY <1>2, <1>4

\* A loop whose steps stay in a set stays in it.
LEMMA EachStepIn ==
    ASSUME NEW n \in Nat, NEW D, NEW g, g[0] \in D,
           \A i \in 1 .. n : g[i - 1] \in D => g[i] \in D
    PROVE  \A i \in 0 .. n : g[i] \in D
  <1> DEFINE S == {i \in 0 .. n : g[i] \in D}
  <1>1. 0 \in S /\ \A i \in 0 .. n - 1 : i \in S => i + 1 \in S
    OBVIOUS
  <1>2. 0 .. n \subseteq S
    <2> HIDE DEF S
    <2> QED BY <1>1, Induction
  <1> QED BY <1>2

\* The values of a fold.
Follows(g, base, step, s) ==
    g[0] = base /\ \A i \in 1 .. Len(s) : g[i] = step[<<g[i - 1], s[i]>>]

\* A fold whose steps stay in a set is well defined.
LEMMA FoldExists ==
    ASSUME NEW D, NEW E, NEW s \in Seq(E), NEW base \in D, NEW step \in [D \X E -> D]
    PROVE  \E g \in [0 .. Len(s) -> D] : Follows(g, base, step, s)
  <1> DEFINE n == Len(s)
             Eq(g, m) == g = [i \in 0 .. m |-> IF i = 0 THEN base ELSE step[<<g[i - 1], s[i]>>]]
             S == {m \in 0 .. n : \E g \in [0 .. m -> D] : Eq(g, m)}
  <1>0. n \in Nat /\ \A i \in 1 .. n : s[i] \in E
    OBVIOUS
  <1>1. 0 \in S
    <2> DEFINE g == [i \in 0 .. 0 |-> base]
    <2>1. g \in [0 .. 0 -> D] /\ Eq(g, 0)
      OBVIOUS
    <2> HIDE DEF g, Eq
    <2> QED BY <1>0, <2>1
  <1>2. ASSUME NEW m \in 0 .. n - 1, m \in S PROVE m + 1 \in S
    <2>1. PICK g \in [0 .. m -> D] : Eq(g, m)
      BY <1>2
    <2> DEFINE h == [i \in 0 .. m + 1 |-> IF i <= m THEN g[i] ELSE step[<<g[m], s[m + 1]>>]]
    <2>2. s[m + 1] \in E
      BY <1>0
    <2>3. h \in [0 .. m + 1 -> D]
      BY <2>2
    <2>4. ASSUME NEW i \in 0 .. m + 1
          PROVE  h[i] = IF i = 0 THEN base ELSE step[<<h[i - 1], s[i]>>]
      <3>1. CASE i = m + 1
        <4>1. m \in 0 .. m + 1 /\ h[m] = g[m] /\ i - 1 = m /\ i # 0
          BY <3>1
        <4> QED BY <3>1, <4>1
      <3>2. CASE i \in 0 .. m
        BY <3>2, <2>1
      <3> QED BY <3>1, <3>2
    <2>5. Eq(h, m + 1)
      BY <2>4
    <2>6. m + 1 \in 0 .. n
      BY <1>0
    <2> HIDE DEF h, Eq
    <2> QED BY <2>3, <2>5, <2>6
  <1>3. n \in S
    <2> HIDE DEF S
    <2>1. 0 .. n \subseteq S
      BY <1>0, <1>1, <1>2, Induction
    <2> QED BY <1>0, <2>1
  <1>4. PICK g \in [0 .. n -> D] : Eq(g, n)
    BY <1>3
  <1>5. g[0] = base /\ \A i \in 1 .. n : g[i] = step[<<g[i - 1], s[i]>>]
    BY <1>0, <1>4
  <1> QED BY <1>4, <1>5 DEF Follows
-----------------------------------------------------------------------------
(***************************************************************************)
(* Sorting by rank.                                                        *)
(***************************************************************************)

\* Those before x: how many they are is its rank.
Below(x, R, S) == {y \in S : <<y, x>> \in R}

\* A strict total order of the set.
Orders(R, S) ==
    /\ \A x \in S : <<x, x>> \notin R
    /\ \A x, y \in S : <<x, y>> \in R \/ <<y, x>> \in R \/ x = y
    /\ \A x, y, z \in S : <<x, y>> \in R /\ <<y, z>> \in R => <<x, z>> \in R

\* In a finite set with a strict total order every rank is somebody's, only one's.
LEMMA Ranks ==
    ASSUME NEW S, IsFiniteSet(S), NEW R, Orders(R, S)
    PROVE  /\ \A x \in S : Cardinality(Below(x, R, S)) \in 0 .. Cardinality(S) - 1
           /\ \A x, y \in S : <<x, y>> \in R <=>
                Cardinality(Below(x, R, S)) < Cardinality(Below(y, R, S))
           /\ \A k \in 1 .. Cardinality(S) : \E x \in S : Cardinality(Below(x, R, S)) = k - 1
  <1> DEFINE n == Cardinality(S)
             rank == [x \in S |-> Cardinality(Below(x, R, S)) + 1]
  <1>1. n \in Nat
    BY FS_CardinalityType
  <1>2. ASSUME NEW x \in S
        PROVE  /\ IsFiniteSet(Below(x, R, S)) /\ Cardinality(Below(x, R, S)) \in 0 .. n - 1
    <2>1. Below(x, R, S) \in SUBSET S /\ x \notin Below(x, R, S)
      BY DEF Below, Orders
    <2>2. IsFiniteSet(Below(x, R, S)) /\ Cardinality(Below(x, R, S)) <= n /\
          (n = Cardinality(Below(x, R, S)) => S = Below(x, R, S))
      BY <2>1, FS_Subset
    <2>3. Cardinality(Below(x, R, S)) \in Nat
      BY <2>2, FS_CardinalityType
    <2> QED BY <1>1, <2>1, <2>2, <2>3
  <1>3. ASSUME NEW x \in S, NEW y \in S, <<x, y>> \in R
        PROVE  Cardinality(Below(x, R, S)) < Cardinality(Below(y, R, S))
    <2>1. Below(x, R, S) \in SUBSET Below(y, R, S) /\ x \in Below(y, R, S) /\ x \notin Below(x, R, S)
      BY <1>3 DEF Below, Orders
    <2>2. Cardinality(Below(x, R, S)) <= Cardinality(Below(y, R, S)) /\
          (Cardinality(Below(y, R, S)) = Cardinality(Below(x, R, S)) => Below(y, R, S) = Below(x, R, S))
      BY <1>2, <2>1, FS_Subset
    <2> QED BY <1>2, <2>1, <2>2
  <1>4. ASSUME NEW x \in S, NEW y \in S
        PROVE  <<x, y>> \in R <=> Cardinality(Below(x, R, S)) < Cardinality(Below(y, R, S))
    <2>1. Cardinality(Below(x, R, S)) \in Int /\ Cardinality(Below(y, R, S)) \in Int
      BY <1>2
    <2>2. CASE <<x, y>> \in R
      BY <1>3, <2>2
    <2>3. CASE <<y, x>> \in R
      <3>1. Cardinality(Below(y, R, S)) < Cardinality(Below(x, R, S))
        BY <1>3, <2>3
      <3>2. <<x, y>> \notin R
        BY <2>3 DEF Orders
      <3> QED BY <2>1, <3>1, <3>2
    <2>4. CASE x = y
      BY <2>1, <2>4 DEF Orders
    <2> QED BY <2>2, <2>3, <2>4 DEF Orders
  <1>5. ASSUME NEW k \in 1 .. n PROVE \E x \in S : Cardinality(Below(x, R, S)) = k - 1
    <2>1. rank \in [S -> 1 .. n]
      BY <1>1, <1>2
    <2>2. ASSUME NEW x \in S, NEW y \in S, rank[x] = rank[y] PROVE x = y
      <3>1. Cardinality(Below(x, R, S)) = Cardinality(Below(y, R, S))
        BY <1>2, <2>2
      <3>2. <<x, y>> \notin R /\ <<y, x>> \notin R
        BY <1>2, <1>4, <3>1
      <3> QED BY <3>2 DEF Orders
    <2>3. rank \in Injection(S, 1 .. n)
      <3> HIDE DEF rank
      <3> QED BY <2>1, <2>2 DEF Injection, IsInjective
    <2>4. IsFiniteSet(1 .. n) /\ Cardinality(1 .. n) = n
      BY <1>1, FS_Interval
    <2>5. rank \in Surjection(S, 1 .. n)
      <3> HIDE DEF rank
      <3> QED BY <2>3, <2>4, FS_Injection
    <2>6. PICK x \in S : rank[x] = k
      <3> HIDE DEF rank
      <3> QED BY <2>5 DEF Surjection
    <2> QED BY <1>2, <2>6
  <1> QED BY <1>2, <1>4, <1>5

\* The sequence has in its k-th place the one of rank k - 1.
Lists(q, R, S) ==
    /\ q \in [1 .. Cardinality(S) -> S]
    /\ \A k \in 1 .. Cardinality(S) : Cardinality(Below(q[k], R, S)) = k - 1

\* A sequence that lists a set by rank is the set in order.
LEMMA RankedSequence ==
    ASSUME NEW S, IsFiniteSet(S), NEW R, Orders(R, S), NEW q, Lists(q, R, S)
    PROVE  /\ q \in Seq(S) /\ Len(q) = Cardinality(S) /\ Cardinality(S) \in Nat
           /\ \A i, j \in 1 .. Len(q) : i < j <=> <<q[i], q[j]>> \in R
           /\ \A x \in S : \E k \in 1 .. Len(q) : q[k] = x
  <1> DEFINE n == Cardinality(S)
  <1>1. n \in Nat
    BY FS_CardinalityType
  <1>2. q \in [1 .. n -> S] /\ \A k \in 1 .. n : Cardinality(Below(q[k], R, S)) = k - 1
    BY DEF Lists
  <1>3. q \in Seq(S) /\ Len(q) = n
    BY <1>1, <1>2
  <1>4. ASSUME NEW x \in S PROVE \E k \in 1 .. n : q[k] = x
    <2>1. PICK k \in 1 .. n : k - 1 = Cardinality(Below(x, R, S))
      <3> DEFINE m == Cardinality(Below(x, R, S))
      <3>1. m \in 0 .. n - 1
        BY Ranks
      <3>2. m + 1 \in 1 .. n /\ (m + 1) - 1 = m
        BY <1>1, <3>1
      <3> QED BY <3>2
    <2>2. q[k] \in S /\ Cardinality(Below(q[k], R, S)) = Cardinality(Below(x, R, S))
      BY <1>2, <2>1
    <2>3. <<q[k], x>> \notin R /\ <<x, q[k]>> \notin R
      BY <2>2, Ranks
    <2> QED BY <2>2, <2>3 DEF Orders
  <1>5. ASSUME NEW i \in 1 .. n, NEW j \in 1 .. n PROVE i < j <=> <<q[i], q[j]>> \in R
    <2>1. /\ q[i] \in S /\ Cardinality(Below(q[i], R, S)) = i - 1
          /\ q[j] \in S /\ Cardinality(Below(q[j], R, S)) = j - 1
      BY <1>2
    <2> QED BY <1>1, <2>1, Ranks
  <1> QED BY <1>1, <1>3, <1>4, <1>5

\* A set of integers in order.
LEMMA AscendingSorts ==
    ASSUME NEW S \in SUBSET Int, IsFiniteSet(S)
    PROVE  /\ Ascending(S) \in Seq(S) /\ Len(Ascending(S)) = Cardinality(S)
           /\ \A i, j \in 1 .. Len(Ascending(S)) : i < j <=> Ascending(S)[i] < Ascending(S)[j]
           /\ \A x \in S : \E k \in 1 .. Len(Ascending(S)) : Ascending(S)[k] = x
  <1> DEFINE R == {p \in S \X S : p[1] < p[2]}
             q == Ascending(S)
  <1>1. Orders(R, S)
    BY DEF Orders
  <1>2. ASSUME NEW x \in S PROVE Below(x, R, S) = {y \in S : y < x}
    BY DEF Below
  <1>3. q = [k \in 1 .. Cardinality(S) |-> CHOOSE x \in S : Cardinality({y \in S : y < x}) = k - 1]
    BY DEF Ascending, Sorted
  <1>4. ASSUME NEW k \in 1 .. Cardinality(S)
        PROVE  q[k] \in S /\ Cardinality(Below(q[k], R, S)) = k - 1
    <2>1. PICK x \in S : Cardinality(Below(x, R, S)) = k - 1
      <3> HIDE DEF R, q
      <3> QED BY <1>1, Ranks
    <2>2. Cardinality({y \in S : y < x}) = k - 1
      BY <1>2, <2>1
    <2>3. q[k] \in S /\ Cardinality({y \in S : y < q[k]}) = k - 1
      <3> HIDE DEF q
      <3> QED BY <1>3, <2>2
    <2> HIDE DEF R, q
    <2> QED BY <1>2, <2>3
  <1>5. Lists(q, R, S)
    BY <1>3, <1>4 DEF Lists
  <1>6. \A x, y \in S : <<x, y>> \in R <=> x < y
    OBVIOUS
  <1> HIDE DEF R, q
  <1>7. /\ q \in Seq(S) /\ Len(q) = Cardinality(S) /\ Cardinality(S) \in Nat
        /\ \A i, j \in 1 .. Len(q) : i < j <=> <<q[i], q[j]>> \in R
        /\ \A x \in S : \E k \in 1 .. Len(q) : q[k] = x
    BY <1>1, <1>5, RankedSequence
  <1>8. \A i \in 1 .. Len(q) : q[i] \in S
    BY <1>7
  <1>9. \A i, j \in 1 .. Len(q) : i < j <=> q[i] < q[j]
    BY <1>6, <1>7, <1>8
  <1> QED BY <1>7, <1>9 DEF q

\* What passes a test is a sequence of the same elements.
LEMMA PassingIn ==
    ASSUME NEW C, NEW s \in Seq(C), NEW T \in SUBSET DOMAIN s
    PROVE  [k \in DOMAIN Ascending(T) |-> s[Ascending(T)[k]]] \in Seq(C)
  <1>1. IsFiniteSet(T) /\ T \in SUBSET Int
    <2>1. DOMAIN s = 1 .. Len(s) /\ Len(s) \in Nat
      OBVIOUS
    <2>2. IsFiniteSet(1 .. Len(s))
      BY <2>1, FS_Interval
    <2> QED BY <2>1, <2>2, FS_Subset
  <1>2. Ascending(T) \in Seq(T)
    BY <1>1, AscendingSorts
  <1> DEFINE n == Len(Ascending(T))
  <1>3. n \in Nat /\ DOMAIN Ascending(T) = 1 .. n /\ \A k \in 1 .. n : Ascending(T)[k] \in T
    BY <1>2
  <1>4. \A k \in T : s[k] \in C
    OBVIOUS
  <1>5. [k \in 1 .. n |-> s[Ascending(T)[k]]] \in [1 .. n -> C]
    BY <1>3, <1>4
  <1> QED BY <1>3, <1>5, SeqDef

\* The library takes a minimum of a set.
LEMMA MinOfTwo ==
    ASSUME NEW a \in Int, NEW b \in Int
    PROVE  Min({a, b}) = IF a <= b THEN a ELSE b
  BY DEF Min

\* And a maximum.
LEMMA MaxOfTwo ==
    ASSUME NEW a \in Int, NEW b \in Int
    PROVE  Max({a, b}) = IF a >= b THEN a ELSE b
  BY DEF Max
-----------------------------------------------------------------------------
(***************************************************************************)
(* Clusters.                                                               *)
(***************************************************************************)

\* A cluster of faces has a face.
FaceCluster == Seq(Face) \ {<<>>}

\* The assumption, for the bounds the steps use.
LEMMA Constants ==
    /\ Arc \in Nat /\ Quality \in Nat \ {0} /\ MaxMain \in Nat \ {0}
    /\ PerActor \in Nat \ {0} /\ PerTorrent \in Nat \ {0} /\ MaxFaces \in Nat
  BY IdentityAssumption

\* A sum of qualities is a number.
LEMMA QualitiesNat ==
    ASSUME NEW c \in Seq(Face)
    PROVE  Qualities(c) \in Nat
  <1> DEFINE D == Nat
             E == Face
             n == Len(c)
             step == [x \in D \X E |-> x[1] + x[2].quality]
             Eq(g) == g = [i \in 0 .. Len(c) |-> IF i = 0 THEN 0 ELSE g[i - 1] + c[i].quality]
             fold == CHOOSE g : Eq(g)
  <1>1. Qualities(c) = fold[n]
    BY DEF Qualities, Total, Folded
  <1>2. n \in Nat /\ c \in Seq(E) /\ \A i \in 1 .. n : c[i] \in E
    OBVIOUS
  <1>3. 0 \in D /\ \A a \in D, x \in E : a + x.quality \in D
    BY Constants DEF Face
  <1> HIDE DEF D, E
  <1>4. \E g : Eq(g)
    <2>1. step \in [D \X E -> D]
      BY <1>3
    <2>2. PICK g \in [0 .. n -> D] : Follows(g, 0, step, c)
      <3> HIDE DEF step
      <3> QED BY <1>2, <1>3, <2>1, FoldExists
    <2>3. ASSUME NEW i \in 1 .. n PROVE g[i] = g[i - 1] + c[i].quality
      <3>1. g[i - 1] \in D /\ c[i] \in E /\ g[i] = step[<<g[i - 1], c[i]>>]
        <4> HIDE DEF step
        <4>1. i - 1 \in 0 .. n /\ c[i] \in E
          BY <1>2
        <4>2. g[i - 1] \in D
          BY <4>1
        <4> QED BY <4>1, <4>2, <2>2 DEF Follows
      <3> QED BY <3>1
    <2> HIDE DEF step
    <2>4. Eq(g)
      BY <1>2, <2>2, <2>3 DEF Follows
    <2> QED BY <2>4
  <1>5. Eq(fold)
    <2> HIDE DEF Eq
    <2> QED BY <1>4
  <1> HIDE DEF fold
  <1>6. fold[0] = 0 /\ \A i \in 1 .. n : fold[i] = fold[i - 1] + c[i].quality
    BY <1>2, <1>5
  <1>7. fold[0] \in D /\ \A i \in 1 .. n : fold[i - 1] \in D => fold[i] \in D
    BY <1>2, <1>3, <1>6
  <1>8. \A i \in 0 .. n : fold[i] \in D
    BY <1>2, <1>7, EachStepIn
  <1> QED BY <1>1, <1>2, <1>8 DEF D

\* A face joins a cluster or makes one: no cluster is empty.
LEMMA JoinedIn ==
    ASSUME NEW clusters \in Seq(FaceCluster), NEW face \in Face
    PROVE  Joined(clusters, face) \in Seq(FaceCluster)
  <1>1. <<face>> \in FaceCluster
    BY DEF FaceCluster
  <1>2. Append(clusters, <<face>>) \in Seq(FaceCluster)
    BY <1>1
  <1>3. ASSUME NEW b PROVE [clusters EXCEPT ![b] = Append(@, face)] \in Seq(FaceCluster)
    <2>1. CASE b \in DOMAIN clusters
      <3>1. clusters[b] \in FaceCluster
        BY <2>1
      <3>2. Append(clusters[b], face) \in FaceCluster
        BY <3>1 DEF FaceCluster
      <3> QED BY <2>1, <3>2
    <2>2. CASE b \notin DOMAIN clusters
      <3>1. [clusters EXCEPT ![b] = Append(@, face)] = clusters
        BY <2>2
      <3> QED BY <3>1
    <2> QED BY <2>1, <2>2
  <1>4. \/ Joined(clusters, face) = Append(clusters, <<face>>)
        \/ \E b : Joined(clusters, face) = [clusters EXCEPT ![b] = Append(@, face)]
    BY DEF Joined
  <1> QED BY <1>2, <1>3, <1>4

\* Clustering makes clusters of the faces found.
LEMMA ClustersIn ==
    ASSUME NEW faces \in Seq(Face)
    PROVE  Clusters(faces) \in Seq(FaceCluster)
  <1> DEFINE D == Seq(FaceCluster)
             E == Face
             n == Len(faces)
             step == [x \in D \X E |-> Joined(x[1], x[2])]
             Eq(g) == g = [i \in 0 .. Len(faces) |-> IF i = 0 THEN <<>> ELSE Joined(g[i - 1], faces[i])]
             fold == CHOOSE g : Eq(g)
  <1>1. Clusters(faces) = fold[n]
    BY DEF Clusters, Folded
  <1>2. n \in Nat /\ faces \in Seq(E) /\ \A i \in 1 .. n : faces[i] \in E
    OBVIOUS
  <1>3. <<>> \in D /\ \A a \in D, x \in E : Joined(a, x) \in D
    BY JoinedIn
  <1> HIDE DEF D, E
  <1>4. \E g : Eq(g)
    <2>1. step \in [D \X E -> D]
      BY <1>3
    <2>2. PICK g \in [0 .. n -> D] : Follows(g, <<>>, step, faces)
      <3> HIDE DEF step
      <3> QED BY <1>2, <1>3, <2>1, FoldExists
    <2>3. ASSUME NEW i \in 1 .. n PROVE g[i] = Joined(g[i - 1], faces[i])
      <3>1. g[i - 1] \in D /\ faces[i] \in E /\ g[i] = step[<<g[i - 1], faces[i]>>]
        <4> HIDE DEF step
        <4>1. i - 1 \in 0 .. n /\ faces[i] \in E
          BY <1>2
        <4>2. g[i - 1] \in D
          BY <4>1
        <4> QED BY <4>1, <4>2, <2>2 DEF Follows
      <3> QED BY <3>1
    <2> HIDE DEF step
    <2>4. Eq(g)
      BY <1>2, <2>2, <2>3 DEF Follows
    <2> QED BY <2>4
  <1>5. Eq(fold)
    <2> HIDE DEF Eq
    <2> QED BY <1>4
  <1> HIDE DEF fold
  <1>6. fold[0] = <<>> /\ \A i \in 1 .. n : fold[i] = Joined(fold[i - 1], faces[i])
    BY <1>2, <1>5
  <1>7. fold[0] \in D /\ \A i \in 1 .. n : fold[i - 1] \in D => fold[i] \in D
    BY <1>2, <1>3, <1>6
  <1>8. \A i \in 0 .. n : fold[i] \in D
    BY <1>2, <1>7, EachStepIn
  <1> QED BY <1>1, <1>2, <1>8 DEF D

\* A cluster has its distinct frames, some number of them.
LEMMA FramesNat ==
    ASSUME NEW c \in Seq(Face)
    PROVE  Frames(c) \in Nat
  <1> DEFINE T == {c[i].frame : i \in DOMAIN c}
             f == [i \in 1 .. Len(c) |-> c[i].frame]
  <1>1. Len(c) \in Nat /\ DOMAIN c = 1 .. Len(c)
    OBVIOUS
  <1>2. IsFiniteSet(1 .. Len(c))
    BY <1>1, FS_Interval
  <1>3. f \in Surjection(1 .. Len(c), T)
    BY <1>1 DEF Surjection
  <1>4. IsFiniteSet(T)
    <2> HIDE DEF f, T
    <2> QED BY <1>2, <1>3, FS_Surjection
  <1> HIDE DEF T
  <1>5. Cardinality(T) \in Nat
    BY <1>4, FS_CardinalityType
  <1> QED BY <1>5 DEF T, Frames

\* The mean quality of c is at least that of d.
NotWorse(c, d) == Qualities(c) * Len(d) >= Qualities(d) * Len(c)

\* Being no worse in mean quality is transitive, although it compares products.
LEMMA NotWorseOrders ==
    ASSUME NEW x \in FaceCluster, NEW y \in FaceCluster, NEW z \in FaceCluster
    PROVE  /\ NotWorse(x, y) \/ NotWorse(y, x)
           /\ NotWorse(x, y) /\ NotWorse(y, z) => NotWorse(x, z)
           /\ NotWorse(x, y) /\ NotWorse(y, z) /\ NotWorse(z, x) =>
                NotWorse(y, x) /\ NotWorse(z, y)
  <1> DEFINE a == Qualities(x)
             b == Qualities(y)
             c == Qualities(z)
             p == Len(x)
             q == Len(y)
             r == Len(z)
  <1>1. a \in Nat /\ b \in Nat /\ c \in Nat /\ p \in Nat \ {0} /\ q \in Nat \ {0} /\ r \in Nat \ {0}
    BY QualitiesNat DEF FaceCluster
  <1>2. /\ (NotWorse(x, y) <=> a * q >= b * p) /\ (NotWorse(y, z) <=> b * r >= c * q)
        /\ (NotWorse(x, z) <=> a * r >= c * p) /\ (NotWorse(z, x) <=> c * p >= a * r)
        /\ (NotWorse(y, x) <=> b * p >= a * q) /\ (NotWorse(z, y) <=> c * q >= b * r)
    BY DEF NotWorse
  <1> HIDE DEF a, b, c, p, q, r
  <1>3. /\ a * q \in Nat /\ b * p \in Nat /\ b * r \in Nat /\ c * q \in Nat /\ a * r \in Nat
        /\ c * p \in Nat
    BY <1>1
  <1>4. /\ (a * q) * r = q * (a * r) /\ (c * q) * p = q * (c * p) /\ (b * p) * r = (b * r) * p
    BY <1>1
  <1>5. \A u, v \in Nat, w \in Nat \ {0} : (u >= v => u * w >= v * w) /\ (u * w = v * w => u = v)
    OBVIOUS
  <1>6. \A u, v \in Nat, w \in Nat \ {0} : w * u >= w * v => u >= v
    OBVIOUS
  <1>7. ASSUME a * q >= b * p, b * r >= c * q
        PROVE  a * r >= c * p /\ (c * p >= a * r => b * p >= a * q /\ c * q >= b * r)
    <2>1. (a * q) * r >= (b * p) * r /\ (b * r) * p >= (c * q) * p
      BY <1>1, <1>3, <1>5, <1>7
    <2>2. q * (a * r) >= q * (c * p)
      BY <1>1, <1>3, <1>4, <2>1
    <2>3. a * r >= c * p
      BY <1>1, <1>3, <1>6, <2>2
    <2>4. a * r = c * p => (a * q) * r = (b * p) * r /\ (b * r) * p = (c * q) * p
      BY <1>1, <1>3, <1>4, <2>1
    <2>5. a * r = c * p => a * q = b * p /\ b * r = c * q
      BY <1>1, <1>3, <1>5, <2>4
    <2> QED BY <1>3, <2>3, <2>5
  <1>8. a * q >= b * p \/ b * p >= a * q
    BY <1>3
  <1> QED BY <1>2, <1>7, <1>8

\* Outranks is a strict order, and so is the order of the clusters it does not order.
LEMMA OutranksOrders ==
    ASSUME NEW c \in FaceCluster, NEW d \in FaceCluster, NEW e \in FaceCluster
    PROVE  /\ ~Outranks(c, c)
           /\ Outranks(c, d) => ~Outranks(d, c)
           /\ ~Outranks(d, c) /\ ~Outranks(e, d) => ~Outranks(e, c)
           /\ ~Outranks(d, c) /\ ~Outranks(e, d) /\ ~Outranks(c, e) =>
                ~Outranks(c, d) /\ ~Outranks(d, e)
  <1> DEFINE Rank(x, y) ==
               \/ Frames(x) > Frames(y)
               \/ Frames(x) = Frames(y) /\ ~NotWorse(y, x)
               \/ Frames(x) = Frames(y) /\ NotWorse(x, y) /\ NotWorse(y, x) /\ Len(x) > Len(y)
  <1>1. ASSUME NEW x \in FaceCluster
        PROVE  Frames(x) \in Nat /\ Qualities(x) \in Nat /\ Len(x) \in Nat \ {0}
    BY FramesNat, QualitiesNat DEF FaceCluster
  <1>2. ASSUME NEW x \in FaceCluster, NEW y \in FaceCluster
        PROVE  Outranks(x, y) <=> Rank(x, y)
    <2>1. Qualities(x) * Len(y) \in Nat /\ Qualities(y) * Len(x) \in Nat
      BY <1>1
    <2> QED BY <2>1 DEF Outranks, NotWorse
  <1>3. ~Rank(c, c) /\ (Rank(c, d) => ~Rank(d, c))
    BY <1>1, NotWorseOrders
  <1>4. ASSUME ~Rank(d, c), ~Rank(e, d)
        PROVE  ~Rank(e, c) /\ (~Rank(c, e) => ~Rank(c, d) /\ ~Rank(d, e))
    <2>1. /\ Frames(c) \in Nat /\ Frames(d) \in Nat /\ Frames(e) \in Nat
          /\ Len(c) \in Nat /\ Len(d) \in Nat /\ Len(e) \in Nat
      BY <1>1
    <2>2. Frames(c) >= Frames(d) /\ Frames(d) >= Frames(e)
      BY <2>1, <1>4
    <2>3. CASE Frames(c) > Frames(e)
      BY <2>1, <2>3
    <2>4. CASE Frames(c) = Frames(d) /\ Frames(d) = Frames(e)
      <3>1. NotWorse(c, d) /\ NotWorse(d, e)
        BY <1>4, <2>4
      <3>2. NotWorse(c, e) /\ (NotWorse(e, c) => NotWorse(d, c) /\ NotWorse(e, d))
        BY <3>1, NotWorseOrders
      <3>3. CASE ~NotWorse(e, c)
        BY <2>1, <2>4, <3>2, <3>3
      <3>4. CASE NotWorse(e, c)
        <4>1. Len(c) >= Len(d) /\ Len(d) >= Len(e)
          BY <2>1, <1>4, <2>4, <3>1, <3>2, <3>4
        <4> QED BY <2>1, <2>4, <3>1, <3>2, <3>4, <4>1
      <3> QED BY <3>3, <3>4
    <2> QED BY <2>1, <2>2, <2>3, <2>4
  <1> HIDE DEF Rank
  <1> QED BY <1>2, <1>3, <1>4

\* The sort by rank returns the clusters it is given.
LEMMA RankedIn ==
    ASSUME NEW clusters \in Seq(FaceCluster)
    PROVE  Ranked(clusters) \in Seq(FaceCluster)
  <1> DEFINE S == DOMAIN clusters
             Before(i, j) == \/ Outranks(clusters[i], clusters[j])
                             \/ ~Outranks(clusters[j], clusters[i]) /\ i < j
             R == {p \in S \X S : Before(p[1], p[2])}
             order == [k \in 1 .. Cardinality(S) |->
                        CHOOSE x \in S : Cardinality({y \in S : Before(y, x)}) = k - 1]
  <1>1. /\ Len(clusters) \in Nat /\ S = 1 .. Len(clusters) /\ S \subseteq Int
        /\ \A i \in S : clusters[i] \in FaceCluster
    OBVIOUS
  <1>2. IsFiniteSet(S) /\ Cardinality(S) = Len(clusters)
    BY <1>1, FS_Interval
  <1>3. Ranked(clusters) = [k \in S |-> clusters[order[k]]]
    BY DEF Ranked, Sorted
  <1>4. \A x, y \in S : <<x, y>> \in R <=> Before(x, y)
    OBVIOUS
  <1>5. Orders(R, S)
    <2> HIDE DEF R, S
    <2> SUFFICES /\ \A i \in S : ~Before(i, i)
                 /\ \A i, j \in S : Before(i, j) \/ Before(j, i) \/ i = j
                 /\ \A i, j, k \in S : Before(i, j) /\ Before(j, k) => Before(i, k)
      <3> HIDE DEF Before
      <3> QED BY <1>4 DEF Orders
    <2>1. \A i \in S : ~Before(i, i)
      BY <1>1, OutranksOrders
    <2>2. \A i, j \in S : Before(i, j) \/ Before(j, i) \/ i = j
      BY <1>1, OutranksOrders
    <2>3. ASSUME NEW i \in S, NEW j \in S, NEW k \in S, Before(i, j), Before(j, k)
          PROVE  Before(i, k)
      <3>1. /\ clusters[i] \in FaceCluster /\ clusters[j] \in FaceCluster
            /\ clusters[k] \in FaceCluster /\ i \in Int /\ j \in Int /\ k \in Int
        BY <1>1
      <3>2. ~Outranks(clusters[j], clusters[i]) /\ ~Outranks(clusters[k], clusters[j])
        BY <2>3, <3>1, OutranksOrders
      <3>3. ~Outranks(clusters[k], clusters[i])
        BY <3>1, <3>2, OutranksOrders
      <3>4. CASE Outranks(clusters[i], clusters[k])
        BY <3>4
      <3>5. CASE ~Outranks(clusters[i], clusters[k])
        <4>1. ~Outranks(clusters[i], clusters[j]) /\ ~Outranks(clusters[j], clusters[k])
          BY <3>1, <3>2, <3>5, OutranksOrders
        <4> QED BY <2>3, <3>1, <3>3, <4>1
      <3> QED BY <3>4, <3>5
    <2> HIDE DEF Before
    <2> QED BY <2>1, <2>2, <2>3
  <1>6. ASSUME NEW k \in S PROVE order[k] \in S
    <2>1. k \in 1 .. Cardinality(S)
      BY <1>1, <1>2
    <2>2. PICK x \in S : Cardinality(Below(x, R, S)) = k - 1
      <3> HIDE DEF R, S
      <3> QED BY <1>2, <1>5, <2>1, Ranks
    <2>3. Below(x, R, S) = {y \in S : Before(y, x)}
      <3> HIDE DEF R, S, Before
      <3> QED BY <1>4 DEF Below
    <2> HIDE DEF S, R, Before
    <2> QED BY <2>1, <2>2, <2>3
  <1>7. [k \in S |-> clusters[order[k]]] \in [1 .. Len(clusters) -> FaceCluster]
    <2> HIDE DEF S, order
    <2> QED BY <1>1, <1>6
  <1> HIDE DEF order, S
  <1> QED BY <1>1, <1>3, <1>7, SeqDef

\* The selection returns some of the clusters.
LEMMA MainClustersIn ==
    ASSUME NEW clusters \in Seq(FaceCluster)
    PROVE  MainClusters(clusters) \in Seq(FaceCluster)
  <1> DEFINE T == {i \in DOMAIN clusters : Frames(clusters[i]) >= MinFrames}
             frequent == [k \in DOMAIN Ascending(T) |-> clusters[Ascending(T)[k]]]
             ranked == Ranked(frequent)
             U == {i \in DOMAIN ranked :
                     LET d == ranked[1] IN
                     /\ 4 * Frames(ranked[i]) >= 3 * Frames(d)
                     /\ 10 * Qualities(ranked[i]) * Len(d) >= 9 * Qualities(d) * Len(ranked[i])}
             main == [k \in DOMAIN Ascending(U) |-> ranked[Ascending(U)[k]]]
  <1>1. frequent \in Seq(FaceCluster)
    BY PassingIn
  <1>2. ranked \in Seq(FaceCluster)
    <2> HIDE DEF frequent
    <2> QED BY <1>1, RankedIn
  <1>3. main \in Seq(FaceCluster)
    <2> HIDE DEF ranked
    <2> QED BY <1>2, PassingIn
  <1>4. MainClusters(clusters) = SubSeq(main, 1, Min({Len(main), MaxMain}))
    BY DEF MainClusters, Passing
  <1>5. SubSeq(main, 1, Min({Len(main), MaxMain})) \in Seq(FaceCluster)
    <2> HIDE DEF main
    <2>1. Len(main) \in Nat /\ MaxMain \in Nat
      BY <1>3, Constants
    <2>2. Min({Len(main), MaxMain}) \in 0 .. Len(main)
      BY <2>1, MinOfTwo
    <2> DEFINE m == Min({Len(main), MaxMain})
    <2>3. \A i \in 1 .. m : main[i] \in FaceCluster
      <3> HIDE DEF m
      <3> QED BY <1>3, <2>2 DEF m
    <2> HIDE DEF m
    <2>4. m \in Int /\ 1 \in Int
      BY <2>1, <2>2 DEF m
    <2>5. SubSeq(main, 1, m) \in Seq(FaceCluster)
      BY <2>3, <2>4, SubSeqProperties
    <2> QED BY <2>5 DEF m
  <1> QED BY <1>4, <1>5

\* What the index looks at in a face.
Sighting == [point : 0 .. Arc, quality : 1 .. Quality]

\* What it has of a person in one analysis: one face at least.
Sightings == Seq(Sighting) \ {<<>>}

\* What the index is given is sequences of sightings, none empty.
LEMMA AnalysesIn ==
    ASSUME NEW clusters \in Analyses
    PROVE  clusters \in Seq(Sightings)
  <1>1. PICK faces \in Findings :
          clusters = LET main == MainClusters(Clusters(faces))
                     IN [k \in DOMAIN main |-> Seen(main[k])]
    BY DEF Analyses
  <1>2. faces \in Seq(Face)
    <2>1. PICK m \in 0 .. MaxFaces : faces \in [1 .. m -> Face]
      BY Constants DEF Findings, SeqOf
    <2> QED BY <2>1, Constants
  <1> DEFINE main == MainClusters(Clusters(faces))
  <1>3. main \in Seq(FaceCluster)
    BY <1>2, ClustersIn, MainClustersIn
  <1>4. clusters = [k \in DOMAIN main |-> Seen(main[k])]
    BY <1>1
  <1> HIDE DEF main
  <1>5. ASSUME NEW c \in FaceCluster PROVE Seen(c) \in Sightings
    <2>1. c \in Seq(Face) /\ Len(c) \in Nat \ {0} /\ DOMAIN c = 1 .. Len(c)
      BY DEF FaceCluster
    <2> DEFINE d == [i \in 1 .. Len(c) |-> [point |-> c[i].point, quality |-> c[i].quality]]
    <2>2. \A i \in 1 .. Len(c) : c[i] \in Face
      BY <2>1
    <2>3. d \in [1 .. Len(c) -> Sighting]
      BY <2>2 DEF Face, Sighting
    <2>4. Seen(c) = d
      BY <2>1 DEF Seen
    <2> HIDE DEF d
    <2>5. d \in Seq(Sighting) /\ Len(d) = Len(c)
      BY <2>1, <2>3
    <2>6. d # <<>>
      BY <2>1, <2>5
    <2> QED BY <2>4, <2>5, <2>6 DEF Sightings
  <1>6. Len(main) \in Nat /\ DOMAIN main = 1 .. Len(main) /\ \A k \in 1 .. Len(main) : main[k] \in FaceCluster
    BY <1>3
  <1>7. [k \in 1 .. Len(main) |-> Seen(main[k])] \in [1 .. Len(main) -> Sightings]
    BY <1>5, <1>6
  <1> QED BY <1>4, <1>6, <1>7
-----------------------------------------------------------------------------
(***************************************************************************)
(* Exemplars.                                                              *)
(***************************************************************************)

\* Exemplars of that quality or better.
Good(s, q) == Cardinality({i \in DOMAIN s : s[i].quality >= q})

\* The exemplars of an actor are within the caps, no two of one point.
Capped(s) ==
    /\ Len(s) <= PerActor
    /\ \A t \in Torrent : OfTorrent(s, t) <= PerTorrent
    /\ \A i, j \in DOMAIN s : s[i].point = s[j].point => i = j

\* Of no quality are there fewer than before.
NoWorse(s, old) == \A q \in 1 .. Quality : Good(s, q) >= Good(old, q)

\* Any set of places in a sequence is finite.
LEMMA Positions ==
    ASSUME NEW E, NEW s \in Seq(E), NEW T \in SUBSET DOMAIN s
    PROVE  IsFiniteSet(T) /\ Cardinality(T) \in Nat
  <1>1. DOMAIN s = 1 .. Len(s) /\ Len(s) \in Nat
    OBVIOUS
  <1>2. IsFiniteSet(1 .. Len(s))
    BY <1>1, FS_Interval
  <1>3. IsFiniteSet(T)
    BY <1>1, <1>2, FS_Subset
  <1> QED BY <1>3, FS_CardinalityType

\* One pass of the loop of _retain_exemplars.
Keep(t, kept, face) ==
    LET new == [torrent |-> t, point |-> face.point, quality |-> face.quality] IN
    IF HasShare(kept, t) \/ IsNearDuplicate(face, kept) THEN kept
    ELSE IF Len(kept) < PerActor THEN Append(kept, new)
    ELSE IF Improves(face, kept) THEN [kept EXCEPT ![Lowest(kept)] = new]
    ELSE kept

\* A further exemplar is within the caps, as the loop tests first.
LEMMA AppendKeeps ==
    ASSUME NEW t \in Torrent, NEW kept \in Seq(Exemplar), Capped(kept), NEW x \in Exemplar,
           x.torrent = t, ~HasShare(kept, t), Len(kept) < PerActor,
           \A i \in DOMAIN kept : kept[i].point # x.point
    PROVE  /\ Append(kept, x) \in Seq(Exemplar) /\ Capped(Append(kept, x))
           /\ NoWorse(Append(kept, x), kept)
  <1> DEFINE n == Len(kept)
             s == Append(kept, x)
  <1>1. /\ n \in Nat /\ DOMAIN kept = 1 .. n
        /\ s \in Seq(Exemplar) /\ Len(s) = n + 1 /\ DOMAIN s = 1 .. n + 1
        /\ s[n + 1] = x /\ \A i \in 1 .. n : s[i] = kept[i]
    OBVIOUS
  <1> HIDE DEF s, n
  <1>2. Len(s) <= PerActor
    BY <1>1, Constants DEF n
  <1>3. ASSUME NEW u \in Torrent PROVE OfTorrent(s, u) <= PerTorrent
    <2> DEFINE Old == {i \in DOMAIN kept : kept[i].torrent = u}
               New == {i \in DOMAIN s : s[i].torrent = u}
    <2>1. IsFiniteSet(Old) /\ Cardinality(Old) \in Nat /\ Cardinality(Old) = OfTorrent(kept, u)
      BY Positions DEF OfTorrent
    <2>2. OfTorrent(kept, u) <= PerTorrent /\ (u = t => OfTorrent(kept, u) < PerTorrent)
      BY <2>1, Constants DEF Capped, HasShare
    <2>3. CASE u = t
      <3>1. New = Old \cup {n + 1} /\ n + 1 \notin Old
        BY <1>1, <2>3
      <3>2. Cardinality(New) = Cardinality(Old) + 1
        BY <2>1, <3>1, FS_AddElement
      <3> QED BY <2>1, <2>2, <2>3, <3>2, Constants DEF OfTorrent
    <2>4. CASE u # t
      <3>1. New = Old
        BY <1>1, <2>4
      <3> QED BY <2>1, <2>2, <3>1 DEF OfTorrent
    <2> QED BY <2>3, <2>4
  <1>4. \A i, j \in DOMAIN s : s[i].point = s[j].point => i = j
    <2>1. \A i, j \in 1 .. n : kept[i].point = kept[j].point => i = j
      BY <1>1 DEF Capped
    <2> QED BY <1>1, <2>1
  <1>5. ASSUME NEW q \in 1 .. Quality PROVE Good(s, q) >= Good(kept, q)
    <2> DEFINE Old == {i \in DOMAIN kept : kept[i].quality >= q}
               New == {i \in DOMAIN s : s[i].quality >= q}
    <2>1. Old \in SUBSET New
      BY <1>1
    <2>2. IsFiniteSet(New) /\ Cardinality(New) \in Nat /\ Cardinality(Old) \in Nat
      BY <1>1, Positions
    <2>3. Cardinality(Old) <= Cardinality(New)
      BY <2>1, <2>2, FS_Subset
    <2> QED BY <2>2, <2>3 DEF Good
  <1>6. Capped(s) /\ NoWorse(s, kept)
    BY <1>2, <1>3, <1>4, <1>5 DEF Capped, NoWorse
  <1> QED BY <1>1, <1>6 DEF s

\* So is one in the place of the lowest, which it outdoes.
LEMMA ReplaceKeeps ==
    ASSUME NEW t \in Torrent, NEW kept \in Seq(Exemplar), Capped(kept), NEW x \in Exemplar,
           x.torrent = t, ~HasShare(kept, t),
           \A i \in DOMAIN kept : kept[i].point # x.point,
           NEW l \in DOMAIN kept, x.quality > kept[l].quality
    PROVE  /\ [kept EXCEPT ![l] = x] \in Seq(Exemplar) /\ Capped([kept EXCEPT ![l] = x])
           /\ NoWorse([kept EXCEPT ![l] = x], kept)
  <1> DEFINE n == Len(kept)
             s == [kept EXCEPT ![l] = x]
  <1>1. /\ n \in Nat /\ DOMAIN kept = 1 .. n /\ l \in 1 .. n
        /\ s \in Seq(Exemplar) /\ Len(s) = n /\ DOMAIN s = 1 .. n
        /\ s[l] = x /\ \A i \in 1 .. n : i # l => s[i] = kept[i]
    OBVIOUS
  <1> HIDE DEF s, n
  <1>2. Len(s) <= PerActor
    BY <1>1 DEF n, Capped
  <1>3. ASSUME NEW u \in Torrent PROVE OfTorrent(s, u) <= PerTorrent
    <2> DEFINE Old == {i \in DOMAIN kept : kept[i].torrent = u}
               New == {i \in DOMAIN s : s[i].torrent = u}
    <2>1. IsFiniteSet(Old) /\ Cardinality(Old) \in Nat /\ Cardinality(Old) = OfTorrent(kept, u)
      BY Positions DEF OfTorrent
    <2>2. OfTorrent(kept, u) <= PerTorrent /\ (u = t => OfTorrent(kept, u) < PerTorrent)
      BY <2>1, Constants DEF Capped, HasShare
    <2>3. IsFiniteSet(New) /\ Cardinality(New) \in Nat /\ Cardinality(New) = OfTorrent(s, u)
      BY <1>1, Positions DEF OfTorrent
    <2>4. CASE u = t
      <3>1. New \in SUBSET (Old \cup {l})
        BY <1>1
      <3>2. IsFiniteSet(Old \cup {l}) /\ Cardinality(Old \cup {l}) <= Cardinality(Old) + 1
        <4> HIDE DEF Old
        <4>1. Cardinality(Old) <= Cardinality(Old) + 1
          BY <2>1
        <4>2. /\ IsFiniteSet(Old \cup {l})
              /\ Cardinality(Old \cup {l}) = IF l \in Old THEN Cardinality(Old) ELSE Cardinality(Old) + 1
          BY <2>1, FS_AddElement
        <4> QED BY <2>1, <4>1, <4>2
      <3>3. Cardinality(New) <= Cardinality(Old \cup {l})
        BY <3>1, <3>2, FS_Subset
      <3>4. Cardinality(Old \cup {l}) \in Nat
        BY <3>2, FS_CardinalityType
      <3> QED BY <2>1, <2>2, <2>3, <2>4, <3>2, <3>3, <3>4, Constants
    <2>5. CASE u # t
      <3>1. New \in SUBSET Old
        BY <1>1, <2>5
      <3>2. Cardinality(New) <= Cardinality(Old)
        BY <2>1, <3>1, FS_Subset
      <3> QED BY <2>1, <2>2, <2>3, <3>2, Constants
    <2> QED BY <2>4, <2>5
  <1>4. \A i, j \in DOMAIN s : s[i].point = s[j].point => i = j
    <2>1. \A i, j \in 1 .. n : kept[i].point = kept[j].point => i = j
      BY <1>1 DEF Capped
    <2> QED BY <1>1, <2>1
  <1>5. ASSUME NEW q \in 1 .. Quality PROVE Good(s, q) >= Good(kept, q)
    <2> DEFINE Old == {i \in DOMAIN kept : kept[i].quality >= q}
               New == {i \in DOMAIN s : s[i].quality >= q}
    <2>1. kept[l].quality \in Int /\ x.quality \in Int /\ q \in Int
      <3>1. kept[l] \in Exemplar
        OBVIOUS
      <3> QED BY <3>1, Constants DEF Exemplar
    <2>2. Old \in SUBSET New
      BY <1>1, <2>1
    <2>3. IsFiniteSet(New) /\ Cardinality(New) \in Nat /\ Cardinality(Old) \in Nat
      BY <1>1, Positions
    <2>4. Cardinality(Old) <= Cardinality(New)
      BY <2>2, <2>3, FS_Subset
    <2> QED BY <2>3, <2>4 DEF Good
  <1>6. Capped(s) /\ NoWorse(s, kept)
    BY <1>2, <1>3, <1>4, <1>5 DEF Capped, NoWorse
  <1> QED BY <1>1, <1>6 DEF s

\* Evidence that is no worse stays so.
LEMMA NoWorseTransitive ==
    ASSUME NEW r \in Seq(Exemplar), NEW s \in Seq(Exemplar), NEW u \in Seq(Exemplar),
           NoWorse(s, r), NoWorse(u, s)
    PROVE  NoWorse(u, r)
  <1> SUFFICES ASSUME NEW q \in 1 .. Quality PROVE Good(u, q) >= Good(r, q)
    BY DEF NoWorse
  <1>1. Good(r, q) \in Nat /\ Good(s, q) \in Nat /\ Good(u, q) \in Nat
    BY Positions DEF Good
  <1> QED BY <1>1 DEF NoWorse

\* What is kept as it is is no worse.
LEMMA NoWorseReflexive ==
    ASSUME NEW s \in Seq(Exemplar)
    PROVE  NoWorse(s, s)
  <1>1. \A q \in 1 .. Quality : Good(s, q) \in Nat
    BY Positions DEF Good
  <1> QED BY <1>1 DEF NoWorse

\* A pass keeps the caps, costs no evidence and leaves somebody.
LEMMA KeepIn ==
    ASSUME NEW t \in Torrent, NEW kept \in Seq(Exemplar), Capped(kept), NEW face \in Sighting
    PROVE  /\ Keep(t, kept, face) \in Seq(Exemplar) \ {<<>>} /\ Capped(Keep(t, kept, face))
           /\ NoWorse(Keep(t, kept, face), kept)
  <1> DEFINE x == [torrent |-> t, point |-> face.point, quality |-> face.quality]
             k == Keep(t, kept, face)
  <1>1. x \in Exemplar /\ x.torrent = t /\ x.point = face.point /\ x.quality = face.quality
    BY DEF Exemplar, Sighting
  <1>2. \/ k = kept /\ (HasShare(kept, t) \/ IsNearDuplicate(face, kept) \/ Len(kept) >= PerActor)
        \/ /\ ~HasShare(kept, t) /\ ~IsNearDuplicate(face, kept)
           /\ Len(kept) < PerActor /\ k = Append(kept, x)
        \/ /\ ~HasShare(kept, t) /\ ~IsNearDuplicate(face, kept)
           /\ Improves(face, kept) /\ k = [kept EXCEPT ![Lowest(kept)] = x]
           /\ Len(kept) >= PerActor
    <2>1. Len(kept) \in Int /\ PerActor \in Int
      BY Constants
    <2> QED BY <2>1 DEF Keep
  <1> HIDE DEF x, k
  <1>3. CASE k = kept /\ (HasShare(kept, t) \/ IsNearDuplicate(face, kept) \/ Len(kept) >= PerActor)
    <2>1. kept # <<>>
      <3> SUFFICES ASSUME kept = <<>> PROVE FALSE
        OBVIOUS
      <3>1. Len(kept) = 0 /\ DOMAIN kept = {}
        OBVIOUS
      <3>2. {i \in DOMAIN kept : kept[i].torrent = t} = {}
        BY <3>1
      <3>3. OfTorrent(kept, t) = 0
        BY <3>2, FS_EmptySet DEF OfTorrent
      <3>4. ~HasShare(kept, t)
        BY <3>3, Constants DEF HasShare
      <3>5. ~IsNearDuplicate(face, kept)
        BY <3>1 DEF IsNearDuplicate
      <3> QED BY <1>3, <3>1, <3>4, <3>5, Constants
    <2> QED BY <1>3, <2>1, NoWorseReflexive DEF k
  <1>4. CASE ~HasShare(kept, t) /\ ~IsNearDuplicate(face, kept) /\ Len(kept) < PerActor /\ k = Append(kept, x)
    <2>1. \A i \in DOMAIN kept : kept[i].point # x.point
      BY <1>1, <1>4 DEF IsNearDuplicate
    <2>2. k \in Seq(Exemplar) /\ Capped(k) /\ NoWorse(k, kept)
      BY <1>1, <1>4, <2>1, AppendKeeps
    <2>3. k # <<>>
      BY <1>1, <1>4
    <2> QED BY <2>2, <2>3 DEF k
  <1>5. CASE /\ ~HasShare(kept, t) /\ ~IsNearDuplicate(face, kept)
             /\ Improves(face, kept) /\ k = [kept EXCEPT ![Lowest(kept)] = x]
             /\ Len(kept) >= PerActor
    <2>1. \A i \in DOMAIN kept : kept[i].point # x.point
      BY <1>1, <1>5 DEF IsNearDuplicate
    <2>2. kept # <<>>
      BY <1>5, Constants
    <2>3. CASE Lowest(kept) \in DOMAIN kept
      <3>1. x.quality > kept[Lowest(kept)].quality
        BY <1>1, <1>5 DEF Improves
      <3>2. k \in Seq(Exemplar) /\ Capped(k) /\ NoWorse(k, kept)
        BY <1>1, <1>5, <2>1, <2>3, <3>1, ReplaceKeeps
      <3>3. k # <<>>
        <4>1. DOMAIN k = DOMAIN kept
          BY <1>5
        <4> QED BY <2>3, <4>1
      <3> QED BY <3>2, <3>3 DEF k
    <2>4. CASE Lowest(kept) \notin DOMAIN kept
      <3>1. k = kept
        BY <1>5, <2>4
      <3> QED BY <2>2, <3>1, NoWorseReflexive DEF k
    <2> QED BY <2>3, <2>4
  <1> QED BY <1>2, <1>3, <1>4, <1>5

\* The exemplars an actor may have.
Exemplars == {s \in Seq(Exemplar) \ {<<>>} : Capped(s)}

\* The whole of _retain_exemplars keeps the caps and costs no evidence.
LEMMA RetainedIn ==
    ASSUME NEW t \in Torrent, NEW exemplars \in Seq(Exemplar), Capped(exemplars), NEW c \in Sightings
    PROVE  Retained(exemplars, t, c) \in Exemplars /\ NoWorse(Retained(exemplars, t, c), exemplars)
  <1> DEFINE D == {k \in Seq(Exemplar) : Capped(k) /\ NoWorse(k, exemplars)}
             E == Sighting
             n == Len(c)
             step == [x \in D \X E |-> Keep(t, x[1], x[2])]
             Eq(g) == g = [i \in 0 .. Len(c) |-> IF i = 0 THEN exemplars ELSE Keep(t, g[i - 1], c[i])]
             fold == CHOOSE g : Eq(g)
  <1>1. Retained(exemplars, t, c) = fold[n]
    BY DEF Retained, Folded, Keep
  <1>2. n \in Nat /\ c \in Seq(E) /\ \A i \in 1 .. n : c[i] \in E
    BY DEF Sightings
  <1>3. exemplars \in D /\ \A a \in D, x \in E : Keep(t, a, x) \in D
    BY KeepIn, NoWorseReflexive, NoWorseTransitive
  <1> HIDE DEF D, E
  <1>4. \E g : Eq(g)
    <2>1. step \in [D \X E -> D]
      BY <1>3
    <2>2. PICK g \in [0 .. n -> D] : Follows(g, exemplars, step, c)
      <3> HIDE DEF step
      <3> QED BY <1>2, <1>3, <2>1, FoldExists
    <2>3. ASSUME NEW i \in 1 .. n PROVE g[i] = Keep(t, g[i - 1], c[i])
      <3>1. g[i - 1] \in D /\ c[i] \in E /\ g[i] = step[<<g[i - 1], c[i]>>]
        <4> HIDE DEF step
        <4>1. i - 1 \in 0 .. n /\ c[i] \in E
          BY <1>2
        <4>2. g[i - 1] \in D
          BY <4>1
        <4> QED BY <4>1, <4>2, <2>2 DEF Follows
      <3> QED BY <3>1
    <2> HIDE DEF step
    <2>4. Eq(g)
      BY <1>2, <2>2, <2>3 DEF Follows
    <2> QED BY <2>4
  <1>5. Eq(fold)
    <2> HIDE DEF Eq
    <2> QED BY <1>4
  <1> HIDE DEF fold
  <1>6. fold[0] = exemplars /\ \A i \in 1 .. n : fold[i] = Keep(t, fold[i - 1], c[i])
    BY <1>2, <1>5
  <1>7. fold[0] \in D /\ \A i \in 1 .. n : fold[i - 1] \in D => fold[i] \in D
    BY <1>2, <1>3, <1>6
  <1>8. \A i \in 0 .. n : fold[i] \in D
    BY <1>2, <1>7, EachStepIn
  <1>9. n \in 1 .. n /\ n - 1 \in 0 .. n
    BY <1>2 DEF Sightings
  <1>10. fold[n - 1] \in D /\ fold[n] \in D /\ fold[n] = Keep(t, fold[n - 1], c[n]) /\ c[n] \in Sighting
    BY <1>2, <1>6, <1>8, <1>9 DEF E
  <1>11. fold[n] # <<>>
    BY <1>10, KeepIn DEF D
  <1> QED BY <1>1, <1>10, <1>11 DEF D, Exemplars
-----------------------------------------------------------------------------
(***************************************************************************)
(* Assignments.                                                            *)
(***************************************************************************)

\* What an assignment may make of the actors there are.
Results(old) ==
    {r \in [actors : Seq(Exemplars), ids : Seq(Nat)] :
        /\ r.ids \in Seq(DOMAIN r.actors) /\ IsInjective(r.ids)
        /\ Len(r.actors) >= Len(old)
        /\ \A a \in DOMAIN old : NoWorse(r.actors[a], old[a])}

\* A new actor starts with nothing, within the caps.
LEMMA NobodyCapped == <<>> \in Seq(Exemplar) /\ Capped(<<>>)
  <1>1. \A t \in Torrent : OfTorrent(<<>>, t) = 0
    <2> SUFFICES ASSUME NEW t \in Torrent PROVE OfTorrent(<<>>, t) = 0
      OBVIOUS
    <2> DEFINE s == <<>>
    <2>1. {i \in DOMAIN s : s[i].torrent = t} = {}
      OBVIOUS
    <2> QED BY <2>1, FS_EmptySet DEF OfTorrent
  <1> QED BY <1>1, Constants DEF Capped

\* A list without repetitions stays so with a new element.
LEMMA AddedInjective ==
    ASSUME NEW n \in Nat, NEW s \in Seq(1 .. n), IsInjective(s),
           NEW m \in Nat, n <= m, NEW x \in 1 .. m, x \notin Range(s)
    PROVE  Append(s, x) \in Seq(1 .. m) /\ Append(s, x) \in Seq(Nat) /\ IsInjective(Append(s, x))
  <1> DEFINE k == Len(s)
             u == Append(s, x)
  <1> SUFFICES u \in Seq(1 .. m) /\ u \in Seq(Nat) /\ IsInjective(u)
    OBVIOUS
  <1>1. k \in Nat /\ DOMAIN s = 1 .. k /\ \A i \in 1 .. k : s[i] \in 1 .. n
    OBVIOUS
  <1>2. s \in Seq(1 .. m) /\ s \in Seq(Nat)
    <2>1. 1 .. n \subseteq 1 .. m /\ 1 .. n \subseteq Nat
      OBVIOUS
    <2> QED BY <2>1, SeqMonotonic
  <1>3. /\ u \in Seq(1 .. m) /\ u \in Seq(Nat) /\ DOMAIN u = 1 .. k + 1 /\ u[k + 1] = x
        /\ \A i \in 1 .. k : u[i] = s[i]
    BY <1>1, <1>2
  <1>4. \A i, j \in 1 .. k : s[i] = s[j] => i = j
    BY <1>1 DEF IsInjective
  <1> HIDE DEF u
  <1>5. \A i, j \in 1 .. k + 1 : u[i] = u[j] => i = j
    <2>1. \A i \in 1 .. k + 1 : i \in 1 .. k \/ i = k + 1
      BY <1>1
    <2>2. \A i \in 1 .. k : u[i] # x
      BY <1>1, <1>3 DEF Range
    <2> HIDE DEF k
    <2> QED BY <1>3, <1>4, <2>1, <2>2
  <1> QED BY <1>3, <1>5 DEF IsInjective

\* One cluster: a new actor, nobody, or an actor matched and listed once.
LEMMA AssignIn ==
    ASSUME NEW t \in Torrent, NEW old \in Seq(Exemplars), NEW r \in Results(old), NEW c \in Sightings
    PROVE  Assign(t, r, c) \in Results(old)
  <1> DEFINE matches == Matches(c, r.actors)
             a == CHOOSE i \in matches : TRUE
             n == Len(r.actors)
             m == Len(old)
  <1>1. /\ r \in [actors : Seq(Exemplars), ids : Seq(Nat)]
        /\ r.actors \in Seq(Exemplars) /\ r.ids \in Seq(DOMAIN r.actors) /\ IsInjective(r.ids)
        /\ n \in Nat /\ m \in Nat /\ n >= m /\ DOMAIN r.actors = 1 .. n /\ DOMAIN old = 1 .. m
        /\ \A b \in 1 .. m : NoWorse(r.actors[b], old[b])
        /\ \A b \in 1 .. n : r.actors[b] \in Exemplars
        /\ \A b \in 1 .. m : old[b] \in Exemplars
    BY DEF Results
  <1>2. matches \subseteq DOMAIN r.actors
    BY DEF Matches
  <1>3. Exemplars \subseteq Seq(Exemplar) /\ \A s \in Exemplars : Capped(s)
    BY DEF Exemplars
  <1>4. CASE matches = {}
    <2> DEFINE s == Retained(<<>>, t, c)
               x == [actors |-> Append(r.actors, s), ids |-> Append(r.ids, n + 1)]
    <2>1. Assign(t, r, c) = x
      BY <1>4 DEF Assign
    <2>2. s \in Exemplars
      BY NobodyCapped, RetainedIn
    <2> HIDE DEF s
    <2>3. /\ x.actors \in Seq(Exemplars) /\ Len(x.actors) = n + 1 /\ DOMAIN x.actors = 1 .. n + 1
          /\ \A b \in 1 .. n : x.actors[b] = r.actors[b]
      BY <1>1, <2>2
    <2>4. x.ids \in Seq(1 .. n + 1) /\ x.ids \in Seq(Nat) /\ IsInjective(x.ids)
      <3>1. n + 1 \notin Range(r.ids)
        <4>1. \A i \in DOMAIN r.ids : r.ids[i] \in 1 .. n
          BY <1>1
        <4> QED BY <1>1, <4>1 DEF Range
      <3>2. x.ids = Append(r.ids, n + 1)
        OBVIOUS
      <3>3. n + 1 \in Nat /\ n <= n + 1 /\ n + 1 \in 1 .. n + 1 /\ r.ids \in Seq(1 .. n)
        BY <1>1
      <3> HIDE DEF x, n
      <3> QED BY <1>1, <3>1, <3>2, <3>3, AddedInjective
    <2>5. x \in [actors : Seq(Exemplars), ids : Seq(Nat)]
      BY <2>3, <2>4
    <2> HIDE DEF x
    <2>6. Len(x.actors) >= m /\ \A b \in DOMAIN old : NoWorse(x.actors[b], old[b])
      BY <1>1, <2>3
    <2> QED BY <2>1, <2>3, <2>4, <2>5, <2>6 DEF Results
  <1>5. CASE matches # {} /\ Cardinality(matches) > 1
    BY <1>5 DEF Assign
  <1>6. CASE matches # {} /\ ~(Cardinality(matches) > 1)
    <2> DEFINE s == Retained(r.actors[a], t, c)
               x == [actors |-> [r.actors EXCEPT ![a] = s], ids |-> Listed(r.ids, a)]
    <2>1. Assign(t, r, c) = x
      BY <1>6 DEF Assign
    <2>2. a \in 1 .. n
      BY <1>1, <1>2, <1>6
    <2> HIDE DEF a, matches
    <2>3. s \in Exemplars /\ NoWorse(s, r.actors[a])
      BY <1>1, <1>3, <2>2, RetainedIn
    <2> HIDE DEF s
    <2>4. /\ x.actors \in Seq(Exemplars) /\ Len(x.actors) = n /\ DOMAIN x.actors = 1 .. n
          /\ \A b \in 1 .. n : x.actors[b] = IF b = a THEN s ELSE r.actors[b]
      BY <1>1, <2>2, <2>3
    <2>5. x.ids \in Seq(1 .. n) /\ x.ids \in Seq(Nat) /\ IsInjective(x.ids)
      <3>1. /\ Len(r.ids) \in Nat /\ DOMAIN r.ids = 1 .. Len(r.ids)
            /\ \A i, j \in 1 .. Len(r.ids) : r.ids[i] = r.ids[j] => i = j
        BY <1>1 DEF IsInjective
      <3>2. CASE a \in Range(r.ids)
        BY <1>1, <3>2 DEF Listed
      <3>3. CASE a \notin Range(r.ids)
        <4>1. x.ids = Append(r.ids, a)
          BY <3>3 DEF Listed
        <4>3. r.ids \in Seq(1 .. n) /\ n <= n
          BY <1>1
        <4> HIDE DEF x, n
        <4> QED BY <1>1, <2>2, <3>3, <4>1, <4>3, AddedInjective
      <3> QED BY <3>2, <3>3
    <2>6. x \in [actors : Seq(Exemplars), ids : Seq(Nat)]
      BY <2>4, <2>5
    <2> HIDE DEF x
    <2>7. ASSUME NEW b \in DOMAIN old PROVE NoWorse(x.actors[b], old[b])
      <3>1. b \in 1 .. n /\ NoWorse(r.actors[b], old[b]) /\ old[b] \in Seq(Exemplar) /\ r.actors[b] \in Seq(Exemplar)
        BY <1>1, <1>3
      <3>2. CASE b = a
        <4>1. x.actors[b] = s /\ s \in Seq(Exemplar)
          BY <1>3, <2>3, <2>4, <3>1, <3>2
        <4> QED BY <2>3, <3>1, <3>2, <4>1, NoWorseTransitive
      <3>3. CASE b # a
        BY <2>4, <3>1, <3>3
      <3> QED BY <3>2, <3>3
    <2> QED BY <1>1, <2>1, <2>4, <2>5, <2>6, <2>7 DEF Results
  <1> QED BY <1>4, <1>5, <1>6

\* All clusters of a torrent.
LEMMA AssignmentIn ==
    ASSUME NEW t \in Torrent, actors \in Seq(Exemplars), NEW clusters \in Seq(Sightings)
    PROVE  Assignment(t, clusters) \in Results(actors)
  <1> DEFINE D == Results(actors)
             E == Sightings
             n == Len(clusters)
             step == [x \in D \X E |-> Assign(t, x[1], x[2])]
             Eq(g) == g = [i \in 0 .. Len(clusters) |-> IF i = 0 THEN [actors |-> actors, ids |-> <<>>] ELSE Assign(t, g[i - 1], clusters[i])]
             fold == CHOOSE g : Eq(g)
  <1>1. Assignment(t, clusters) = fold[n]
    BY DEF Assignment, Folded
  <1>2. n \in Nat /\ clusters \in Seq(E) /\ \A i \in 1 .. n : clusters[i] \in E
    OBVIOUS
  <1>3. [actors |-> actors, ids |-> <<>>] \in D /\ \A a \in D, x \in E : Assign(t, a, x) \in D
    <2>1. [actors |-> actors, ids |-> <<>>] \in Results(actors)
      <3>1. \A a \in DOMAIN actors : NoWorse(actors[a], actors[a])
        BY NoWorseReflexive DEF Exemplars
      <3>2. Len(actors) \in Nat
        OBVIOUS
      <3> DEFINE x == [actors |-> actors, ids |-> <<>>]
      <3>3. /\ x.actors = actors /\ x.ids = <<>> /\ x \in [actors : Seq(Exemplars), ids : Seq(Nat)]
            /\ x.ids \in Seq(DOMAIN x.actors) /\ IsInjective(x.ids)
        BY DEF IsInjective
      <3> HIDE DEF x
      <3>4. x \in Results(actors)
        BY <3>1, <3>2, <3>3 DEF Results
      <3> QED BY <3>4 DEF x
    <2> QED BY <2>1, AssignIn
  <1> HIDE DEF D, E
  <1>4. \E g : Eq(g)
    <2>1. step \in [D \X E -> D]
      BY <1>3
    <2>2. PICK g \in [0 .. n -> D] : Follows(g, [actors |-> actors, ids |-> <<>>], step, clusters)
      <3> HIDE DEF step
      <3> QED BY <1>2, <1>3, <2>1, FoldExists
    <2>3. ASSUME NEW i \in 1 .. n PROVE g[i] = Assign(t, g[i - 1], clusters[i])
      <3>1. g[i - 1] \in D /\ clusters[i] \in E /\ g[i] = step[<<g[i - 1], clusters[i]>>]
        <4> HIDE DEF step
        <4>1. i - 1 \in 0 .. n /\ clusters[i] \in E
          BY <1>2
        <4>2. g[i - 1] \in D
          BY <4>1
        <4> QED BY <4>1, <4>2, <2>2 DEF Follows
      <3> QED BY <3>1
    <2> HIDE DEF step
    <2>4. Eq(g)
      BY <1>2, <2>2, <2>3 DEF Follows
    <2> QED BY <2>4
  <1>5. Eq(fold)
    <2> HIDE DEF Eq
    <2> QED BY <1>4
  <1> HIDE DEF fold
  <1>6. fold[0] = [actors |-> actors, ids |-> <<>>] /\ \A i \in 1 .. n : fold[i] = Assign(t, fold[i - 1], clusters[i])
    BY <1>2, <1>5
  <1>7. fold[0] \in D /\ \A i \in 1 .. n : fold[i - 1] \in D => fold[i] \in D
    BY <1>2, <1>3, <1>6
  <1>8. \A i \in 0 .. n : fold[i] \in D
    BY <1>2, <1>7, EachStepIn
  <1> QED BY <1>1, <1>2, <1>8 DEF D
-----------------------------------------------------------------------------
(***************************************************************************)
(* The invariant.                                                          *)
(***************************************************************************)

\* The inductive invariant: the caps belong to the type of what is kept, and an
\* analysis gives no actor to two of its people.
Inv ==
    /\ actors \in Seq(Exemplars)
    /\ assigned \in [Torrent -> Seq(DOMAIN actors)]
    /\ \A t \in Torrent : IsInjective(assigned[t])

\* The invariant holds with nobody known.
LEMMA InitInv == Init => Inv
  BY DEF Init, Inv, IsInjective

\* An analysis keeps the invariant and the evidence of every actor.
LEMMA AnalyseEffect ==
    ASSUME Inv, NEW t \in Torrent, NEW clusters \in Analyses, Analyse(t, clusters)
    PROVE  /\ Inv'
           /\ Len(actors') >= Len(actors)
           /\ \A a \in DOMAIN actors : NoWorse(actors'[a], actors[a])
  <1> DEFINE r == Assignment(t, clusters)
  <1>1. r \in Results(actors)
    BY AnalysesIn, AssignmentIn DEF Inv
  <1>2. actors' = r.actors /\ assigned' = [assigned EXCEPT ![t] = r.ids]
    BY DEF Analyse
  <1> HIDE DEF r
  <1>3. /\ actors' \in Seq(Exemplars) /\ r.ids \in Seq(DOMAIN actors') /\ IsInjective(r.ids)
        /\ Len(actors') >= Len(actors)
        /\ \A a \in DOMAIN actors : NoWorse(actors'[a], actors[a])
    BY <1>1, <1>2 DEF Results
  <1>4. DOMAIN actors \subseteq DOMAIN actors'
    BY <1>3 DEF Inv
  <1>5. ASSUME NEW u \in Torrent PROVE assigned'[u] \in Seq(DOMAIN actors') /\ IsInjective(assigned'[u])
    <2>1. CASE u = t
      BY <1>2, <1>3, <2>1 DEF Inv
    <2>2. CASE u # t
      <3>1. assigned'[u] = assigned[u] /\ assigned[u] \in Seq(DOMAIN actors) /\ IsInjective(assigned[u])
        BY <1>2, <2>2 DEF Inv
      <3> QED BY <1>4, <3>1, SeqMonotonic
    <2> QED BY <2>1, <2>2
  <1>6. assigned' \in [Torrent -> Seq(DOMAIN actors')]
    BY <1>2, <1>5 DEF Inv
  <1> QED BY <1>3, <1>5, <1>6 DEF Inv

\* Every step keeps the invariant.
LEMMA NextInv == Inv /\ [Next]_vars => Inv'
  <1> SUFFICES ASSUME Inv, [Next]_vars PROVE Inv'
    OBVIOUS
  <1>1. CASE Next
    BY <1>1, AnalyseEffect DEF Next
  <1>2. CASE UNCHANGED vars
    BY <1>2 DEF Inv, vars
  <1> QED BY <1>1, <1>2

\* The inductive invariant holds in every behaviour.
THEOREM Invariant == Spec => []Inv
  BY InitInv, NextInv, PTL DEF Spec

\* Actors keep exemplars of theirs, and torrents list actors there are, none twice.
THEOREM TypeCorrect == Spec => []TypeOK
  <1>1. Inv => TypeOK
    <2> SUFFICES ASSUME Inv PROVE TypeOK
      OBVIOUS
    <2>1. Exemplars \subseteq Seq(Exemplar) \ {<<>>}
      BY DEF Exemplars
    <2>2. actors \in Seq(Seq(Exemplar) \ {<<>>})
      BY <2>1, SeqMonotonic DEF Inv
    <2> QED BY <2>2 DEF Inv, TypeOK
  <1> QED BY <1>1, Invariant, PTL

\* docs/data-model.md:70, for every analysis: no actor keeps more exemplars than the
\* caps of _retain_exemplars allow, nor two alike.
THEOREM CapsHold == Spec => []ExemplarsCapped
  <1>1. Inv => ExemplarsCapped
    <2> SUFFICES ASSUME Inv PROVE ExemplarsCapped
      OBVIOUS
    <2>1. \A a \in DOMAIN actors : Capped(actors[a])
      BY DEF Inv, Exemplars
    <2> QED BY <2>1 DEF Capped, ExemplarsCapped
  <1> QED BY <1>1, Invariant, PTL

\* No analysis costs an actor evidence of any quality (_retain_exemplars replaces only by better).
THEOREM EvidenceKept == Spec => EvidenceImproves
  <1> DEFINE Better == \A a \in DOMAIN actors, q \in 1 .. Quality :
               LET G(s) == Cardinality({i \in DOMAIN s : s[i].quality >= q})
               IN G(actors'[a]) >= G(actors[a])
  <1>1. ASSUME Inv, [Next]_vars PROVE [Better]_vars
    <2>1. CASE Next
      <3>1. PICK t \in Torrent, clusters \in Analyses : Analyse(t, clusters)
        BY <2>1 DEF Next
      <3>2. \A a \in DOMAIN actors : NoWorse(actors'[a], actors[a])
        BY <1>1, <3>1, AnalyseEffect
      <3> QED BY <3>2 DEF NoWorse, Good
    <2>2. CASE UNCHANGED vars
      BY <2>2
    <2> QED BY <1>1, <2>1, <2>2
  <1> QED BY <1>1, Invariant, PTL DEF Spec, EvidenceImproves
-----------------------------------------------------------------------------
(***************************************************************************)
(* The evaluation.                                                         *)
(***************************************************************************)

\* A finite set has more than one element if it has two.
LEMMA MoreThanOne ==
    ASSUME NEW S, IsFiniteSet(S)
    PROVE  Cardinality(S) > 1 <=> \E x, y \in S : x # y
  <1>1. Cardinality(S) \in Nat /\ (Cardinality(S) = 0 <=> S = {})
    BY FS_CardinalityType, FS_EmptySet
  <1>2. Cardinality(S) = 1 <=> \E x : S = {x}
    BY FS_Singleton
  <1>3. CASE \E x, y \in S : x # y
    BY <1>1, <1>2, <1>3
  <1>4. CASE S # {} /\ ~\E x, y \in S : x # y
    <2>1. PICK x \in S : TRUE
      BY <1>4
    <2>2. S = {x}
      BY <1>4, <2>1
    <2> QED BY <1>2, <1>4, <2>2
  <1>5. CASE S = {}
    BY <1>1, <1>5
  <1> QED BY <1>3, <1>4, <1>5

\* The torrents are finitely many, and what a function makes of some of them too.
LEMMA ImageFinite ==
    ASSUME NEW f, NEW T \in SUBSET Torrent
    PROVE  IsFiniteSet({f[t] : t \in T})
  <1> DEFINE g == [t \in T |-> f[t]]
             S == {f[t] : t \in T}
  <1>1. IsFiniteSet(T)
    BY IdentityAssumption, FS_Subset
  <1>2. g \in Surjection(T, S)
    BY DEF Surjection
  <1> HIDE DEF g, S
  <1>3. IsFiniteSet(S)
    BY <1>1, <1>2, FS_Surjection
  <1> QED BY <1>3 DEF S

\* The counts of evaluation.py compare the two divisions of the torrents.
LEMMA Evaluates == Inv => EvaluationIsPartition
  <1> SUFFICES ASSUME Inv, NEW truth \in [Torrent -> Torrent]
               PROVE  Passed(truth) <=>
                        /\ Missed = {}
                        /\ \A t, u \in Torrent : truth[t] = truth[u] <=> Primary(t) = Primary(u)
    BY DEF EvaluationIsPartition
  <1> SUFFICES ASSUME Missed = {}
               PROVE  (FalseMerges(truth) = {} /\ Splits(truth) = {})
                        <=> \A t, u \in Torrent : truth[t] = truth[u] <=> Primary(t) = Primary(u)
    BY DEF Passed
  <1> DEFINE first == [t \in Torrent |-> Primary(t)]
             Of(a) == {u \in Torrent : Primary(u) = a}
             People(p) == {u \in Torrent : truth[u] = p}
  <1>1. Torrent \ Missed = Torrent
    OBVIOUS
  <1>2. ASSUME NEW t \in Torrent PROVE Primary(t) \in DOMAIN actors
    <2>1. assigned[t] # <<>> /\ assigned[t] \in Seq(DOMAIN actors)
      BY DEF Missed, Inv
    <2> QED BY <2>1 DEF Primary
  <1>3. FalseMerges(truth) = {} <=> \A t, u \in Torrent : Primary(t) = Primary(u) => truth[t] = truth[u]
    <2>1. ASSUME NEW a
          PROVE  Cardinality({truth[t] : t \in Of(a)}) > 1
                   <=> \E t, u \in Of(a) : truth[t] # truth[u]
      <3> DEFINE S == {truth[t] : t \in Of(a)}
      <3>1. IsFiniteSet(S)
        <4>1. Of(a) \in SUBSET Torrent
          OBVIOUS
        <4> HIDE DEF Of
        <4> QED BY <4>1, ImageFinite
      <3>2. Cardinality(S) > 1 <=> \E x, y \in S : x # y
        <4> HIDE DEF S
        <4> QED BY <3>1, MoreThanOne
      <3> HIDE DEF Of
      <3> QED BY <3>2
    <2>2. FalseMerges(truth) = {a \in DOMAIN actors : Cardinality({truth[t] : t \in Of(a)}) > 1}
      BY <1>1 DEF FalseMerges
    <2>3. FalseMerges(truth) = {a \in DOMAIN actors : \E t, u \in Of(a) : truth[t] # truth[u]}
      <3> HIDE DEF Of
      <3> QED BY <2>1, <2>2
    <2> QED BY <1>2, <2>3
  <1>4. Splits(truth) = {} <=> \A t, u \in Torrent : truth[t] = truth[u] => Primary(t) = Primary(u)
    <2>1. ASSUME NEW p
          PROVE  Cardinality({Primary(t) : t \in People(p)}) > 1
                   <=> \E t, u \in People(p) : Primary(t) # Primary(u)
      <3> DEFINE S == {first[t] : t \in People(p)}
      <3>0. People(p) \in SUBSET Torrent
        OBVIOUS
      <3>1. IsFiniteSet(S)
        <4> HIDE DEF People, first
        <4> QED BY <3>0, ImageFinite
      <3>2. Cardinality(S) > 1 <=> \E x, y \in S : x # y
        <4> HIDE DEF S
        <4> QED BY <3>1, MoreThanOne
      <3>3. S = {Primary(t) : t \in People(p)}
        BY <3>0
      <3> HIDE DEF People, first
      <3> QED BY <3>2, <3>3
    <2>2. Splits(truth) = {p \in Range(truth) : Cardinality({Primary(t) : t \in People(p)}) > 1}
      BY <1>1 DEF Splits
    <2>3. Splits(truth) = {p \in Range(truth) : \E t, u \in People(p) : Primary(t) # Primary(u)}
      <3> HIDE DEF People
      <3> QED BY <2>1, <2>2
    <2> QED BY <2>3 DEF Range
  <1> QED BY <1>3, <1>4

\* evaluation.py passes exactly the assignments that divide the torrents as the truth does.
THEOREM EvaluationAgrees == Spec => []EvaluationIsPartition
  BY Evaluates, Invariant, PTL
=============================================================================
