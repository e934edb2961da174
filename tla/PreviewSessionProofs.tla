------------------------- MODULE PreviewSessionProofs -------------------------
(***************************************************************************)
(* PreviewSession, for every number of resolvers and anchors, all sizes of  *)
(* files, pieces and ranges, and whatever sources, ffmpeg and the model     *)
(* answer: what a download asks for, what a result is made of, what an      *)
(* outcome stands for, and that no session is failed for waiting too soon.  *)
(*                                                                         *)
(* The first half follows the algorithms (ranges, pieces, deadlines,        *)
(* frames), the second the steps of a session.  The loops are folds; see    *)
(* ActorIdentityProofs for the induction by which they are proved along.    *)
(***************************************************************************)
EXTENDS PreviewSession, FiniteSetTheorems, FunctionTheorems, SequenceTheorems,
        WellFoundedInduction, TLAPS

-----------------------------------------------------------------------------
(***************************************************************************)
(* Induction over an interval, by the least number at which it would fail.  *)
(***************************************************************************)

\* What holds of 0 and goes from each number to the next holds up to n.
LEMMA Induction ==
    ASSUME NEW n \in Nat, NEW S, 0 \in S, \A i \in 0 .. n - 1 : i \in S => i + 1 \in S
    PROVE  0 .. n \subseteq S
  <1> DEFINE R == OpToRel(<, Nat)
             T == (0 .. n) \ S
  <1> SUFFICES ASSUME T # {} PROVE FALSE
    OBVIOUS
  <1>1. PICK x \in T : \A y \in T : <<y, x>> \notin R
    <2>1. IsWellFoundedOn(R, Nat)
      BY NatLessThanWellFounded
    <2>2. T \subseteq Nat
      OBVIOUS
    <2> HIDE DEF R, T
    <2> QED BY <2>1, <2>2, WFMin
  <1>2. x - 1 \in 0 .. n - 1
    OBVIOUS
  <1>3. <<x - 1, x>> \in R
    BY <1>2 DEF OpToRel
  <1>4. x - 1 \notin T
    BY <1>1, <1>3
  <1> QED BY <1>2, <1>4

\* A loop whose steps stay in a set stays in it.
LEMMA EachStepIn ==
    ASSUME NEW n \in Nat, NEW D, NEW g, g[0] \in D,
           \A i \in 1 .. n : g[i - 1] \in D => g[i] \in D
    PROVE  \A i \in 0 .. n : g[i] \in D
  <1> DEFINE S == {i \in 0 .. n : g[i] \in D}
  <1>1. 0 \in S /\ \A i \in 0 .. n - 1 : i \in S => i + 1 \in S
    OBVIOUS
  <1>2. 0 .. n \subseteq S
    <2> HIDE DEF S
    <2> QED BY <1>1, Induction
  <1> QED BY <1>2

\* The values of a fold.
Follows(g, base, step, s) ==
    g[0] = base /\ \A i \in 1 .. Len(s) : g[i] = step[<<g[i - 1], s[i]>>]

\* A fold whose steps stay in a set is well defined.
LEMMA FoldExists ==
    ASSUME NEW D, NEW E, NEW s \in Seq(E), NEW base \in D, NEW step \in [D \X E -> D]
    PROVE  \E g \in [0 .. Len(s) -> D] : Follows(g, base, step, s)
  <1> DEFINE n == Len(s)
             Eq(g, m) == g = [i \in 0 .. m |-> IF i = 0 THEN base ELSE step[<<g[i - 1], s[i]>>]]
             S == {m \in 0 .. n : \E g \in [0 .. m -> D] : Eq(g, m)}
  <1>0. n \in Nat /\ \A i \in 1 .. n : s[i] \in E
    OBVIOUS
  <1>1. 0 \in S
    <2> DEFINE g == [i \in 0 .. 0 |-> base]
    <2>1. g \in [0 .. 0 -> D] /\ Eq(g, 0)
      OBVIOUS
    <2> HIDE DEF g, Eq
    <2> QED BY <1>0, <2>1
  <1>2. ASSUME NEW m \in 0 .. n - 1, m \in S PROVE m + 1 \in S
    <2>1. PICK g \in [0 .. m -> D] : Eq(g, m)
      BY <1>2
    <2> DEFINE h == [i \in 0 .. m + 1 |-> IF i <= m THEN g[i] ELSE step[<<g[m], s[m + 1]>>]]
    <2>2. s[m + 1] \in E
      BY <1>0
    <2>3. h \in [0 .. m + 1 -> D]
      BY <2>2
    <2>4. ASSUME NEW i \in 0 .. m + 1
          PROVE  h[i] = IF i = 0 THEN base ELSE step[<<h[i - 1], s[i]>>]
      <3>1. CASE i = m + 1
        <4>1. m \in 0 .. m + 1 /\ h[m] = g[m] /\ i - 1 = m /\ i # 0
          BY <3>1
        <4> QED BY <3>1, <4>1
      <3>2. CASE i \in 0 .. m
        BY <3>2, <2>1
      <3> QED BY <3>1, <3>2
    <2>5. Eq(h, m + 1)
      BY <2>4
    <2>6. m + 1 \in 0 .. n
      BY <1>0
    <2> HIDE DEF h, Eq
    <2> QED BY <2>3, <2>5, <2>6
  <1>3. n \in S
    <2> HIDE DEF S
    <2>1. 0 .. n \subseteq S
      BY <1>0, <1>1, <1>2, Induction
    <2> QED BY <1>0, <2>1
  <1>4. PICK g \in [0 .. n -> D] : Eq(g, n)
    BY <1>3
  <1>5. g[0] = base /\ \A i \in 1 .. n : g[i] = step[<<g[i - 1], s[i]>>]
    BY <1>0, <1>4
  <1> QED BY <1>4, <1>5 DEF Follows
-----------------------------------------------------------------------------
(***************************************************************************)
(* Sorting by rank.                                                        *)
(***************************************************************************)

\* Those before x: how many they are is its rank.
Below(x, R, S) == {y \in S : <<y, x>> \in R}

\* A strict total order of the set.
Orders(R, S) ==
    /\ \A x \in S : <<x, x>> \notin R
    /\ \A x, y \in S : <<x, y>> \in R \/ <<y, x>> \in R \/ x = y
    /\ \A x, y, z \in S : <<x, y>> \in R /\ <<y, z>> \in R => <<x, z>> \in R

\* In a finite set with a strict total order every rank is somebody's, only one's.
LEMMA Ranks ==
    ASSUME NEW S, IsFiniteSet(S), NEW R, Orders(R, S)
    PROVE  /\ \A x \in S : Cardinality(Below(x, R, S)) \in 0 .. Cardinality(S) - 1
           /\ \A x, y \in S : <<x, y>> \in R <=>
                Cardinality(Below(x, R, S)) < Cardinality(Below(y, R, S))
           /\ \A k \in 1 .. Cardinality(S) : \E x \in S : Cardinality(Below(x, R, S)) = k - 1
  <1> DEFINE n == Cardinality(S)
             rank == [x \in S |-> Cardinality(Below(x, R, S)) + 1]
  <1>1. n \in Nat
    BY FS_CardinalityType
  <1>2. ASSUME NEW x \in S
        PROVE  /\ IsFiniteSet(Below(x, R, S)) /\ Cardinality(Below(x, R, S)) \in 0 .. n - 1
    <2>1. Below(x, R, S) \in SUBSET S /\ x \notin Below(x, R, S)
      BY DEF Below, Orders
    <2>2. IsFiniteSet(Below(x, R, S)) /\ Cardinality(Below(x, R, S)) <= n /\
          (n = Cardinality(Below(x, R, S)) => S = Below(x, R, S))
      BY <2>1, FS_Subset
    <2>3. Cardinality(Below(x, R, S)) \in Nat
      BY <2>2, FS_CardinalityType
    <2> QED BY <1>1, <2>1, <2>2, <2>3
  <1>3. ASSUME NEW x \in S, NEW y \in S, <<x, y>> \in R
        PROVE  Cardinality(Below(x, R, S)) < Cardinality(Below(y, R, S))
    <2>1. Below(x, R, S) \in SUBSET Below(y, R, S) /\ x \in Below(y, R, S) /\ x \notin Below(x, R, S)
      BY <1>3 DEF Below, Orders
    <2>2. Cardinality(Below(x, R, S)) <= Cardinality(Below(y, R, S)) /\
          (Cardinality(Below(y, R, S)) = Cardinality(Below(x, R, S)) => Below(y, R, S) = Below(x, R, S))
      BY <1>2, <2>1, FS_Subset
    <2> QED BY <1>2, <2>1, <2>2
  <1>4. ASSUME NEW x \in S, NEW y \in S
        PROVE  <<x, y>> \in R <=> Cardinality(Below(x, R, S)) < Cardinality(Below(y, R, S))
    <2>1. Cardinality(Below(x, R, S)) \in Int /\ Cardinality(Below(y, R, S)) \in Int
      BY <1>2
    <2>2. CASE <<x, y>> \in R
      BY <1>3, <2>2
    <2>3. CASE <<y, x>> \in R
      <3>1. Cardinality(Below(y, R, S)) < Cardinality(Below(x, R, S))
        BY <1>3, <2>3
      <3>2. <<x, y>> \notin R
        BY <2>3 DEF Orders
      <3> QED BY <2>1, <3>1, <3>2
    <2>4. CASE x = y
      BY <2>1, <2>4 DEF Orders
    <2> QED BY <2>2, <2>3, <2>4 DEF Orders
  <1>5. ASSUME NEW k \in 1 .. n PROVE \E x \in S : Cardinality(Below(x, R, S)) = k - 1
    <2>1. rank \in [S -> 1 .. n]
      BY <1>1, <1>2
    <2>2. ASSUME NEW x \in S, NEW y \in S, rank[x] = rank[y] PROVE x = y
      <3>1. Cardinality(Below(x, R, S)) = Cardinality(Below(y, R, S))
        BY <1>2, <2>2
      <3>2. <<x, y>> \notin R /\ <<y, x>> \notin R
        BY <1>2, <1>4, <3>1
      <3> QED BY <3>2 DEF Orders
    <2>3. rank \in Injection(S, 1 .. n)
      <3> HIDE DEF rank
      <3> QED BY <2>1, <2>2 DEF Injection, IsInjective
    <2>4. IsFiniteSet(1 .. n) /\ Cardinality(1 .. n) = n
      BY <1>1, FS_Interval
    <2>5. rank \in Surjection(S, 1 .. n)
      <3> HIDE DEF rank
      <3> QED BY <2>3, <2>4, FS_Injection
    <2>6. PICK x \in S : rank[x] = k
      <3> HIDE DEF rank
      <3> QED BY <2>5 DEF Surjection
    <2> QED BY <1>2, <2>6
  <1> QED BY <1>2, <1>4, <1>5

\* The sequence has in its k-th place the one of rank k - 1.
Lists(q, R, S) ==
    /\ q \in [1 .. Cardinality(S) -> S]
    /\ \A k \in 1 .. Cardinality(S) : Cardinality(Below(q[k], R, S)) = k - 1

\* A sequence that lists a set by rank is the set in order.
LEMMA RankedSequence ==
    ASSUME NEW S, IsFiniteSet(S), NEW R, Orders(R, S), NEW q, Lists(q, R, S)
    PROVE  /\ q \in Seq(S) /\ Len(q) = Cardinality(S) /\ Cardinality(S) \in Nat
           /\ \A i, j \in 1 .. Len(q) : i < j <=> <<q[i], q[j]>> \in R
           /\ \A x \in S : \E k \in 1 .. Len(q) : q[k] = x
  <1> DEFINE n == Cardinality(S)
  <1>1. n \in Nat
    BY FS_CardinalityType
  <1>2. q \in [1 .. n -> S] /\ \A k \in 1 .. n : Cardinality(Below(q[k], R, S)) = k - 1
    BY DEF Lists
  <1>3. q \in Seq(S) /\ Len(q) = n
    BY <1>1, <1>2
  <1>4. ASSUME NEW x \in S PROVE \E k \in 1 .. n : q[k] = x
    <2>1. PICK k \in 1 .. n : k - 1 = Cardinality(Below(x, R, S))
      <3> DEFINE m == Cardinality(Below(x, R, S))
      <3>1. m \in 0 .. n - 1
        BY Ranks
      <3>2. m + 1 \in 1 .. n /\ (m + 1) - 1 = m
        BY <1>1, <3>1
      <3> QED BY <3>2
    <2>2. q[k] \in S /\ Cardinality(Below(q[k], R, S)) = Cardinality(Below(x, R, S))
      BY <1>2, <2>1
    <2>3. <<q[k], x>> \notin R /\ <<x, q[k]>> \notin R
      BY <2>2, Ranks
    <2> QED BY <2>2, <2>3 DEF Orders
  <1>5. ASSUME NEW i \in 1 .. n, NEW j \in 1 .. n PROVE i < j <=> <<q[i], q[j]>> \in R
    <2>1. /\ q[i] \in S /\ Cardinality(Below(q[i], R, S)) = i - 1
          /\ q[j] \in S /\ Cardinality(Below(q[j], R, S)) = j - 1
      BY <1>2
    <2> QED BY <1>1, <2>1, Ranks
  <1> QED BY <1>1, <1>3, <1>4, <1>5

\* A set of integers in order.
LEMMA AscendingSorts ==
    ASSUME NEW S \in SUBSET Int, IsFiniteSet(S)
    PROVE  /\ Ascending(S) \in Seq(S) /\ Len(Ascending(S)) = Cardinality(S)
           /\ \A i, j \in 1 .. Len(Ascending(S)) : i < j <=> Ascending(S)[i] < Ascending(S)[j]
           /\ \A x \in S : \E k \in 1 .. Len(Ascending(S)) : Ascending(S)[k] = x
  <1> DEFINE R == {p \in S \X S : p[1] < p[2]}
             q == Ascending(S)
  <1>1. Orders(R, S)
    BY DEF Orders
  <1>2. ASSUME NEW x \in S PROVE Below(x, R, S) = {y \in S : y < x}
    BY DEF Below
  <1>3. q = [k \in 1 .. Cardinality(S) |-> CHOOSE x \in S : Cardinality({y \in S : y < x}) = k - 1]
    BY DEF Ascending, Sorted
  <1>4. ASSUME NEW k \in 1 .. Cardinality(S)
        PROVE  q[k] \in S /\ Cardinality(Below(q[k], R, S)) = k - 1
    <2>1. PICK x \in S : Cardinality(Below(x, R, S)) = k - 1
      <3> HIDE DEF R, q
      <3> QED BY <1>1, Ranks
    <2>2. Cardinality({y \in S : y < x}) = k - 1
      BY <1>2, <2>1
    <2>3. q[k] \in S /\ Cardinality({y \in S : y < q[k]}) = k - 1
      <3> HIDE DEF q
      <3> QED BY <1>3, <2>2
    <2> HIDE DEF R, q
    <2> QED BY <1>2, <2>3
  <1>5. Lists(q, R, S)
    BY <1>3, <1>4 DEF Lists
  <1>6. \A x, y \in S : <<x, y>> \in R <=> x < y
    OBVIOUS
  <1> HIDE DEF R, q
  <1>7. /\ q \in Seq(S) /\ Len(q) = Cardinality(S) /\ Cardinality(S) \in Nat
        /\ \A i, j \in 1 .. Len(q) : i < j <=> <<q[i], q[j]>> \in R
        /\ \A x \in S : \E k \in 1 .. Len(q) : q[k] = x
    BY <1>1, <1>5, RankedSequence
  <1>8. \A i \in 1 .. Len(q) : q[i] \in S
    BY <1>7
  <1>9. \A i, j \in 1 .. Len(q) : i < j <=> q[i] < q[j]
    BY <1>6, <1>7, <1>8
  <1> QED BY <1>7, <1>9 DEF q

\* What passes a test is a sequence of the same elements.
LEMMA PassingIn ==
    ASSUME NEW C, NEW s \in Seq(C), NEW T \in SUBSET DOMAIN s
    PROVE  [k \in DOMAIN Ascending(T) |-> s[Ascending(T)[k]]] \in Seq(C)
  <1>1. IsFiniteSet(T) /\ T \in SUBSET Int
    <2>1. DOMAIN s = 1 .. Len(s) /\ Len(s) \in Nat
      OBVIOUS
    <2>2. IsFiniteSet(1 .. Len(s))
      BY <2>1, FS_Interval
    <2> QED BY <2>1, <2>2, FS_Subset
  <1>2. Ascending(T) \in Seq(T)
    BY <1>1, AscendingSorts
  <1> DEFINE n == Len(Ascending(T))
  <1>3. n \in Nat /\ DOMAIN Ascending(T) = 1 .. n /\ \A k \in 1 .. n : Ascending(T)[k] \in T
    BY <1>2
  <1>4. \A k \in T : s[k] \in C
    OBVIOUS
  <1>5. [k \in 1 .. n |-> s[Ascending(T)[k]]] \in [1 .. n -> C]
    BY <1>3, <1>4
  <1> QED BY <1>3, <1>5, SeqDef

\* The library takes a minimum of a set.
LEMMA MinOfTwo ==
    ASSUME NEW a \in Int, NEW b \in Int
    PROVE  Min({a, b}) = IF a <= b THEN a ELSE b
  BY DEF Min

\* And a maximum.
LEMMA MaxOfTwo ==
    ASSUME NEW a \in Int, NEW b \in Int
    PROVE  Max({a, b}) = IF a >= b THEN a ELSE b
  BY DEF Max

-----------------------------------------------------------------------------
(***************************************************************************)
(* Settings, sizes, and the torrents there is something to download of.    *)
(***************************************************************************)

\* What the assumption says of each constant.
LEMMA Settings ==
    /\ Target \in Nat \ {0} /\ Bootstrap \in Nat \ {0} /\ Resolvers \in Nat \ {0}
    /\ AnchorRange \in Nat \ {0} /\ EdgeRange \in Nat \ {0} /\ DhtEnabled \in BOOLEAN
    /\ MinCandidates \in Nat \ {0} /\ MaxCandidates \in Nat \ {0} /\ ExtractPerAnchor \in Nat
    /\ MinCandidates <= MaxCandidates
    /\ RetryRanges \in Seq(Nat) /\ Payloads \subseteq Payload /\ NoPayload \notin Payload
    /\ \A i \in DOMAIN RetryRanges :
          RetryRanges[i] > IF i = 1 THEN AnchorRange ELSE RetryRanges[i - 1]
  BY SessionAssumption DEF SettingsOK, ConfigOK

\* Division by a number of bytes keeps the order,
LEMMA DivMonotone ==
    ASSUME NEW a \in Nat, NEW b \in Nat, a <= b, NEW d \in Nat \ {0}
    PROVE  a \div d \in Nat /\ a \div d <= b \div d
  OBVIOUS

\* and a bound.
LEMMA DivBelow ==
    ASSUME NEW a \in Nat, NEW b \in Nat, NEW d \in Nat \ {0}, a < b * d
    PROVE  a \div d < b
  OBVIOUS

\* Files as the engine reads them.
Whole == {f \in File : f.length >= 0}

\* A sum of sizes is a number.
LEMMA SizesNat ==
    ASSUME NEW files \in Seq(Whole)
    PROVE  Sizes(files) \in Nat
  <1> DEFINE D == Nat
             E == Whole
             n == Len(files)
             step == [x \in D \X E |-> x[1] + x[2].length]
             Eq(g) == g = [i \in 0 .. Len(files) |-> IF i = 0 THEN 0 ELSE g[i - 1] + files[i].length]
             fold == CHOOSE g : Eq(g)
  <1>1. Sizes(files) = fold[n]
    BY DEF Sizes, Folded
  <1>2. n \in Nat /\ files \in Seq(E) /\ \A i \in 1 .. n : files[i] \in E
    OBVIOUS
  <1>3. 0 \in D /\ \A a \in D, x \in E : a + x.length \in D
    BY DEF Whole, File
  <1> HIDE DEF D, E
  <1>4. \E g : Eq(g)
    <2>1. step \in [D \X E -> D]
      BY <1>3
    <2>2. PICK g \in [0 .. n -> D] : Follows(g, 0, step, files)
      <3> HIDE DEF step
      <3> QED BY <1>2, <1>3, <2>1, FoldExists
    <2>3. ASSUME NEW i \in 1 .. n PROVE g[i] = g[i - 1] + files[i].length
      <3>1. g[i - 1] \in D /\ files[i] \in E /\ g[i] = step[<<g[i - 1], files[i]>>]
        <4> HIDE DEF step
        <4>1. i - 1 \in 0 .. n /\ files[i] \in E
          BY <1>2
        <4>2. g[i - 1] \in D
          BY <4>1
        <4> QED BY <4>1, <4>2, <2>2 DEF Follows
      <3> QED BY <3>1
    <2> HIDE DEF step
    <2>4. Eq(g)
      BY <1>2, <2>2, <2>3 DEF Follows
    <2> QED BY <2>4
  <1>5. Eq(fold)
    <2> HIDE DEF Eq
    <2> QED BY <1>4
  <1> HIDE DEF fold
  <1>6. fold[0] = 0 /\ \A i \in 1 .. n : fold[i] = fold[i - 1] + files[i].length
    BY <1>2, <1>5
  <1>7. fold[0] \in D /\ \A i \in 1 .. n : fold[i - 1] \in D => fold[i] \in D
    BY <1>2, <1>3, <1>6
  <1>8. \A i \in 0 .. n : fold[i] \in D
    BY <1>2, <1>7, EachStepIn
  <1> QED BY <1>1, <1>2, <1>8 DEF D

\* A torrent the engine can read, with a video.
Playable(p) == p \in Payloads /\ Usable(p) /\ Videos(p) # {}

\* The order of the videos has a best one, whatever their names and sizes.
LEMMA SelectedVideo ==
    ASSUME NEW p \in Payload, Videos(p) # {}
    PROVE  Selected(p) \in Videos(p)
  <1> DEFINE V == Videos(p)
             Beats(f, g) == f.shared > g.shared \/ (f.shared = g.shared /\ f.length > g.length)
             Before(i, j) == \/ Beats(p.files[i], p.files[j])
                             \/ (~Beats(p.files[j], p.files[i]) /\ i < j)
             R == {x \in V \X V : Before(x[1], x[2])}
  <1>1. /\ p.files \in Seq(File) /\ DOMAIN p.files = 1 .. Len(p.files) /\ Len(p.files) \in Nat
        /\ V \in SUBSET (1 .. Len(p.files))
    BY DEF Payload, Videos
  <1>2. IsFiniteSet(V) /\ Cardinality(V) \in Nat \ {0}
    <2>1. IsFiniteSet(1 .. Len(p.files))
      BY <1>1, FS_Interval
    <2>2. IsFiniteSet(V)
      BY <1>1, <2>1, FS_Subset
    <2> QED BY <2>2, FS_CardinalityType, FS_EmptySet
  <1>3. \A i \in V : i \in Nat /\ p.files[i].shared \in Nat /\ p.files[i].length \in Int
    <2>1. \A i \in V : i \in Nat /\ p.files[i] \in File
      BY <1>1
    <2> QED BY <2>1 DEF File
  <1>4. Orders(R, V)
    <2>1. \A i \in V : <<i, i>> \notin R
      BY <1>3
    <2>2. \A i, j \in V : <<i, j>> \in R \/ <<j, i>> \in R \/ i = j
      BY <1>3
    <2>3. ASSUME NEW i \in V, NEW j \in V, NEW k \in V, <<i, j>> \in R, <<j, k>> \in R
          PROVE  <<i, k>> \in R
      <3>1. Before(i, j) /\ Before(j, k)
        BY <2>3
      <3>2. Before(i, k)
        BY <1>3, <3>1
      <3> QED BY <3>2
    <2> HIDE DEF R
    <2> QED BY <2>1, <2>2, <2>3 DEF Orders
  <1>5. PICK i \in V : Cardinality(Below(i, R, V)) = 0
    <2> HIDE DEF R, V
    <2>1. 1 \in 1 .. Cardinality(V)
      BY <1>2
    <2>2. \E x \in V : Cardinality(Below(x, R, V)) = 1 - 1
      BY <1>2, <1>4, <2>1, Ranks
    <2> QED BY <2>2
  <1>6. \A j \in V : <<j, i>> \notin R
    <2>1. IsFiniteSet(Below(i, R, V))
      BY <1>2, FS_Subset DEF Below
    <2>2. Below(i, R, V) = {}
      BY <1>5, <2>1, FS_EmptySet
    <2> QED BY <2>2 DEF Below
  <1>7. \A j \in V \ {i} : <<i, j>> \in R
    BY <1>4, <1>6 DEF Orders
  <1>8. \A j \in V \ {i} : Before(i, j)
    BY <1>7
  <1> QED BY <1>8 DEF Selected

\* What the engine reads of a torrent it can play.
LEMMA FileInTorrent ==
    ASSUME NEW p, Playable(p)
    PROVE  Length(p) \in Nat \ {0} /\ Offset(p) \in Nat /\ p.piece \in Nat \ {0}
  <1>1. /\ p.piece \in Nat \ {0} /\ p.files \in Seq(File)
        /\ \A i \in DOMAIN p.files : p.files[i].length >= 0
    BY Settings DEF Playable, Payload, Usable, ExpectFiles
  <1>2. Selected(p) \in Videos(p)
    BY Settings, SelectedVideo DEF Playable
  <1> DEFINE k == Selected(p)
  <1>3. k \in 1 .. Len(p.files) /\ p.files[k].length > 0 /\ p.files[k] \in File
    BY <1>1, <1>2 DEF Videos, IsVideo
  <1>4. Length(p) \in Nat \ {0}
    BY <1>3 DEF Length, File
  <1> HIDE DEF k
  <1>5. p.files \in Seq(Whole)
    <2>1. \A i \in 1 .. Len(p.files) : p.files[i] \in Whole
      BY <1>1 DEF Whole
    <2>2. p.files = [i \in 1 .. Len(p.files) |-> p.files[i]]
      BY <1>1
    <2> QED BY <1>1, <2>1, <2>2, SeqDef
  <1>6. SubSeq(p.files, 1, k - 1) \in Seq(Whole)
    BY <1>3, <1>5
  <1> QED BY <1>1, <1>4, <1>6, SizesNat DEF Offset, k

\* Bytes in order are in pieces in order.
LEMMA PieceOrder ==
    ASSUME NEW p, Playable(p), NEW b \in Nat, NEW c \in Nat, b <= c
    PROVE  PieceOf(p, b) \in Nat /\ PieceOf(p, c) \in Nat /\ PieceOf(p, b) <= PieceOf(p, c)
  <1>1. /\ p.piece \in Nat \ {0} /\ Offset(p) + b \in Nat /\ Offset(p) + c \in Nat
        /\ Offset(p) + b <= Offset(p) + c
    BY FileInTorrent
  <1> QED BY <1>1, DivMonotone DEF PieceOf

-----------------------------------------------------------------------------
(***************************************************************************)
(* Ranges.                                                                 *)
(***************************************************************************)

\* Ranges of a file of that size.
Within(size) == {r \in [start : Nat, end : Nat \ {0}] : r.start < r.end /\ r.end <= size}

\* In order, with something between them.
Apart(m) == \A i \in 2 .. Len(m) : m[i - 1].end < m[i].start

\* One of its ranges has all of r.
Covers(m, r) == \E k \in DOMAIN m : m[k].start <= r.start /\ r.end <= m[k].end

\* The order in which _merge_ranges takes them.
RangesInOrder(rs) ==
    Sorted(rs, LAMBDA r, s : r.start < s.start \/ (r.start = s.start /\ r.end > s.end))

\* One step of the merging: ranges stay apart, and what was covered stays covered.
LEMMA MergeStep ==
    ASSUME NEW size \in Nat, NEW m \in Seq(Within(size)), Apart(m), NEW r \in Within(size),
           m # <<>> => m[Len(m)].start <= r.start
    PROVE  /\ Merge(m, r) \in Seq(Within(size)) /\ Apart(Merge(m, r)) /\ Merge(m, r) # <<>>
           /\ Merge(m, r)[Len(Merge(m, r))].start <= r.start
           /\ Covers(Merge(m, r), r)
           /\ \A x \in Within(size) : Covers(m, x) => Covers(Merge(m, r), x)
  <1> DEFINE n == Len(m)
             u == Merge(m, r)
  <1>1. n \in Nat /\ DOMAIN m = 1 .. n /\ \A k \in 1 .. n : m[k] \in Within(size)
    OBVIOUS
  <1>2. r.start \in Nat /\ r.end \in Nat \ {0} /\ r.start < r.end /\ r.end <= size
    BY DEF Within
  <1>3. \A k \in 1 .. n : /\ m[k].start \in Nat /\ m[k].end \in Nat \ {0} /\ m[k].start < m[k].end
                          /\ m[k].end <= size
    BY <1>1 DEF Within
  <1>4. CASE m = <<>> \/ r.start > m[n].end
    <2>1. u = Append(m, r)
      BY <1>4 DEF Merge, Last
    <2> HIDE DEF u
    <2>2. /\ u \in Seq(Within(size)) /\ Len(u) = n + 1 /\ DOMAIN u = 1 .. n + 1 /\ u[n + 1] = r
          /\ \A k \in 1 .. n : u[k] = m[k]
      BY <1>1, <2>1
    <2>3. Apart(u)
      <3> SUFFICES ASSUME NEW i \in 2 .. n + 1 PROVE u[i - 1].end < u[i].start
        BY <2>2 DEF Apart
      <3>1. CASE i = n + 1
        <4>1. n \in 1 .. n /\ i - 1 = n /\ m # <<>>
          BY <1>1, <3>1
        <4> QED BY <1>4, <2>2, <3>1, <4>1
      <3>2. CASE i \in 2 .. n
        BY <1>1, <2>2, <3>2 DEF Apart
      <3> QED BY <1>1, <3>1, <3>2
    <2>4. Covers(u, r)
      BY <1>1, <1>2, <2>2 DEF Covers
    <2>5. ASSUME NEW x \in Within(size), Covers(m, x) PROVE Covers(u, x)
      BY <1>1, <2>2, <2>5 DEF Covers
    <2>6. u # <<>> /\ u[Len(u)].start <= r.start
      BY <1>1, <1>2, <2>2
    <2> QED BY <2>2, <2>3, <2>4, <2>5, <2>6 DEF u
  <1>5. CASE m # <<>> /\ ~(r.start > m[n].end)
    <2> DEFINE top == Max({m[n].end, r.end})
    <2>1. n \in 1 .. n
      BY <1>1, <1>5
    <2>2. /\ top \in Nat \ {0} /\ top >= m[n].end /\ top >= r.end /\ top <= size
      <3>1. top = IF m[n].end >= r.end THEN m[n].end ELSE r.end
        BY <1>2, <1>3, <2>1, MaxOfTwo
      <3> QED BY <1>2, <1>3, <2>1, <3>1
    <2>3. u = [m EXCEPT ![n].end = top]
      BY <1>5 DEF Merge, Last
    <2> HIDE DEF u, top
    <2>4. m[n] \in [start : Nat, end : Nat \ {0}]
      BY <1>1, <2>1 DEF Within
    <2> DEFINE last == [m[n] EXCEPT !.end = top]
    <2>5. /\ last \in Within(size) /\ last.start = m[n].start /\ last.end = top
      <3>1. last.start = m[n].start /\ last.end = top
        BY <2>4
      <3>2. last \in [start : Nat, end : Nat \ {0}]
        BY <2>2, <2>4
      <3> HIDE DEF last
      <3>3. last.start < last.end /\ last.end <= size
        BY <1>3, <2>1, <2>2, <3>1
      <3> QED BY <3>1, <3>2, <3>3 DEF Within
    <2>6. u = [m EXCEPT ![n] = last]
      BY <2>3
    <2> HIDE DEF last
    <2>7. /\ u \in Seq(Within(size)) /\ Len(u) = n /\ DOMAIN u = 1 .. n
          /\ \A k \in 1 .. n : u[k] = IF k = n THEN last ELSE m[k]
      BY <1>1, <2>1, <2>5, <2>6
    <2>12. ASSUME NEW k \in 1 .. n
           PROVE  u[k].start = m[k].start /\ u[k].end >= m[k].end /\ (k # n => u[k] = m[k])
      <3>1. CASE k = n
        BY <1>3, <2>1, <2>2, <2>5, <2>7, <3>1
      <3>2. CASE k # n
        <4>1. u[k] = m[k] /\ m[k].end \in Nat
          BY <1>3, <2>7, <3>2
        <4> QED BY <3>2, <4>1
      <3> QED BY <3>1, <3>2
    <2>8. Apart(u)
      <3> SUFFICES ASSUME NEW i \in 2 .. n PROVE u[i - 1].end < u[i].start
        BY <2>7 DEF Apart
      <3>1. m[i - 1].end < m[i].start
        BY DEF Apart
      <3>2. i - 1 \in 1 .. n /\ i \in 1 .. n /\ i - 1 # n
        BY <1>1
      <3>3. u[i - 1] = m[i - 1] /\ u[i].start = m[i].start
        BY <2>12, <3>2
      <3> QED BY <3>1, <3>3
    <2>9. Covers(u, r)
      <3>1. u[n].start <= r.start /\ r.end <= u[n].end
        BY <1>5, <2>1, <2>2, <2>5, <2>7
      <3> QED BY <2>1, <2>7, <3>1 DEF Covers
    <2>10. ASSUME NEW x \in Within(size), Covers(m, x) PROVE Covers(u, x)
      <3>1. PICK k \in 1 .. n : m[k].start <= x.start /\ x.end <= m[k].end
        BY <1>1, <2>10 DEF Covers
      <3>2. x.end \in Nat /\ m[k].end \in Nat /\ u[k] \in Within(size)
        <4>1. u[k] \in Within(size)
          <5>1. k \in DOMAIN u /\ u \in Seq(Within(size))
            BY <2>7
          <5> QED BY <5>1
        <4>2. x.end \in Nat
          BY DEF Within
        <4> QED BY <1>3, <4>1, <4>2
      <3>3. u[k].start <= x.start /\ x.end <= u[k].end
        <4>1. u[k].end \in Nat
          BY <3>2 DEF Within
        <4> QED BY <2>12, <3>1, <3>2, <4>1
      <3> QED BY <2>7, <3>3 DEF Covers
    <2>11. u # <<>> /\ u[Len(u)].start <= r.start
      <3>1. u # <<>>
        <4>1. n \in DOMAIN u
          BY <2>1, <2>7
        <4> QED BY <4>1
      <3>2. m[n].start <= r.start
        BY <1>5
      <3> QED BY <2>1, <2>7, <2>12, <3>1, <3>2
    <2> QED BY <2>7, <2>8, <2>9, <2>10, <2>11 DEF u
  <1> QED BY <1>4, <1>5

\* The sort by start, the longer first, returns each range.
LEMMA RangesSorted ==
    ASSUME NEW size \in Nat, NEW rs \in SUBSET Within(size), IsFiniteSet(rs)
    PROVE  /\ RangesInOrder(rs) \in Seq(rs)
           /\ \A i, j \in 1 .. Len(RangesInOrder(rs)) :
                i < j => RangesInOrder(rs)[i].start <= RangesInOrder(rs)[j].start
           /\ \A x \in rs : \E k \in 1 .. Len(RangesInOrder(rs)) : RangesInOrder(rs)[k] = x
  <1> DEFINE Before(r, s) == r.start < s.start \/ (r.start = s.start /\ r.end > s.end)
             R == {p \in rs \X rs : Before(p[1], p[2])}
             q == RangesInOrder(rs)
  <1>0. \A x \in rs : x \in [start : Nat, end : Nat \ {0}]
    BY DEF Within
  <1>1. Orders(R, rs)
    <2>1. \A x \in rs : <<x, x>> \notin R
      BY <1>0
    <2>2. ASSUME NEW x \in rs, NEW y \in rs PROVE <<x, y>> \in R \/ <<y, x>> \in R \/ x = y
      <3>1. x.start = y.start /\ x.end = y.end => x = y
        BY <1>0
      <3>2. x.start \in Nat /\ y.start \in Nat /\ x.end \in Nat /\ y.end \in Nat
        BY <1>0
      <3> QED BY <3>1, <3>2
    <2>3. ASSUME NEW x \in rs, NEW y \in rs, NEW z \in rs, <<x, y>> \in R, <<y, z>> \in R
          PROVE  <<x, z>> \in R
      <3>1. Before(x, y) /\ Before(y, z)
        BY <2>3
      <3>2. Before(x, z)
        BY <1>0, <3>1
      <3> QED BY <3>2
    <2> HIDE DEF R
    <2> QED BY <2>1, <2>2, <2>3 DEF Orders
  <1>2. ASSUME NEW x \in rs PROVE Below(x, R, rs) = {y \in rs : Before(y, x)}
    BY DEF Below
  <1>3. q = [k \in 1 .. Cardinality(rs) |-> CHOOSE x \in rs : Cardinality({y \in rs : Before(y, x)}) = k - 1]
    BY DEF RangesInOrder, Sorted
  <1>4. ASSUME NEW k \in 1 .. Cardinality(rs)
        PROVE  q[k] \in rs /\ Cardinality(Below(q[k], R, rs)) = k - 1
    <2>1. PICK x \in rs : Cardinality(Below(x, R, rs)) = k - 1
      <3> HIDE DEF R, q
      <3> QED BY <1>1, Ranks
    <2>2. Cardinality({y \in rs : Before(y, x)}) = k - 1
      BY <1>2, <2>1
    <2>3. q[k] \in rs /\ Cardinality({y \in rs : Before(y, q[k])}) = k - 1
      <3> HIDE DEF q, Before
      <3> QED BY <1>3, <2>2
    <2> HIDE DEF R, q
    <2> QED BY <1>2, <2>3
  <1>5. Lists(q, R, rs)
    <2> HIDE DEF R
    <2>1. q \in [1 .. Cardinality(rs) -> rs]
      <3> HIDE DEF Before
      <3> QED BY <1>3, <1>4
    <2> HIDE DEF q
    <2> QED BY <1>4, <2>1 DEF Lists
  <1>6. \A x, y \in rs : <<x, y>> \in R => x.start <= y.start
    BY <1>0
  <1> HIDE DEF R, q
  <1>7. /\ q \in Seq(rs) /\ Len(q) = Cardinality(rs)
        /\ \A i, j \in 1 .. Len(q) : i < j <=> <<q[i], q[j]>> \in R
        /\ \A x \in rs : \E k \in 1 .. Len(q) : q[k] = x
    BY <1>1, <1>5, RankedSequence
  <1>8. \A i, j \in 1 .. Len(q) : i < j => q[i].start <= q[j].start
    <2>1. \A i \in 1 .. Len(q) : q[i] \in rs
      BY <1>7
    <2> QED BY <1>6, <1>7, <2>1
  <1> QED BY <1>7, <1>8 DEF q

\* What the loop has after i ranges: merged ones apart that cover these i.
Joins(m, s, size, i) ==
    /\ Apart(m)
    /\ i > 0 => m # <<>> /\ m[Len(m)].start <= s[i].start
    /\ \A j \in 1 .. i : Covers(m, s[j])

\* The loop of _merge_ranges: its ranges are apart and cover each it was given.
LEMMA MergedCovers ==
    ASSUME NEW size \in Nat, NEW rs \in SUBSET Within(size), IsFiniteSet(rs)
    PROVE  /\ Merged(rs) \in Seq(Within(size)) /\ Apart(Merged(rs))
           /\ \A r \in rs : Covers(Merged(rs), r)
  <1> DEFINE S == RangesInOrder(rs)
             D == Seq(Within(size))
             E == Within(size)
             n == Len(S)
             step == [x \in D \X E |-> Merge(x[1], x[2])]
             Eq(g) == g = [i \in 0 .. Len(S) |-> IF i = 0 THEN <<>> ELSE Merge(g[i - 1], S[i])]
             fold == CHOOSE g : Eq(g)
  <1>1. Merged(rs) = fold[n]
    BY DEF Merged, Folded, RangesInOrder, S
  <1>2. n \in Nat /\ S \in Seq(E) /\ \A i \in 1 .. n : S[i] \in E
    BY RangesSorted, SeqMonotonic DEF S
  <1>3. <<>> \in D /\ \A a \in D, x \in E : Merge(a, x) \in D
    <2>1. <<>> \in D
      OBVIOUS
    <2>2. ASSUME NEW a \in D, NEW x \in E PROVE Merge(a, x) \in D
      <3> DEFINE k == Len(a)
      <3>1. CASE a = <<>> \/ x.start > a[k].end
        <4>1. Merge(a, x) = Append(a, x)
          BY <3>1 DEF Merge, Last
        <4> QED BY <4>1
      <3>2. CASE a # <<>> /\ ~(x.start > a[k].end)
        <4> DEFINE top == Max({a[k].end, x.end})
        <4>1. k \in Nat /\ k \in 1 .. k /\ a[k] \in Within(size)
          BY <3>2
        <4>2. Merge(a, x) = [a EXCEPT ![k].end = top]
          BY <3>2 DEF Merge, Last
        <4>3. a[k] \in [start : Nat, end : Nat \ {0}] /\ a[k].start < a[k].end /\ a[k].end <= size
          BY <4>1 DEF Within
        <4>4. x.end \in Nat \ {0} /\ x.end <= size
          BY DEF Within
        <4>5. top = IF a[k].end >= x.end THEN a[k].end ELSE x.end
          BY <4>3, <4>4, MaxOfTwo
        <4>6. top \in Nat \ {0} /\ top >= a[k].end /\ top <= size
          BY <4>3, <4>4, <4>5
        <4> HIDE DEF top
        <4> DEFINE last == [a[k] EXCEPT !.end = top]
        <4>7. last \in Within(size)
          BY <4>3, <4>6 DEF Within
        <4>8. Merge(a, x) = [a EXCEPT ![k] = last]
          BY <4>2
        <4> HIDE DEF last
        <4> QED BY <4>1, <4>7, <4>8
      <3> QED BY <3>1, <3>2
    <2> QED BY <2>1, <2>2
  <1> HIDE DEF D, E
  <1>4. \E g : Eq(g)
    <2>1. step \in [D \X E -> D]
      BY <1>3
    <2>2. PICK g \in [0 .. n -> D] : Follows(g, <<>>, step, S)
      <3> HIDE DEF step
      <3> QED BY <1>2, <1>3, <2>1, FoldExists
    <2>3. ASSUME NEW i \in 1 .. n PROVE g[i] = Merge(g[i - 1], S[i])
      <3>1. g[i - 1] \in D /\ S[i] \in E /\ g[i] = step[<<g[i - 1], S[i]>>]
        <4> HIDE DEF step
        <4>1. i - 1 \in 0 .. n /\ S[i] \in E
          BY <1>2
        <4>2. g[i - 1] \in D
          BY <4>1
        <4> QED BY <4>1, <4>2, <2>2 DEF Follows
      <3> QED BY <3>1
    <2> HIDE DEF step
    <2>4. Eq(g)
      BY <1>2, <2>2, <2>3 DEF Follows
    <2> QED BY <2>4
  <1>5. Eq(fold)
    <2> HIDE DEF Eq
    <2> QED BY <1>4
  <1> HIDE DEF fold
  <1>6. fold[0] = <<>> /\ \A i \in 1 .. n : fold[i] = Merge(fold[i - 1], S[i])
    BY <1>2, <1>5
  <1>7. fold[0] \in D /\ \A i \in 1 .. n : fold[i - 1] \in D => fold[i] \in D
    BY <1>2, <1>3, <1>6
  <1>8. \A i \in 0 .. n : fold[i] \in D
    BY <1>2, <1>7, EachStepIn
  <1>9. \A i \in 1 .. n : S[i] \in rs /\ S[i] \in Within(size) /\ (i > 1 => S[i - 1].start <= S[i].start)
    <2>1. /\ S \in Seq(rs)
          /\ \A i, j \in 1 .. Len(S) : i < j => S[i].start <= S[j].start
      BY RangesSorted DEF S
    <2> HIDE DEF S
    <2> SUFFICES ASSUME NEW i \in 1 .. n
                 PROVE  S[i] \in rs /\ S[i] \in Within(size) /\ (i > 1 => S[i - 1].start <= S[i].start)
      OBVIOUS
    <2>2. S[i] \in rs
      BY <2>1
    <2>3. i > 1 => i - 1 \in 1 .. n /\ i - 1 < i
      BY <1>2
    <2> QED BY <2>1, <2>2, <2>3
  <1> HIDE DEF S
  <1> DEFINE T == {i \in 0 .. n : Joins(fold[i], S, size, i)}
  <1>10. 0 \in T
    BY <1>2, <1>6 DEF Joins, Apart
  <1>11. ASSUME NEW i \in 0 .. n - 1, i \in T PROVE i + 1 \in T
    <2> DEFINE m == fold[i]
               r == S[i + 1]
    <2>1. i + 1 \in 1 .. n /\ (i + 1) - 1 = i /\ i \in 0 .. n /\ i \in Nat
      BY <1>2
    <2>2. r \in Within(size) /\ fold[i + 1] = Merge(m, r) /\ m \in Seq(Within(size))
      BY <1>6, <1>8, <1>9, <2>1 DEF D
    <2>3. Apart(m) /\ Joins(m, S, size, i)
      BY <1>11 DEF Joins
    <2>4. m # <<>> => m[Len(m)].start <= r.start
      <3>1. CASE i = 0
        BY <1>6, <3>1
      <3>2. CASE i > 0
        <4>1. i \in 1 .. n /\ i + 1 > 1
          BY <1>2, <2>1, <3>2
        <4>2. m[Len(m)].start <= S[i].start /\ S[i].start <= r.start
          BY <1>9, <2>1, <2>3, <3>2, <4>1 DEF Joins
        <4>3. S[i].start \in Nat /\ r.start \in Nat
          BY <1>9, <2>1, <4>1 DEF Within
        <4>4. m # <<>> => m[Len(m)].start \in Nat
          BY <2>2 DEF Within
        <4> QED BY <4>2, <4>3, <4>4
      <3> QED BY <2>1, <3>1, <3>2
    <2> DEFINE u == fold[i + 1]
    <2> HIDE DEF m, r
    <2>5. /\ Apart(u) /\ u # <<>> /\ u[Len(u)].start <= r.start /\ Covers(u, r)
          /\ \A x \in Within(size) : Covers(m, x) => Covers(u, x)
      BY <2>2, <2>3, <2>4, MergeStep
    <2>6. ASSUME NEW j \in 1 .. i + 1 PROVE Covers(u, S[j])
      <3>1. CASE j = i + 1
        BY <2>5, <3>1 DEF r
      <3>2. CASE j \in 1 .. i
        <4>1. Covers(m, S[j]) /\ S[j] \in Within(size)
          BY <1>9, <2>1, <2>3, <3>2 DEF Joins
        <4> QED BY <2>5, <4>1
      <3> QED BY <2>1, <3>1, <3>2
    <2>7. Joins(u, S, size, i + 1)
      BY <2>5, <2>6 DEF Joins, r
    <2> QED BY <2>1, <2>7
  <1>12. n \in T
    <2> HIDE DEF T, n
    <2>1. 0 .. n \subseteq T
      BY <1>2, <1>10, <1>11, Induction
    <2> QED BY <1>2, <2>1
  <1>13. Apart(fold[n]) /\ \A j \in 1 .. n : Covers(fold[n], S[j])
    BY <1>12 DEF Joins
  <1>14. \A r \in rs : \E j \in 1 .. n : S[j] = r
    BY RangesSorted DEF S
  <1>15. fold[n] \in Seq(Within(size))
    BY <1>2, <1>8 DEF D
  <1> QED BY <1>1, <1>13, <1>14, <1>15

-----------------------------------------------------------------------------
(***************************************************************************)
(* Layouts.                                                                *)
(***************************************************************************)

\* A range is cut to the file, and has a byte.
LEMMA AtMostIn ==
    ASSUME NEW size \in Nat \ {0}, NEW b \in Nat
    PROVE  /\ AtMost(size, b) = IF b < 1 THEN 1 ELSE IF b <= size THEN b ELSE size
           /\ AtMost(size, b) \in 1 .. size
  <1> DEFINE m == Min({size, b})
  <1>1. m = IF size <= b THEN size ELSE b
    BY MinOfTwo
  <1>2. m \in Nat /\ AtMost(size, b) = Max({1, m})
    BY <1>1 DEF AtMost
  <1> HIDE DEF m
  <1>3. Max({1, m}) = IF 1 >= m THEN 1 ELSE m
    BY <1>2, MaxOfTwo
  <1> QED BY <1>1, <1>2, <1>3

\* The six digits of a ratio.
Digits == 1000000

\* Ratios keep six digits, so few anchors are all before the end.
LEMMA RatioIn ==
    ASSUME NEW a \in Anchor
    PROVE  Ratio(a) \in Nat /\ Ratio(a) < Digits
  <1> DEFINE u == 2 * Digits * (a + 1) + Target + 1
             d == 2 * (Target + 1)
  <1>1. Target \in Nat /\ a \in Nat /\ a + 1 <= Target
    BY Settings DEF Anchor
  <1>2. Digits \in Nat /\ Target < Digits
    BY SMT, SessionAssumption DEF Digits
  <1>3. u \in Nat /\ d \in Nat \ {0} /\ u < Digits * d
    <2> HIDE DEF u
    <2>1. u = 2000000 * (a + 1) + Target + 1
      BY SMT DEF Digits, u
    <2>2. Digits * d = 2000000 * (Target + 1)
      BY SMT, <1>1 DEF Digits
    <2>3. Target < 1000000
      BY SMT, <1>2 DEF Digits
    <2> QED BY SMT, <1>1, <2>1, <2>2, <2>3
  <1>4. Ratio(a) = u \div d
    BY SMT DEF Ratio, Digits
  <1> HIDE DEF u, d
  <1> QED BY <1>2, <1>3, <1>4, DivBelow, DivMonotone

\* The middle of an anchor is in the file.
LEMMA CenterIn ==
    ASSUME NEW size \in Nat \ {0}, NEW a \in Anchor
    PROVE  Center(size, a) \in Nat /\ Center(size, a) < size
  <1> DEFINE r == Ratio(a)
             u == size * r
  <1>1. r \in Nat /\ r < Digits
    BY RatioIn
  <1>2. Digits \in Nat \ {0}
    BY SMT DEF Digits
  <1>3. Center(size, a) = u \div Digits
    BY SMT DEF Center, Digits
  <1> HIDE DEF r
  <1>4. u \in Nat /\ u < size * Digits
    BY <1>1, <1>2
  <1> HIDE DEF u
  <1> QED BY <1>2, <1>3, <1>4, DivBelow, DivMonotone

\* Where a window starts that is moved into the file.
WindowStart(size, b, a) ==
    LET back == Center(size, a) - b \div 2
    IN IF back < 0 THEN 0 ELSE IF back <= size - b THEN back ELSE size - b

\* A window has its whole width: at the end of the file it is moved, not cut.
LEMMA WindowIs ==
    ASSUME NEW size \in Nat \ {0}, NEW b \in 1 .. size, NEW a \in Anchor
    PROVE  Window(size, b, a) =
             [start |-> WindowStart(size, b, a), end |-> WindowStart(size, b, a) + b]
  <1> DEFINE c     == Center(size, a)
             back  == c - b \div 2
             start == IF back < 0 THEN 0 ELSE IF back <= size - b THEN back ELSE size - b
             w     == Min({Max({0, back}), Max({0, size - b})})
  <1>1. c \in Nat /\ b \in Nat /\ b \div 2 \in Nat /\ back \in Int /\ size - b \in Nat
    BY CenterIn
  <1> HIDE DEF c
  <1>2. Max({0, back}) = IF 0 >= back THEN 0 ELSE back
    BY <1>1, MaxOfTwo
  <1>3. Max({0, size - b}) = size - b
    <2>1. Max({0, size - b}) = IF 0 >= size - b THEN 0 ELSE size - b
      BY <1>1, MaxOfTwo
    <2> QED BY <1>1, <2>1
  <1>4. w = start
    <2> DEFINE m == Max({0, back})
               k == Max({0, size - b})
    <2>1. m \in Int /\ k \in Int /\ w = Min({m, k})
      BY <1>1, <1>2, <1>3
    <2> HIDE DEF m, k, w
    <2>2. w = IF m <= k THEN m ELSE k
      BY <2>1, MinOfTwo
    <2> QED BY <1>1, <1>2, <1>3, <2>2 DEF m, k
  <1>5. start \in Nat /\ start + b <= size
    BY <1>1
  <1>6. Min({size, start + b}) = start + b
    <2> HIDE DEF start
    <2>1. Min({size, start + b}) = IF size <= start + b THEN size ELSE start + b
      BY <1>1, <1>5, MinOfTwo
    <2> QED BY <1>1, <1>5, <2>1
  <1> HIDE DEF w, start
  <1>7. Window(size, b, a) = Bytes(w, Min({size, w + b}))
    BY DEF Window, w, c
  <1> QED BY <1>4, <1>6, <1>7 DEF Bytes, start, c, WindowStart

\* It is in the file and has the middle of its anchor.
LEMMA WindowIn ==
    ASSUME NEW size \in Nat \ {0}, NEW b \in 1 .. size, NEW a \in Anchor
    PROVE  /\ Window(size, b, a) \in Within(size)
           /\ Window(size, b, a).start <= Center(size, a)
           /\ Center(size, a) < Window(size, b, a).end
  <1>1. Center(size, a) \in Nat /\ Center(size, a) < size
    BY CenterIn
  <1> DEFINE s == WindowStart(size, b, a)
             w == Window(size, b, a)
             h == b \div 2
  <1>2. h \in Nat /\ 2 * h <= b /\ b <= 2 * h + 1
    OBVIOUS
  <1>3. /\ s \in Nat /\ s + b <= size /\ s <= Center(size, a) /\ Center(size, a) < s + b
    <2> HIDE DEF h
    <2>1. s = IF Center(size, a) - h < 0 THEN 0
              ELSE IF Center(size, a) - h <= size - b THEN Center(size, a) - h ELSE size - b
      BY DEF WindowStart, h
    <2> HIDE DEF s
    <2> QED BY <1>1, <1>2, <2>1
  <1> HIDE DEF s, w
  <1>4. w = [start |-> s, end |-> s + b]
    BY WindowIs DEF w, s
  <1>5. w \in Within(size) /\ w.start <= Center(size, a) /\ Center(size, a) < w.end
    BY <1>1, <1>3, <1>4 DEF Within
  <1> QED BY <1>5 DEF w

\* A wider window has all of a narrower one.
LEMMA WindowGrows ==
    ASSUME NEW size \in Nat \ {0}, NEW b \in 1 .. size, NEW c \in 1 .. size, b <= c, NEW a \in Anchor
    PROVE  /\ Window(size, c, a).start <= Window(size, b, a).start
           /\ Window(size, b, a).end <= Window(size, c, a).end
  <1>1. Center(size, a) \in Nat /\ Center(size, a) < size
    BY CenterIn
  <1> DEFINE s == WindowStart(size, b, a)
             u == WindowStart(size, c, a)
             h == b \div 2
             k == c \div 2
  <1>2. /\ h \in Nat /\ 2 * h <= b /\ b <= 2 * h + 1
        /\ k \in Nat /\ 2 * k <= c /\ c <= 2 * k + 1
    OBVIOUS
  <1>3. u <= s /\ s + b <= u + c
    <2> HIDE DEF h, k
    <2>1. s = IF Center(size, a) - h < 0 THEN 0
              ELSE IF Center(size, a) - h <= size - b THEN Center(size, a) - h ELSE size - b
      BY DEF WindowStart, h
    <2>2. u = IF Center(size, a) - k < 0 THEN 0
              ELSE IF Center(size, a) - k <= size - c THEN Center(size, a) - k ELSE size - c
      BY DEF WindowStart, k
    <2> HIDE DEF s, u
    <2> QED BY <1>1, <1>2, <2>1, <2>2
  <1>4. /\ Window(size, b, a) = [start |-> s, end |-> s + b]
        /\ Window(size, c, a) = [start |-> u, end |-> u + c]
    BY WindowIs
  <1> QED BY <1>3, <1>4

\* The two ends of a file.
LEMMA EdgesIn ==
    ASSUME NEW size \in Nat \ {0}, NEW b \in 1 .. size
    PROVE  /\ EdgeRanges(size, b) = {Bytes(0, b), Bytes(size - b, size)}
           /\ EdgeRanges(size, b) \in SUBSET Within(size) /\ IsFiniteSet(EdgeRanges(size, b))
  <1>1. Min({size, b}) = b /\ Max({0, size - b}) = size - b
    <2>1. Min({size, b}) = (IF size <= b THEN size ELSE b)
      BY MinOfTwo
    <2>2. Max({0, size - b}) = (IF 0 >= size - b THEN 0 ELSE size - b)
      BY MaxOfTwo
    <2> QED BY <2>1, <2>2
  <1>2. EdgeRanges(size, b) = {Bytes(0, b), Bytes(size - b, size)}
    BY <1>1 DEF EdgeRanges
  <1>3. EdgeRanges(size, b) \in SUBSET Within(size)
    BY <1>2 DEF Bytes, Within
  <1>4. IsFiniteSet(EdgeRanges(size, b))
    <2>1. IsFiniteSet({Bytes(0, b)}) /\ IsFiniteSet({Bytes(size - b, size)})
      BY FS_Singleton
    <2>2. EdgeRanges(size, b) = {Bytes(0, b)} \cup {Bytes(size - b, size)}
      BY <1>2
    <2> QED BY <2>1, <2>2, FS_Union
  <1> QED BY <1>2, <1>3, <1>4

\* The windows of some anchors.
LEMMA WindowsIn ==
    ASSUME NEW size \in Nat \ {0}, NEW b \in 1 .. size, NEW anchors \in SUBSET Anchor
    PROVE  Windows(size, b, anchors) \in SUBSET Within(size) /\ IsFiniteSet(Windows(size, b, anchors))
  <1> DEFINE f == [a \in anchors |-> Window(size, b, a)]
             S == Windows(size, b, anchors)
  <1>1. S \in SUBSET Within(size)
    BY WindowIn DEF Windows
  <1>2. IsFiniteSet(anchors)
    <2>1. Anchor = 0 .. Target - 1 /\ Target - 1 \in Int
      BY Settings DEF Anchor
    <2>2. IsFiniteSet(Anchor)
      BY <2>1, FS_Interval
    <2> QED BY <2>2, FS_Subset
  <1>3. f \in Surjection(anchors, S)
    BY DEF Surjection, Windows
  <1> HIDE DEF f, S
  <1>4. IsFiniteSet(S)
    BY <1>2, <1>3, FS_Surjection
  <1> QED BY <1>1, <1>4 DEF S

\* What a download needs: ranges in the file, apart, with both ends and the anchors.
Plan(m, size) == m \in Seq(Within(size)) /\ Apart(m)

\* What covers a range covers its parts.
LEMMA CoversWithin ==
    ASSUME NEW size \in Nat, NEW m \in Seq(Within(size)), NEW x \in Within(size), Covers(m, x),
           NEW y \in Within(size), x.start <= y.start, y.end <= x.end
    PROVE  Covers(m, y)
  <1>1. PICK k \in DOMAIN m : m[k].start <= x.start /\ x.end <= m[k].end
    BY DEF Covers
  <1>2. m[k] \in Within(size)
    OBVIOUS
  <1>3. /\ m[k].start \in Nat /\ m[k].end \in Nat /\ x.start \in Nat /\ x.end \in Nat
        /\ y.start \in Nat /\ y.end \in Nat
    BY <1>2 DEF Within
  <1>4. m[k].start <= y.start /\ y.end <= m[k].end
    BY <1>1, <1>3
  <1> QED BY <1>4 DEF Covers

\* The first plan has both ends and the middle of every anchor.
LEMMA LayoutPlan ==
    ASSUME NEW size \in Nat \ {0}
    PROVE  /\ Plan(Layout(size), size)
           /\ Covers(Layout(size), Bytes(0, 1)) /\ Covers(Layout(size), Bytes(size - 1, size))
           /\ \A a \in Anchor :
                Covers(Layout(size), Bytes(Center(size, a), Center(size, a) + 1))
  <1> DEFINE b == AtMost(size, AnchorRange)
             e == AtMost(size, EdgeRange)
             rs == EdgeRanges(size, e) \cup Windows(size, b, Anchor)
             m == Layout(size)
             byte(i) == Bytes(i, i + 1)
  <1>1. b \in 1 .. size /\ e \in 1 .. size
    BY Settings, AtMostIn
  <1>2. \A i \in 0 .. size - 1 : byte(i) \in Within(size)
    BY DEF Within, Bytes
  <1>3. Bytes(0, 1) = byte(0) /\ Bytes(size - 1, size) = byte(size - 1)
    BY DEF Bytes
  <1>4. \A a \in Anchor : Center(size, a) \in 0 .. size - 1
    BY CenterIn
  <1>5. ASSUME Plan(m, size), \A i \in 0 .. size - 1 : i \in {0, size - 1} \cup {Center(size, a) : a \in Anchor} => Covers(m, byte(i))
        PROVE  /\ Plan(m, size) /\ Covers(m, Bytes(0, 1)) /\ Covers(m, Bytes(size - 1, size))
               /\ \A a \in Anchor : Covers(m, Bytes(Center(size, a), Center(size, a) + 1))
    <2> HIDE DEF m
    <2>1. 0 \in 0 .. size - 1 /\ size - 1 \in 0 .. size - 1
      OBVIOUS
    <2>2. Covers(m, byte(0)) /\ Covers(m, byte(size - 1))
      <3> HIDE DEF byte
      <3> QED BY <1>5, <2>1
    <2>3. \A a \in Anchor : Covers(m, byte(Center(size, a)))
      <3> HIDE DEF byte
      <3> QED BY <1>4, <1>5
    <2> QED BY <1>3, <1>5, <2>2, <2>3
  <1>6. CASE b >= size /\ e >= size
    <2>1. m = <<Bytes(0, size)>>
      BY <1>6 DEF Layout
    <2>2. Bytes(0, size) \in Within(size)
      BY DEF Within, Bytes
    <2> HIDE DEF m
    <2>3. m \in Seq(Within(size)) /\ Len(m) = 1 /\ m[1] = Bytes(0, size) /\ 1 \in DOMAIN m
      BY <2>1, <2>2
    <2>4. Apart(m)
      BY <2>3 DEF Apart
    <2>5. \A i \in 0 .. size - 1 : Covers(m, byte(i))
      BY <2>3 DEF Covers, Bytes
    <2> QED BY <1>5, <2>3, <2>4, <2>5 DEF Plan, m
  <1>7. CASE ~(b >= size /\ e >= size)
    <2>1. m = Merged(rs)
      BY <1>7 DEF Layout
    <2>2. /\ EdgeRanges(size, e) = {Bytes(0, e), Bytes(size - e, size)}
          /\ EdgeRanges(size, e) \in SUBSET Within(size) /\ IsFiniteSet(EdgeRanges(size, e))
      BY <1>1, EdgesIn
    <2>3. Windows(size, b, Anchor) \in SUBSET Within(size) /\ IsFiniteSet(Windows(size, b, Anchor))
      BY <1>1, WindowsIn
    <2>4. rs \in SUBSET Within(size) /\ IsFiniteSet(rs)
      BY <2>2, <2>3, FS_Union
    <2> HIDE DEF rs, m
    <2>5. m \in Seq(Within(size)) /\ Apart(m) /\ \A r \in rs : Covers(m, r)
      BY <2>1, <2>4, MergedCovers
    <2> HIDE DEF b, e
    <2>6. Covers(m, byte(0)) /\ Covers(m, byte(size - 1))
      <3>1. Bytes(0, e) \in rs /\ Bytes(size - e, size) \in rs
        BY <2>2 DEF rs
      <3>2. Bytes(0, e) \in Within(size) /\ Bytes(size - e, size) \in Within(size)
        BY <2>4, <3>1
      <3>3. byte(0) \in Within(size) /\ byte(size - 1) \in Within(size)
        BY <1>2
      <3>4. Bytes(0, e).start <= byte(0).start /\ byte(0).end <= Bytes(0, e).end
        BY <1>1 DEF Bytes
      <3>5. Bytes(size - e, size).start <= byte(size - 1).start /\ byte(size - 1).end <= Bytes(size - e, size).end
        BY <1>1 DEF Bytes
      <3> HIDE DEF byte
      <3> QED BY <2>5, <3>1, <3>2, <3>3, <3>4, <3>5, CoversWithin
    <2>7. ASSUME NEW a \in Anchor PROVE Covers(m, byte(Center(size, a)))
      <3> DEFINE w == Window(size, b, a)
                 c == Center(size, a)
      <3>1. w \in rs
        BY DEF rs, Windows
      <3>2. w \in Within(size) /\ w.start <= c /\ c < w.end
        BY <1>1, WindowIn
      <3>3. c \in 0 .. size - 1 /\ byte(c) \in Within(size)
        BY <1>2, <1>4
      <3> HIDE DEF w, c
      <3>4. w.start <= byte(c).start /\ byte(c).end <= w.end
        BY <3>2, <3>3 DEF Bytes, Within
      <3> HIDE DEF byte
      <3>5. Covers(m, byte(c))
        BY <2>5, <3>1, <3>2, <3>3, <3>4, CoversWithin
      <3> QED BY <3>5 DEF c
    <2>8. ASSUME NEW i \in 0 .. size - 1, i \in {0, size - 1} \cup {Center(size, a) : a \in Anchor}
          PROVE  Covers(m, byte(i))
      <3> HIDE DEF byte
      <3> QED BY <2>6, <2>7, <2>8
    <2> QED BY <1>5, <2>5, <2>8 DEF Plan, m
  <1> QED BY <1>5, <1>6, <1>7

\* A retry has every window, of its width or less.
LEMMA AnchorPlan ==
    ASSUME NEW size \in Nat \ {0}, NEW b \in Nat, NEW anchors \in SUBSET Anchor
    PROVE  /\ Plan(AnchorLayout(size, b, anchors), size)
           /\ \A c \in Nat : c <= b =>
                \A w \in Windows(size, AtMost(size, c), anchors) :
                   w \in Within(size) /\ Covers(AnchorLayout(size, b, anchors), w)
  <1> DEFINE k == AtMost(size, b)
             m == AnchorLayout(size, b, anchors)
             rs == Windows(size, k, anchors)
  <1>1. k \in 1 .. size
    BY AtMostIn
  <1>2. rs \in SUBSET Within(size) /\ IsFiniteSet(rs)
    BY <1>1, WindowsIn
  <1>3. m = Merged(rs)
    BY DEF AnchorLayout
  <1> HIDE DEF rs, m
  <1>4. m \in Seq(Within(size)) /\ Apart(m) /\ \A r \in rs : Covers(m, r)
    BY <1>2, <1>3, MergedCovers
  <1>5. ASSUME NEW c \in Nat, c <= b, NEW w \in Windows(size, AtMost(size, c), anchors)
        PROVE  w \in Within(size) /\ Covers(m, w)
    <2> DEFINE j == AtMost(size, c)
    <2>1. j \in 1 .. size /\ j <= k
      <3>1. /\ j = (IF c < 1 THEN 1 ELSE IF c <= size THEN c ELSE size)
            /\ k = (IF b < 1 THEN 1 ELSE IF b <= size THEN b ELSE size)
        BY AtMostIn
      <3> QED BY <1>5, <3>1
    <2>2. PICK a \in anchors : w = Window(size, j, a)
      BY DEF Windows
    <2> HIDE DEF j, k
    <2>3. w \in Within(size)
      BY <2>1, <2>2, WindowIn
    <2> DEFINE x == Window(size, k, a)
    <2>4. x \in rs /\ x \in Within(size)
      BY <1>1, WindowIn DEF rs, Windows
    <2>5. x.start <= w.start /\ w.end <= x.end
      BY <1>1, <2>1, <2>2, WindowGrows
    <2> HIDE DEF x
    <2> QED BY <1>4, <2>3, <2>4, <2>5, CoversWithin
  <1> QED BY <1>4, <1>5 DEF Plan, m

-----------------------------------------------------------------------------
(***************************************************************************)
(* Pieces.                                                                 *)
(***************************************************************************)

\* The pieces of a range are some pieces of the file.
LEMMA PiecesAre ==
    ASSUME NEW p, Playable(p), NEW r \in Within(Length(p))
    PROVE  /\ PiecesOf(p, r) = PieceOf(p, r.start) .. PieceOf(p, r.end - 1)
           /\ PiecesOf(p, r) \in SUBSET Nat /\ IsFiniteSet(PiecesOf(p, r))
           /\ PiecesOf(p, r) \in SUBSET FilePieces(p)
  <1> DEFINE size == Length(p)
             q(b) == PieceOf(p, b)
  <1>1. size \in Nat \ {0}
    BY FileInTorrent
  <1>2. r.start \in Nat /\ r.end \in Nat \ {0} /\ r.start < r.end /\ r.end <= size /\ r.end - 1 \in Nat
    BY <1>1 DEF Within
  <1>3. Max({r.start, r.end - 1}) = r.end - 1
    <2>1. Max({r.start, r.end - 1}) = (IF r.start >= r.end - 1 THEN r.start ELSE r.end - 1)
      BY <1>2, MaxOfTwo
    <2> QED BY <1>2, <2>1
  <1>4. PiecesOf(p, r) = q(r.start) .. q(r.end - 1)
    BY <1>3 DEF PiecesOf
  <1>5. FilePieces(p) = q(0) .. q(size - 1)
    <2>1. Max({0, size - 1}) = (IF 0 >= size - 1 THEN 0 ELSE size - 1)
      BY <1>1, MaxOfTwo
    <2>2. Max({0, size - 1}) = size - 1
      BY <1>1, <2>1
    <2> QED BY <2>2 DEF FilePieces, PiecesOf, Bytes
  <1>6. q(0) \in Nat /\ q(r.start) \in Nat /\ q(0) <= q(r.start)
    BY <1>2, PieceOrder
  <1>7. q(r.end - 1) \in Nat /\ q(size - 1) \in Nat /\ q(r.end - 1) <= q(size - 1)
    <2>1. r.end - 1 \in Nat /\ size - 1 \in Nat /\ r.end - 1 <= size - 1
      BY <1>1, <1>2
    <2> HIDE DEF size
    <2> QED BY <2>1, PieceOrder
  <1> HIDE DEF q
  <1>8. IsFiniteSet(q(r.start) .. q(r.end - 1))
    BY <1>6, <1>7, FS_Interval
  <1> QED BY <1>4, <1>5, <1>6, <1>7, <1>8 DEF q

\* Part of a range has part of its pieces.
LEMMA PiecesOfPart ==
    ASSUME NEW p, Playable(p), NEW r \in Within(Length(p)), NEW s \in Within(Length(p)),
           s.start <= r.start, r.end <= s.end
    PROVE  PiecesOf(p, r) \in SUBSET PiecesOf(p, s)
  <1>1. /\ r.start \in Nat /\ s.start \in Nat /\ r.end - 1 \in Nat /\ s.end - 1 \in Nat
        /\ r.end - 1 <= s.end - 1
    BY DEF Within
  <1>2. /\ PieceOf(p, s.start) \in Nat /\ PieceOf(p, r.start) \in Nat
        /\ PieceOf(p, s.start) <= PieceOf(p, r.start)
    BY <1>1, PieceOrder
  <1>3. /\ PieceOf(p, r.end - 1) \in Nat /\ PieceOf(p, s.end - 1) \in Nat
        /\ PieceOf(p, r.end - 1) <= PieceOf(p, s.end - 1)
    BY <1>1, PieceOrder
  <1>4. /\ PiecesOf(p, r) = PieceOf(p, r.start) .. PieceOf(p, r.end - 1)
        /\ PiecesOf(p, s) = PieceOf(p, s.start) .. PieceOf(p, s.end - 1)
    BY PiecesAre
  <1> QED BY <1>2, <1>3, <1>4

\* So do the pieces of a plan, and it has those of all it covers.
LEMMA RequestedIn ==
    ASSUME NEW p, Playable(p), NEW m \in Seq(Within(Length(p)))
    PROVE  /\ Requested(p, m) \in SUBSET FilePieces(p)
           /\ FilePieces(p) \in SUBSET Nat /\ IsFiniteSet(FilePieces(p))
           /\ \A r \in Within(Length(p)) : Covers(m, r) => PiecesOf(p, r) \in SUBSET Requested(p, m)
  <1>1. \A i \in DOMAIN m : m[i] \in Within(Length(p))
    OBVIOUS
  <1>2. Requested(p, m) \in SUBSET FilePieces(p)
    <2>1. \A i \in DOMAIN m : PiecesOf(p, m[i]) \in SUBSET FilePieces(p)
      BY <1>1, PiecesAre
    <2> QED BY <2>1 DEF Requested
  <1>3. FilePieces(p) \in SUBSET Nat /\ IsFiniteSet(FilePieces(p))
    <2>1. Bytes(0, Length(p)) \in Within(Length(p))
      BY FileInTorrent DEF Bytes, Within
    <2> QED BY <2>1, PiecesAre DEF FilePieces
  <1>4. ASSUME NEW r \in Within(Length(p)), Covers(m, r)
        PROVE  PiecesOf(p, r) \in SUBSET Requested(p, m)
    <2>1. PICK k \in DOMAIN m : m[k].start <= r.start /\ r.end <= m[k].end
      BY <1>4 DEF Covers
    <2>2. PiecesOf(p, r) \in SUBSET PiecesOf(p, m[k])
      BY <1>1, <2>1, PiecesOfPart
    <2> QED BY <2>2 DEF Requested
  <1> QED BY <1>2, <1>3, <1>4

\* A byte is in a piece of the range it is all of.
LEMMA ByteInPieces ==
    ASSUME NEW p, Playable(p), NEW b \in Nat, b < Length(p)
    PROVE  /\ Bytes(b, b + 1) \in Within(Length(p))
           /\ PieceOf(p, b) \in PiecesOf(p, Bytes(b, b + 1))
  <1>1. Bytes(b, b + 1) \in Within(Length(p)) /\ Bytes(b, b + 1).start = b /\ Bytes(b, b + 1).end - 1 = b
    BY FileInTorrent DEF Bytes, Within
  <1>2. PieceOf(p, b) \in Nat
    BY PieceOrder
  <1>3. PiecesOf(p, Bytes(b, b + 1)) = PieceOf(p, b) .. PieceOf(p, b)
    BY <1>1, PiecesAre
  <1> QED BY <1>1, <1>2, <1>3

-----------------------------------------------------------------------------
(***************************************************************************)
(* Deadlines.                                                              *)
(***************************************************************************)

\* What groups have between them.
Elements(gs) == UNION {Range(gs[g]) : g \in DOMAIN gs}

\* No element is in two groups or twice in one.
Distinct(gs) ==
    \A g, h \in DOMAIN gs : \A i \in DOMAIN gs[g], j \in DOMAIN gs[h] :
        gs[g][i] = gs[h][j] => g = h /\ i = j

\* The groups have each element of a set once.
Deals(gs, S) == gs \in Seq(Seq(Int)) /\ Distinct(gs) /\ Elements(gs) = S

\* A sequence that has each element of a set once.
Arranges(s, S) == s \in Seq(Int) /\ IsInjective(s) /\ Range(s) = S

\* Numbers have a least one.
LEMMA LeastOf ==
    ASSUME NEW S \in SUBSET Nat, S # {}
    PROVE  \E x \in S : \A y \in S : x <= y
  <1> DEFINE R == OpToRel(<, Nat)
  <1>1. IsWellFoundedOn(R, Nat)
    BY NatLessThanWellFounded
  <1>2. PICK x \in S : \A y \in S : <<y, x>> \notin R
    <2> HIDE DEF R
    <2> QED BY <1>1, WFMin
  <1>3. \A y \in S : ~(y < x)
    BY <1>2 DEF OpToRel
  <1> QED BY <1>3

\* Sorting a set lists it.
LEMMA AscendingArranges ==
    ASSUME NEW S \in SUBSET Int, IsFiniteSet(S)
    PROVE  Arranges(Ascending(S), S)
  <1> DEFINE q == Ascending(S)
  <1>1. /\ q \in Seq(S)
        /\ \A i, j \in 1 .. Len(q) : i < j <=> q[i] < q[j]
        /\ \A x \in S : \E k \in 1 .. Len(q) : q[k] = x
    BY AscendingSorts
  <1> HIDE DEF q
  <1>2. DOMAIN q = 1 .. Len(q) /\ Len(q) \in Nat /\ \A i \in 1 .. Len(q) : q[i] \in S
    BY <1>1
  <1>3. q \in Seq(Int)
    BY <1>1, SeqMonotonic
  <1>4. IsInjective(q)
    <2> SUFFICES ASSUME NEW i \in 1 .. Len(q), NEW j \in 1 .. Len(q), q[i] = q[j] PROVE i = j
      BY <1>2 DEF IsInjective
    <2>1. ~(i < j) /\ ~(j < i)
      BY <1>1, <1>2
    <2> QED BY <1>2, <2>1
  <1>5. Range(q) = S
    BY <1>1, <1>2 DEF Range
  <1> QED BY <1>3, <1>4, <1>5 DEF Arranges, q

\* Backwards too.
LEMMA DescendingArranges ==
    ASSUME NEW S \in SUBSET Int, IsFiniteSet(S)
    PROVE  Arranges(Sorted(S, >), S)
  <1> DEFINE R == {p \in S \X S : p[1] > p[2]}
             q == Sorted(S, >)
  <1>1. Orders(R, S)
    BY DEF Orders
  <1>2. ASSUME NEW x \in S PROVE Below(x, R, S) = {y \in S : y > x}
    BY DEF Below
  <1>3. q = [k \in 1 .. Cardinality(S) |-> CHOOSE x \in S : Cardinality({y \in S : y > x}) = k - 1]
    BY DEF Sorted
  <1>4. ASSUME NEW k \in 1 .. Cardinality(S)
        PROVE  q[k] \in S /\ Cardinality(Below(q[k], R, S)) = k - 1
    <2>1. PICK x \in S : Cardinality(Below(x, R, S)) = k - 1
      <3> HIDE DEF R, q
      <3> QED BY <1>1, Ranks
    <2>2. Cardinality({y \in S : y > x}) = k - 1
      BY <1>2, <2>1
    <2>3. q[k] \in S /\ Cardinality({y \in S : y > q[k]}) = k - 1
      <3> HIDE DEF q
      <3> QED BY <1>3, <2>2
    <2> HIDE DEF R, q
    <2> QED BY <1>2, <2>3
  <1>5. Lists(q, R, S)
    BY <1>3, <1>4 DEF Lists
  <1>6. \A x \in S : <<x, x>> \notin R
    OBVIOUS
  <1> HIDE DEF R, q
  <1>7. /\ q \in Seq(S)
        /\ \A i, j \in 1 .. Len(q) : i < j <=> <<q[i], q[j]>> \in R
        /\ \A x \in S : \E k \in 1 .. Len(q) : q[k] = x
    BY <1>1, <1>5, RankedSequence
  <1>8. DOMAIN q = 1 .. Len(q) /\ Len(q) \in Nat /\ \A i \in 1 .. Len(q) : q[i] \in S
    BY <1>7
  <1>9. q \in Seq(Int)
    BY <1>7, SeqMonotonic
  <1>10. IsInjective(q)
    <2> SUFFICES ASSUME NEW i \in 1 .. Len(q), NEW j \in 1 .. Len(q), q[i] = q[j] PROVE i = j
      BY <1>8 DEF IsInjective
    <2>1. ~(i < j) /\ ~(j < i)
      BY <1>6, <1>7, <1>8
    <2> QED BY <1>8, <2>1
  <1>11. Range(q) = S
    BY <1>7, <1>8 DEF Range
  <1> QED BY <1>9, <1>10, <1>11 DEF Arranges, q

\* What passes a test keeps its order and nothing else.
LEMMA PassingArranges ==
    ASSUME NEW S, NEW g, Arranges(g, S), NEW T \in SUBSET DOMAIN g
    PROVE  Arranges([k \in DOMAIN Ascending(T) |-> g[Ascending(T)[k]]], {g[i] : i \in T})
  <1> DEFINE at == Ascending(T)
             u == [k \in DOMAIN at |-> g[at[k]]]
  <1>1. g \in Seq(Int) /\ DOMAIN g = 1 .. Len(g) /\ Len(g) \in Nat /\ T \in SUBSET Int /\ IsInjective(g)
    BY DEF Arranges
  <1>2. IsFiniteSet(T)
    <2>1. IsFiniteSet(1 .. Len(g))
      BY <1>1, FS_Interval
    <2> QED BY <1>1, <2>1, FS_Subset
  <1>3. Arranges(at, T)
    BY <1>1, <1>2, AscendingArranges
  <1> HIDE DEF at
  <1>4. /\ DOMAIN at = 1 .. Len(at) /\ Len(at) \in Nat /\ \A k \in DOMAIN at : at[k] \in T
        /\ \A i \in T : \E k \in DOMAIN at : at[k] = i
    BY <1>3 DEF Arranges, Range
  <1>5. u \in Seq(Int)
    <2>1. u \in [1 .. Len(at) -> Int]
      <3>1. \A k \in DOMAIN at : g[at[k]] \in Int
        BY <1>1, <1>4
      <3> QED BY <1>4, <3>1
    <2> HIDE DEF u
    <2> QED BY <1>4, <2>1, SeqDef
  <1>6. IsInjective(u)
    BY <1>1, <1>3, <1>4 DEF Arranges, IsInjective
  <1>7. Range(u) = {g[i] : i \in T}
    BY <1>4 DEF Range
  <1> HIDE DEF u
  <1>8. Arranges(u, {g[i] : i \in T})
    BY <1>5, <1>6, <1>7 DEF Arranges
  <1> QED BY <1>8 DEF u, at

\* Groups left out without elements make no difference.
LEMMA NonemptyDeals ==
    ASSUME NEW S, NEW gs, Deals(gs, S)
    PROVE  /\ Deals(Passing(gs, LAMBDA g : g # <<>>), S)
           /\ \A k \in DOMAIN Passing(gs, LAMBDA g : g # <<>>) : Passing(gs, LAMBDA g : g # <<>>)[k] # <<>>
  <1> DEFINE T == {i \in DOMAIN gs : gs[i] # <<>>}
             at == Ascending(T)
             u == [k \in DOMAIN at |-> gs[at[k]]]
  <1>1. gs \in Seq(Seq(Int)) /\ DOMAIN gs = 1 .. Len(gs) /\ Len(gs) \in Nat /\ T \in SUBSET Int
    BY DEF Deals
  <1>2. IsFiniteSet(T)
    <2>1. IsFiniteSet(1 .. Len(gs)) /\ T \in SUBSET (1 .. Len(gs))
      BY <1>1, FS_Interval
    <2> QED BY <2>1, FS_Subset
  <1>3. Passing(gs, LAMBDA g : g # <<>>) = u
    BY DEF Passing
  <1> HIDE DEF T
  <1>4. Arranges(at, T)
    BY <1>1, <1>2, AscendingArranges
  <1> HIDE DEF at
  <1>5. /\ DOMAIN at = 1 .. Len(at) /\ Len(at) \in Nat /\ \A k \in DOMAIN at : at[k] \in T
        /\ \A i \in T : \E k \in DOMAIN at : at[k] = i
        /\ \A k, l \in DOMAIN at : at[k] = at[l] => k = l
    BY <1>4 DEF Arranges, Range, IsInjective
  <1>6. \A i \in T : i \in DOMAIN gs /\ gs[i] # <<>>
    BY DEF T
  <1>7. u \in Seq(Seq(Int))
    <2>1. u \in [1 .. Len(at) -> Seq(Int)]
      <3>1. \A k \in DOMAIN at : gs[at[k]] \in Seq(Int)
        <4>1. \A k \in DOMAIN at : at[k] \in DOMAIN gs
          BY <1>5, <1>6
        <4>2. \A g \in DOMAIN gs : gs[g] \in Seq(Int)
          BY <1>1
        <4> QED BY <4>1, <4>2
      <3> QED BY <1>5, <3>1
    <2> HIDE DEF u
    <2> QED BY <1>5, <2>1, SeqDef
  <1>8. Distinct(u)
    <2>1. DOMAIN u = DOMAIN at /\ \A k \in DOMAIN at : u[k] = gs[at[k]]
      OBVIOUS
    <2> HIDE DEF u
    <2> SUFFICES ASSUME NEW k \in DOMAIN u, NEW l \in DOMAIN u,
                        NEW i \in DOMAIN u[k], NEW j \in DOMAIN u[l], u[k][i] = u[l][j]
                 PROVE  k = l /\ i = j
      BY DEF Distinct
    <2>2. at[k] \in DOMAIN gs /\ at[l] \in DOMAIN gs /\ u[k] = gs[at[k]] /\ u[l] = gs[at[l]]
      BY <1>5, <1>6, <2>1
    <2>3. at[k] = at[l] /\ i = j
      BY <2>2 DEF Deals, Distinct
    <2> QED BY <1>5, <2>1, <2>3
  <1>9. Elements(u) = S
    <2>1. \A x : x \in Elements(u) <=> \E k \in DOMAIN at : x \in Range(gs[at[k]])
      BY DEF Elements
    <2>2. \A x : x \in S <=> \E g \in DOMAIN gs : x \in Range(gs[g])
      BY DEF Deals, Elements
    <2>3. \A g \in DOMAIN gs : \A x \in Range(gs[g]) : g \in T
      BY DEF Range, T
    <2> HIDE DEF u
    <2>4. ASSUME NEW x \in Elements(u) PROVE x \in S
      <3>1. PICK k \in DOMAIN at : x \in Range(gs[at[k]])
        BY <2>1
      <3>2. at[k] \in DOMAIN gs
        BY <1>5, <1>6
      <3> QED BY <2>2, <3>1, <3>2
    <2>5. ASSUME NEW x \in S PROVE x \in Elements(u)
      <3>1. PICK g \in DOMAIN gs : x \in Range(gs[g])
        BY <2>2
      <3>2. g \in T
        BY <2>3, <3>1
      <3>3. PICK k \in DOMAIN at : at[k] = g
        BY <1>5, <3>2
      <3> QED BY <2>1, <3>1, <3>3
    <2> QED BY <2>4, <2>5
  <1>10. \A k \in DOMAIN u : u[k] # <<>>
    BY <1>5, <1>6
  <1> HIDE DEF u
  <1>11. Deals(u, S)
    BY <1>7, <1>8, <1>9 DEF Deals
  <1> QED BY <1>3, <1>10, <1>11

\* Every requested piece is in the group of the first range that has it.
LEMMA GroupsDeal ==
    ASSUME NEW p, Playable(p), NEW rs \in Seq(Within(Length(p)))
    PROVE  /\ Deals(Groups(p, rs), Requested(p, rs))
           /\ \A k \in DOMAIN Groups(p, rs) : Groups(p, rs)[k] # <<>>
  <1> DEFINE New(i) == PiecesOf(p, rs[i]) \ Requested(p, SubSeq(rs, 1, i - 1))
             Group(i) == IF rs[i].end >= Length(p) THEN Sorted(New(i), >)
                         ELSE Ascending(New(i))
             gs == [i \in DOMAIN rs |-> Group(i)]
  <1>1. /\ DOMAIN rs = 1 .. Len(rs) /\ Len(rs) \in Nat
        /\ \A i \in DOMAIN rs : rs[i] \in Within(Length(p))
    OBVIOUS
  <1>2. \A i \in DOMAIN rs : PiecesOf(p, rs[i]) \in SUBSET Nat /\ IsFiniteSet(PiecesOf(p, rs[i]))
    BY <1>1, PiecesAre
  <1>3. ASSUME NEW i \in DOMAIN rs
        PROVE  Requested(p, SubSeq(rs, 1, i - 1)) = UNION {PiecesOf(p, rs[j]) : j \in 1 .. i - 1}
    <2> DEFINE b == SubSeq(rs, 1, i - 1)
    <2>1. DOMAIN b = 1 .. i - 1 /\ \A j \in 1 .. i - 1 : b[j] = rs[j]
      BY <1>1
    <2> HIDE DEF b
    <2>2. Requested(p, b) = UNION {PiecesOf(p, rs[j]) : j \in 1 .. i - 1}
      BY <2>1 DEF Requested
    <2> QED BY <2>2 DEF b
  <1>4. ASSUME NEW i \in DOMAIN rs PROVE Arranges(Group(i), New(i))
    <2>1. New(i) \in SUBSET PiecesOf(p, rs[i])
      OBVIOUS
    <2>2. New(i) \in SUBSET Int /\ IsFiniteSet(New(i))
      <3> HIDE DEF New
      <3> QED BY <1>2, <2>1, FS_Subset
    <2> HIDE DEF New
    <2>3. CASE rs[i].end >= Length(p)
      BY <2>2, <2>3, DescendingArranges
    <2>4. CASE ~(rs[i].end >= Length(p))
      BY <2>2, <2>4, AscendingArranges
    <2> QED BY <2>3, <2>4
  <1>5. ASSUME NEW i \in DOMAIN rs, NEW x
        PROVE  x \in New(i) <=> x \in PiecesOf(p, rs[i]) /\ \A j \in 1 .. i - 1 : x \notin PiecesOf(p, rs[j])
    BY <1>3
  <1>6. Groups(p, rs) = Passing(gs, LAMBDA g : g # <<>>)
    BY DEF Groups
  <1> HIDE DEF Group, New
  <1>7. gs \in Seq(Seq(Int))
    <2>1. gs \in [1 .. Len(rs) -> Seq(Int)]
      BY <1>1, <1>4 DEF Arranges
    <2> HIDE DEF gs
    <2> QED BY <1>1, <2>1, SeqDef
  <1>8. \A i \in DOMAIN gs : i \in DOMAIN rs /\ gs[i] = Group(i) /\ Arranges(gs[i], New(i))
    BY <1>4
  <1>9. DOMAIN gs = DOMAIN rs
    OBVIOUS
  <1> HIDE DEF gs
  <1>10. Distinct(gs)
    <2> SUFFICES ASSUME NEW g \in DOMAIN gs, NEW h \in DOMAIN gs,
                        NEW i \in DOMAIN gs[g], NEW j \in DOMAIN gs[h], gs[g][i] = gs[h][j]
                 PROVE  g = h /\ i = j
      BY DEF Distinct
    <2>1. gs[g][i] \in New(g) /\ gs[g][i] \in New(h)
      BY <1>8 DEF Arranges, Range
    <2>2. ~(g < h) /\ ~(h < g)
      <3>1. g \in 1 .. Len(rs) /\ h \in 1 .. Len(rs)
        BY <1>1, <1>9
      <3>2. g < h => g \in 1 .. h - 1
        BY <1>1, <3>1
      <3>3. h < g => h \in 1 .. g - 1
        BY <1>1, <3>1
      <3> QED BY <1>5, <1>9, <2>1, <3>2, <3>3
    <2>3. g = h
      BY <1>1, <1>9, <2>2
    <2> QED BY <1>8, <2>3 DEF Arranges, IsInjective
  <1>11. Elements(gs) = Requested(p, rs)
    <2>1. \A i \in DOMAIN rs : Range(gs[i]) = New(i)
      BY <1>8, <1>9 DEF Arranges
    <2>2. ASSUME NEW x \in Elements(gs) PROVE x \in Requested(p, rs)
      <3>1. PICK i \in DOMAIN rs : x \in New(i)
        BY <1>9, <2>1 DEF Elements
      <3>2. x \in PiecesOf(p, rs[i])
        BY <1>5, <3>1
      <3> QED BY <3>2 DEF Requested
    <2>3. ASSUME NEW x \in Requested(p, rs) PROVE x \in Elements(gs)
      <3> DEFINE Has == {i \in DOMAIN rs : x \in PiecesOf(p, rs[i])}
      <3>1. Has \in SUBSET Nat /\ Has # {}
        BY <1>1 DEF Requested
      <3>2. PICK i \in Has : \A j \in Has : i <= j
        <4> HIDE DEF Has
        <4> QED BY <3>1, LeastOf
      <3>3. i \in DOMAIN rs /\ \A j \in 1 .. i - 1 : x \notin PiecesOf(p, rs[j])
        BY <1>1, <3>2
      <3>4. x \in New(i)
        BY <1>5, <3>2, <3>3
      <3> QED BY <1>9, <2>1, <3>3, <3>4 DEF Elements
    <2> QED BY <2>2, <2>3
  <1>12. Deals(gs, Requested(p, rs))
    BY <1>7, <1>10, <1>11 DEF Deals
  <1> QED BY <1>6, <1>12, NonemptyDeals

\* Taking from each group in turn takes each element once.
LEMMA RoundRobinArranges ==
    ASSUME NEW S, NEW gs, Deals(gs, S)
    PROVE  Arranges(RoundRobin(gs), S)
  <1> DEFINE Of(g) == {<<k, g>> : k \in DOMAIN gs[g]}
             turns == UNION {Of(g) : g \in DOMAIN gs}
             Turn(s, t) == s[1] < t[1] \/ (s[1] = t[1] /\ s[2] < t[2])
             R == {x \in turns \X turns : Turn(x[1], x[2])}
             q == Sorted(turns, Turn)
             u == [i \in DOMAIN q |-> gs[q[i][2]][q[i][1]]]
  <1>1. RoundRobin(gs) = u
    BY DEF RoundRobin
  <1>2. /\ gs \in Seq(Seq(Int)) /\ DOMAIN gs = 1 .. Len(gs) /\ Len(gs) \in Nat
        /\ \A g \in DOMAIN gs : gs[g] \in Seq(Int)
    BY DEF Deals
  <1>3. \A g \in DOMAIN gs : DOMAIN gs[g] = 1 .. Len(gs[g]) /\ Len(gs[g]) \in Nat
    BY <1>2
  <1>4. \A x : x \in turns <=> \E g \in DOMAIN gs : \E k \in DOMAIN gs[g] : x = <<k, g>>
    OBVIOUS
  <1>5. \A x \in turns : /\ x = <<x[1], x[2]>> /\ x[1] \in Nat /\ x[2] \in Nat
                         /\ x[2] \in DOMAIN gs /\ x[1] \in DOMAIN gs[x[2]]
    BY <1>2, <1>3, <1>4
  <1>6. IsFiniteSet(turns)
    <2>1. ASSUME NEW g \in DOMAIN gs PROVE IsFiniteSet(Of(g))
      <3> DEFINE f == [k \in DOMAIN gs[g] |-> <<k, g>>]
      <3>1. f \in Surjection(DOMAIN gs[g], Of(g))
        BY DEF Surjection
      <3>2. IsFiniteSet(DOMAIN gs[g])
        BY <1>3, FS_Interval
      <3> HIDE DEF f, Of
      <3> QED BY <3>1, <3>2, FS_Surjection
    <2> DEFINE All == {Of(g) : g \in DOMAIN gs}
               f == [g \in DOMAIN gs |-> Of(g)]
    <2>2. f \in Surjection(DOMAIN gs, All)
      <3> HIDE DEF Of
      <3> QED BY DEF Surjection
    <2>3. IsFiniteSet(DOMAIN gs)
      BY <1>2, FS_Interval
    <2>4. \A T \in All : IsFiniteSet(T)
      <3> HIDE DEF Of
      <3> QED BY <2>1
    <2> HIDE DEF All, f, Of
    <2>5. IsFiniteSet(All)
      BY <2>2, <2>3, FS_Surjection
    <2>6. IsFiniteSet(UNION All)
      BY <2>4, <2>5, FS_UNION
    <2> QED BY <2>6 DEF All
  <1> HIDE DEF turns
  <1>7. Orders(R, turns)
    <2>1. \A x \in turns : <<x, x>> \notin R
      BY <1>5
    <2>2. ASSUME NEW x \in turns, NEW y \in turns PROVE <<x, y>> \in R \/ <<y, x>> \in R \/ x = y
      <3>1. /\ x[1] \in Nat /\ x[2] \in Nat /\ y[1] \in Nat /\ y[2] \in Nat
            /\ x = <<x[1], x[2]>> /\ y = <<y[1], y[2]>>
        BY <1>5
      <3>2. x[1] = y[1] /\ x[2] = y[2] => x = y
        BY <3>1
      <3> QED BY <3>1, <3>2
    <2>3. ASSUME NEW x \in turns, NEW y \in turns, NEW z \in turns, <<x, y>> \in R, <<y, z>> \in R
          PROVE  <<x, z>> \in R
      <3>1. Turn(x, y) /\ Turn(y, z)
        BY <2>3
      <3>2. Turn(x, z)
        BY <1>5, <3>1
      <3> QED BY <3>2
    <2> HIDE DEF R
    <2> QED BY <2>1, <2>2, <2>3 DEF Orders
  <1>8. ASSUME NEW x \in turns PROVE Below(x, R, turns) = {y \in turns : Turn(y, x)}
    BY DEF Below
  <1>9. q = [k \in 1 .. Cardinality(turns) |->
               CHOOSE x \in turns : Cardinality({y \in turns : Turn(y, x)}) = k - 1]
    BY DEF Sorted
  <1>10. ASSUME NEW k \in 1 .. Cardinality(turns)
         PROVE  q[k] \in turns /\ Cardinality(Below(q[k], R, turns)) = k - 1
    <2>1. PICK x \in turns : Cardinality(Below(x, R, turns)) = k - 1
      <3> HIDE DEF R, q
      <3> QED BY <1>6, <1>7, Ranks
    <2>2. Cardinality({y \in turns : Turn(y, x)}) = k - 1
      BY <1>8, <2>1
    <2>3. q[k] \in turns /\ Cardinality({y \in turns : Turn(y, q[k])}) = k - 1
      <3> HIDE DEF q, Turn
      <3> QED BY <1>9, <2>2
    <2> HIDE DEF R, q
    <2> QED BY <1>8, <2>3
  <1>11. Lists(q, R, turns)
    <2> HIDE DEF R, Turn
    <2>1. q \in [1 .. Cardinality(turns) -> turns]
      BY <1>9, <1>10
    <2> HIDE DEF q
    <2> QED BY <1>10, <2>1 DEF Lists
  <1>12. \A x \in turns : <<x, x>> \notin R
    BY <1>5
  <1> HIDE DEF R, q
  <1>13. /\ q \in Seq(turns)
         /\ \A i, j \in 1 .. Len(q) : i < j <=> <<q[i], q[j]>> \in R
         /\ \A x \in turns : \E k \in 1 .. Len(q) : q[k] = x
    BY <1>6, <1>7, <1>11, RankedSequence
  <1>14. DOMAIN q = 1 .. Len(q) /\ Len(q) \in Nat /\ \A i \in DOMAIN q : q[i] \in turns
    BY <1>13
  <1>15. \A i, j \in DOMAIN q : q[i] = q[j] => i = j
    <2> SUFFICES ASSUME NEW i \in 1 .. Len(q), NEW j \in 1 .. Len(q), q[i] = q[j] PROVE i = j
      BY <1>14
    <2>1. ~(i < j) /\ ~(j < i)
      BY <1>12, <1>13, <1>14
    <2> QED BY <1>14, <2>1
  <1>16. \A i \in DOMAIN q : /\ q[i][2] \in DOMAIN gs /\ q[i][1] \in DOMAIN gs[q[i][2]]
                             /\ q[i] = <<q[i][1], q[i][2]>>
    BY <1>5, <1>14
  <1>17. u \in Seq(Int)
    <2>1. u \in [1 .. Len(q) -> Int]
      <3>1. \A i \in DOMAIN q : gs[q[i][2]][q[i][1]] \in Int
        <4> SUFFICES ASSUME NEW i \in DOMAIN q PROVE gs[q[i][2]][q[i][1]] \in Int
          OBVIOUS
        <4> DEFINE g == q[i][2]
        <4>1. g \in DOMAIN gs /\ q[i][1] \in DOMAIN gs[g]
          BY <1>16
        <4> HIDE DEF g
        <4>2. gs[g][q[i][1]] \in Int
          BY <1>2, <4>1
        <4> QED BY <4>2 DEF g
      <3> QED BY <1>14, <3>1
    <2> HIDE DEF u
    <2> QED BY <1>14, <2>1, SeqDef
  <1>18. DOMAIN u = DOMAIN q /\ \A i \in DOMAIN q : u[i] = gs[q[i][2]][q[i][1]]
    OBVIOUS
  <1> HIDE DEF u
  <1>19. IsInjective(u)
    <2> SUFFICES ASSUME NEW i \in DOMAIN q, NEW j \in DOMAIN q, u[i] = u[j] PROVE i = j
      BY <1>18 DEF IsInjective
    <2>1. q[i][2] = q[j][2] /\ q[i][1] = q[j][1]
      BY <1>16, <1>18 DEF Deals, Distinct
    <2>2. q[i] = q[j]
      BY <1>16, <2>1
    <2> QED BY <1>15, <2>2
  <1>20. Range(u) = S
    <2>1. ASSUME NEW x \in Range(u) PROVE x \in S
      <3>1. PICK i \in DOMAIN q : x = gs[q[i][2]][q[i][1]]
        BY <1>18 DEF Range
      <3>2. x \in Range(gs[q[i][2]])
        BY <1>16, <3>1 DEF Range
      <3> QED BY <1>16, <3>2 DEF Deals, Elements
    <2>2. ASSUME NEW x \in S PROVE x \in Range(u)
      <3>1. PICK g \in DOMAIN gs : x \in Range(gs[g])
        BY DEF Deals, Elements
      <3>2. PICK k \in DOMAIN gs[g] : x = gs[g][k]
        BY <3>1 DEF Range
      <3>3. <<k, g>> \in turns
        BY <1>4 DEF turns
      <3>4. PICK i \in DOMAIN q : q[i] = <<k, g>>
        BY <1>13, <1>14, <3>3
      <3>5. u[i] = x
        BY <1>18, <3>2, <3>4
      <3> QED BY <1>18, <3>5 DEF Range
    <2> QED BY <2>1, <2>2
  <1>21. Arranges(u, S)
    BY <1>17, <1>19, <1>20 DEF Arranges
  <1> QED BY <1>1, <1>21 DEF u, q

\* Lists without a common element, one after the other.
LEMMA ConcatArranges ==
    ASSUME NEW A, NEW B, A \cap B = {}, NEW s, NEW t, Arranges(s, A), Arranges(t, B)
    PROVE  Arranges(s \o t, A \cup B)
  <1> DEFINE u == s \o t
             n == Len(s)
  <1>1. /\ s \in Seq(Int) /\ t \in Seq(Int) /\ IsInjective(s) /\ IsInjective(t)
        /\ Range(s) = A /\ Range(t) = B
    BY DEF Arranges
  <1>2. /\ u \in Seq(Int) /\ Len(u) = n + Len(t)
        /\ \A i \in 1 .. n + Len(t) : u[i] = IF i <= n THEN s[i] ELSE t[i - n]
    BY <1>1, ConcatProperties
  <1>3. Range(u) = A \cup B
    BY <1>1, RangeConcatenation
  <1> HIDE DEF u
  <1>4. /\ n \in Nat /\ Len(t) \in Nat /\ DOMAIN u = 1 .. n + Len(t)
        /\ DOMAIN s = 1 .. n /\ DOMAIN t = 1 .. Len(t)
    BY <1>1, <1>2
  <1>5. IsInjective(u)
    <2> SUFFICES ASSUME NEW i \in 1 .. n + Len(t), NEW j \in 1 .. n + Len(t), u[i] = u[j]
                 PROVE  i = j
      BY <1>4 DEF IsInjective
    <2>1. \A k \in 1 .. n + Len(t) : k <= n => k \in DOMAIN s /\ u[k] = s[k] /\ u[k] \in A
      <3> SUFFICES ASSUME NEW k \in 1 .. n + Len(t), k <= n
                   PROVE  k \in DOMAIN s /\ u[k] = s[k] /\ u[k] \in A
        OBVIOUS
      <3>1. k \in DOMAIN s /\ u[k] = s[k]
        BY <1>2, <1>4
      <3> QED BY <1>1, <3>1 DEF Range
    <2>2. \A k \in 1 .. n + Len(t) : ~(k <= n) => k - n \in DOMAIN t /\ u[k] = t[k - n] /\ u[k] \in B
      <3> SUFFICES ASSUME NEW k \in 1 .. n + Len(t), ~(k <= n)
                   PROVE  k - n \in DOMAIN t /\ u[k] = t[k - n] /\ u[k] \in B
        OBVIOUS
      <3>1. k - n \in DOMAIN t /\ u[k] = t[k - n]
        BY <1>2, <1>4
      <3> QED BY <1>1, <3>1 DEF Range
    <2>3. CASE i <= n /\ j <= n
      BY <1>1, <2>1, <2>3 DEF IsInjective
    <2>4. CASE ~(i <= n) /\ ~(j <= n)
      <3>1. i - n = j - n
        BY <1>1, <2>2, <2>4 DEF IsInjective
      <3> QED BY <1>4, <3>1
    <2>5. CASE (i <= n /\ ~(j <= n)) \/ (~(i <= n) /\ j <= n)
      BY <2>1, <2>2, <2>5
    <2> QED BY <2>3, <2>4, <2>5
  <1> HIDE DEF n
  <1>6. Arranges(u, A \cup B)
    BY <1>2, <1>3, <1>5 DEF Arranges
  <1> QED BY <1>6 DEF u

\* The start of a group is part of it.
LEMMA FirstOf ==
    ASSUME NEW g \in Seq(Int)
    PROVE  LET f == SubSeq(g, 1, Min({Len(g), Bootstrap})) IN
           f \in Seq(Int) /\ DOMAIN f \in SUBSET DOMAIN g /\ \A i \in DOMAIN f : f[i] = g[i]
  <1> DEFINE m == Min({Len(g), Bootstrap})
  <1>1. Len(g) \in Nat /\ Bootstrap \in Nat /\ DOMAIN g = 1 .. Len(g)
    BY Settings
  <1>2. m = IF Len(g) <= Bootstrap THEN Len(g) ELSE Bootstrap
    BY <1>1, MinOfTwo
  <1>3. m \in Nat /\ m <= Len(g)
    BY <1>1, <1>2
  <1> HIDE DEF m
  <1> DEFINE f == SubSeq(g, 1, m)
  <1>4. /\ f \in Seq(Int) /\ DOMAIN f = 1 .. m /\ \A i \in 1 .. m : f[i] = g[i]
    BY <1>1, <1>3
  <1>5. 1 .. m \in SUBSET DOMAIN g
    BY <1>1, <1>3
  <1>6. f \in Seq(Int) /\ DOMAIN f \in SUBSET DOMAIN g /\ \A i \in DOMAIN f : f[i] = g[i]
    <2> HIDE DEF f
    <2> QED BY <1>4, <1>5
  <1> QED BY <1>6 DEF m

\* Each requested piece has one deadline.
LEMMA DeadlinesArrange ==
    ASSUME NEW p, Playable(p), NEW rs \in Seq(Within(Length(p)))
    PROVE  Arranges(DeadlineOrder(p, rs), Requested(p, rs))
  <1> DEFINE groups == Groups(p, rs)
             want == Requested(p, rs)
             n == Len(groups)
             First(g) == SubSeq(g, 1, Min({Len(g), Bootstrap}))
             edges == <<First(groups[1]), First(Last(groups))>>
             early == Range(edges[1]) \cup Range(edges[2])
             others == [i \in DOMAIN groups |-> Passing(groups[i], LAMBDA x : x \notin early)]
  <1>1. Deals(groups, want)
    BY GroupsDeal
  <1>2. DeadlineOrder(p, rs) = IF n > 2 THEN RoundRobin(edges) \o RoundRobin(others) ELSE RoundRobin(groups)
    BY DEF DeadlineOrder
  <1> HIDE DEF groups, want
  <1>3. /\ groups \in Seq(Seq(Int)) /\ DOMAIN groups = 1 .. n /\ n \in Nat
        /\ \A g \in 1 .. n : groups[g] \in Seq(Int)
    BY <1>1 DEF Deals
  <1>4. CASE ~(n > 2)
    BY <1>1, <1>2, <1>4, RoundRobinArranges DEF want
  <1>5. CASE n > 2
    <2>1. 1 \in 1 .. n /\ n \in 1 .. n /\ 1 # n /\ Last(groups) = groups[n]
      <3>1. Last(groups) = groups[n]
        BY DEF Last
      <3>2. n \in Nat /\ n > 2
        BY <1>3, <1>5
      <3>3. 1 \in 1 .. n /\ n \in 1 .. n /\ 1 # n
        <4> HIDE DEF n
        <4> QED BY <3>2
      <3> QED BY <3>1, <3>3
    <2> DEFINE a == First(groups[1])
               b == First(groups[n])
    <2>2. /\ a \in Seq(Int) /\ DOMAIN a \in SUBSET DOMAIN groups[1]
          /\ \A i \in DOMAIN a : a[i] = groups[1][i]
      <3>1. groups[1] \in Seq(Int)
        BY <1>3, <2>1
      <3> HIDE DEF n
      <3> QED BY <3>1, FirstOf
    <2>3. /\ b \in Seq(Int) /\ DOMAIN b \in SUBSET DOMAIN groups[n]
          /\ \A i \in DOMAIN b : b[i] = groups[n][i]
      <3>1. groups[n] \in Seq(Int)
        BY <1>3, <2>1
      <3> HIDE DEF n
      <3> QED BY <3>1, FirstOf
    <2>4. edges = <<a, b>>
      BY <2>1
    <2> HIDE DEF a, b, edges
    <2>5. edges \in Seq(Seq(Int)) /\ DOMAIN edges = {1, 2} /\ edges[1] = a /\ edges[2] = b
      BY <2>2, <2>3, <2>4
    <2>6. early \in SUBSET want
      <3>1. Range(a) \in SUBSET want
        <4>1. \A i \in DOMAIN a : a[i] \in Range(groups[1])
          BY <2>2 DEF Range
        <4>2. Range(groups[1]) \in SUBSET want
          BY <1>1, <1>3, <2>1 DEF Deals, Elements
        <4> QED BY <4>1, <4>2 DEF Range
      <3>2. Range(b) \in SUBSET want
        <4>1. \A i \in DOMAIN b : b[i] \in Range(groups[n])
          BY <2>3 DEF Range
        <4>2. Range(groups[n]) \in SUBSET want
          BY <1>1, <1>3, <2>1 DEF Deals, Elements
        <4> QED BY <4>1, <4>2 DEF Range
      <3> QED BY <2>5, <3>1, <3>2
    <2>7. Elements(edges) = early
      BY <2>5 DEF Elements
    <2>8. Distinct(edges)
      <3> SUFFICES ASSUME NEW g \in DOMAIN edges, NEW h \in DOMAIN edges,
                          NEW i \in DOMAIN edges[g], NEW j \in DOMAIN edges[h],
                          edges[g][i] = edges[h][j]
                   PROVE  g = h /\ i = j
        BY DEF Distinct
      <3> DEFINE of(k) == IF k = 1 THEN 1 ELSE n
      <3>1. \A k \in DOMAIN edges : \A l \in DOMAIN edges[k] :
               /\ of(k) \in DOMAIN groups /\ l \in DOMAIN groups[of(k)]
               /\ edges[k][l] = groups[of(k)][l]
        BY <1>3, <2>1, <2>2, <2>3, <2>5
      <3>2. \A k, l \in DOMAIN edges : of(k) = of(l) => k = l
        BY <2>1, <2>5
      <3> HIDE DEF of
      <3>3. of(g) = of(h) /\ i = j
        BY <1>1, <3>1 DEF Deals, Distinct
      <3> QED BY <3>2, <3>3
    <2>9. Arranges(RoundRobin(edges), early)
      <3> HIDE DEF early
      <3>1. Deals(edges, early)
        BY <2>5, <2>7, <2>8 DEF Deals
      <3> QED BY <3>1, RoundRobinArranges
    <2> HIDE DEF early
    <2> DEFINE Kept(g) == {k \in DOMAIN groups[g] : groups[g][k] \notin early}
    <2>10. ASSUME NEW g \in 1 .. n
           PROVE  Arranges(others[g], {groups[g][k] : k \in Kept(g)})
      <3> DEFINE T == Kept(g)
                 x == groups[g]
      <3>1. Arranges(x, Range(x))
        <4>1. IsInjective(x)
          BY <1>1, <1>3 DEF Deals, Distinct, IsInjective
        <4> QED BY <1>3, <4>1 DEF Arranges
      <3>2. T \in SUBSET DOMAIN x
        OBVIOUS
      <3>3. others[g] = [k \in DOMAIN Ascending(T) |-> x[Ascending(T)[k]]]
        BY <1>3 DEF Passing
      <3> HIDE DEF T, x, others
      <3>4. Arranges(others[g], {x[k] : k \in T})
        BY <3>1, <3>2, <3>3, PassingArranges
      <3> QED BY <3>4 DEF T, x
    <2>11. DOMAIN others = 1 .. n
      BY <1>3
    <2> HIDE DEF Kept
    <2>12. others \in Seq(Seq(Int))
      <3>1. others = [g \in 1 .. n |-> others[g]]
        BY <1>3
      <3> HIDE DEF others
      <3>2. \A g \in 1 .. n : others[g] \in Seq(Int)
        BY <2>10 DEF Arranges
      <3>3. others \in [1 .. n -> Seq(Int)]
        BY <3>1, <3>2
      <3> HIDE DEF n
      <3> QED BY <1>3, <3>3, SeqDef
    <2> HIDE DEF others
    <2>13. \A g \in 1 .. n : \A k \in DOMAIN others[g] :
              others[g][k] \notin early /\ \E l \in DOMAIN groups[g] : others[g][k] = groups[g][l]
      BY <2>10 DEF Arranges, Range, Kept
    <2>14. Distinct(others)
      <3> SUFFICES ASSUME NEW g \in 1 .. n, NEW h \in 1 .. n,
                          NEW i \in DOMAIN others[g], NEW j \in DOMAIN others[h],
                          others[g][i] = others[h][j]
                   PROVE  g = h /\ i = j
        BY <2>11 DEF Distinct
      <3>1. PICK k \in DOMAIN groups[g] : others[g][i] = groups[g][k]
        BY <2>13
      <3>2. PICK l \in DOMAIN groups[h] : others[h][j] = groups[h][l]
        BY <2>13
      <3>3. g = h
        BY <1>1, <1>3, <3>1, <3>2 DEF Deals, Distinct
      <3> QED BY <2>10, <3>3 DEF Arranges, IsInjective
    <2>15. Elements(others) = want \ early
      <3>1. \A x : x \in want <=> \E g \in 1 .. n : x \in Range(groups[g])
        BY <1>1, <1>3 DEF Deals, Elements
      <3>2. \A x : x \in Elements(others) <=> \E g \in 1 .. n : x \in Range(others[g])
        BY <2>11 DEF Elements
      <3>3. \A g \in 1 .. n : Range(others[g]) = Range(groups[g]) \ early
        <4> SUFFICES ASSUME NEW g \in 1 .. n PROVE Range(others[g]) = Range(groups[g]) \ early
          OBVIOUS
        <4>1. Range(others[g]) = {groups[g][k] : k \in Kept(g)}
          BY <2>10 DEF Arranges
        <4> QED BY <4>1 DEF Kept, Range
      <3> QED BY <3>1, <3>2, <3>3
    <2>16. Arranges(RoundRobin(others), want \ early)
      <3>1. Deals(others, want \ early)
        BY <2>12, <2>14, <2>15 DEF Deals
      <3> QED BY <3>1, RoundRobinArranges
    <2>17. early \cap (want \ early) = {} /\ early \cup (want \ early) = want
      BY <2>6
    <2>18. Arranges(RoundRobin(edges) \o RoundRobin(others), early \cup (want \ early))
      <3> DEFINE rest == want \ early
      <3>1. early \cap rest = {} /\ Arranges(RoundRobin(others), rest)
        BY <2>16, <2>17
      <3> HIDE DEF rest
      <3>2. Arranges(RoundRobin(edges) \o RoundRobin(others), early \cup rest)
        BY <2>9, <3>1, ConcatArranges
      <3> QED BY <3>2 DEF rest
    <2> QED BY <1>2, <1>5, <2>17, <2>18 DEF want
  <1> QED BY <1>4, <1>5

-----------------------------------------------------------------------------
(***************************************************************************)
(* Candidates and frames.                                                  *)
(***************************************************************************)

\* There are Target anchors, and finitely many candidates.
LEMMA AnchorsFinite ==
    /\ IsFiniteSet(Anchor) /\ Cardinality(Anchor) = Target
    /\ IsFiniteSet(Candidate) /\ 1 \in 1 .. MaxCandidates /\ Anchor \in SUBSET Nat
  <1>1. Anchor = 0 .. Target - 1 /\ Target \in Nat \ {0} /\ MaxCandidates \in Nat \ {0}
    BY Settings DEF Anchor
  <1>2. IsFiniteSet(Anchor) /\ Cardinality(Anchor) = Target
    <2>1. IsFiniteSet(0 .. Target - 1) /\ Cardinality(0 .. Target - 1) = (IF 0 > Target - 1 THEN 0 ELSE Target - 1 - 0 + 1)
      BY <1>1, FS_Interval
    <2> QED BY <1>1, <2>1
  <1>3. IsFiniteSet(1 .. MaxCandidates)
    BY <1>1, FS_Interval
  <1>4. IsFiniteSet(Candidate)
    BY <1>2, <1>3, FS_Product DEF Candidate
  <1> QED BY <1>1, <1>2, <1>4

\* No two candidates of one anchor.
OnePerAnchor(cs) == \A c, d \in cs : c[1] = d[1] => c = d

\* One candidate for each anchor, in order, is a result of the status its number says.
LEMMA FramesInOrder ==
    ASSUME NEW cs \in SUBSET Candidate, OnePerAnchor(cs)
    PROVE  /\ InOrder(cs) \in Seq(Candidate)
           /\ \A i \in DOMAIN InOrder(cs) : InOrder(cs)[i] \in cs
           /\ \A i \in 2 .. Len(InOrder(cs)) : InOrder(cs)[i - 1][1] < InOrder(cs)[i][1]
           /\ Status(InOrder(cs)) \in {"succeeded", "partial", "failed"}
           /\ (Status(InOrder(cs)) = "succeeded") = (Len(InOrder(cs)) = Target)
           /\ (Status(InOrder(cs)) = "partial") = (Len(InOrder(cs)) \in 1 .. Target - 1)
  <1> DEFINE Before(c, d) == c[1] < d[1] \/ (c[1] = d[1] /\ c[2] < d[2])
             R == {x \in cs \X cs : Before(x[1], x[2])}
             q == InOrder(cs)
  <1>1. IsFiniteSet(cs)
    BY AnchorsFinite, FS_Subset
  <1>2. \A c \in cs : c[1] \in Anchor /\ c[1] \in Nat /\ c[2] \in Nat /\ c = <<c[1], c[2]>> /\ c \in Candidate
    <2> SUFFICES ASSUME NEW c \in cs
                 PROVE  /\ c[1] \in Anchor /\ c[1] \in Nat /\ c[2] \in Nat /\ c = <<c[1], c[2]>>
                        /\ c \in Candidate
      OBVIOUS
    <2>1. c \in Anchor \X (1 .. MaxCandidates)
      BY DEF Candidate
    <2>2. c = <<c[1], c[2]>> /\ c[1] \in Anchor /\ c[2] \in 1 .. MaxCandidates
      BY <2>1
    <2>3. c[1] \in Nat /\ c[2] \in Nat
      BY <2>2, AnchorsFinite
    <2> QED BY <2>2, <2>3
  <1>3. Orders(R, cs)
    <2>1. \A x \in cs : <<x, x>> \notin R
      BY <1>2
    <2>2. ASSUME NEW x \in cs, NEW y \in cs PROVE <<x, y>> \in R \/ <<y, x>> \in R \/ x = y
      <3>1. /\ x[1] \in Nat /\ x[2] \in Nat /\ y[1] \in Nat /\ y[2] \in Nat
            /\ x = <<x[1], x[2]>> /\ y = <<y[1], y[2]>>
        BY <1>2
      <3>2. x[1] = y[1] /\ x[2] = y[2] => x = y
        BY <3>1
      <3> QED BY <3>1, <3>2
    <2>3. ASSUME NEW x \in cs, NEW y \in cs, NEW z \in cs, <<x, y>> \in R, <<y, z>> \in R
          PROVE  <<x, z>> \in R
      <3>1. Before(x, y) /\ Before(y, z)
        BY <2>3
      <3>2. Before(x, z)
        BY <1>2, <3>1
      <3> QED BY <3>2
    <2> HIDE DEF R
    <2> QED BY <2>1, <2>2, <2>3 DEF Orders
  <1>4. ASSUME NEW x \in cs PROVE Below(x, R, cs) = {y \in cs : Before(y, x)}
    BY DEF Below
  <1>5. q = [k \in 1 .. Cardinality(cs) |-> CHOOSE x \in cs : Cardinality({y \in cs : Before(y, x)}) = k - 1]
    BY DEF InOrder, Sorted
  <1>6. ASSUME NEW k \in 1 .. Cardinality(cs)
        PROVE  q[k] \in cs /\ Cardinality(Below(q[k], R, cs)) = k - 1
    <2>1. PICK x \in cs : Cardinality(Below(x, R, cs)) = k - 1
      <3> HIDE DEF R, q
      <3> QED BY <1>1, <1>3, Ranks
    <2>2. Cardinality({y \in cs : Before(y, x)}) = k - 1
      BY <1>4, <2>1
    <2>3. q[k] \in cs /\ Cardinality({y \in cs : Before(y, q[k])}) = k - 1
      <3> HIDE DEF q, Before
      <3> QED BY <1>5, <2>2
    <2> HIDE DEF R, q
    <2> QED BY <1>4, <2>3
  <1>7. Lists(q, R, cs)
    <2> HIDE DEF R, Before
    <2>1. q \in [1 .. Cardinality(cs) -> cs]
      BY <1>5, <1>6
    <2> HIDE DEF q
    <2> QED BY <1>6, <2>1 DEF Lists
  <1>8. \A x, y \in cs : <<x, y>> \in R => x[1] < y[1]
    BY <1>2 DEF OnePerAnchor
  <1> HIDE DEF R, q
  <1>9. /\ q \in Seq(cs)
        /\ \A i, j \in 1 .. Len(q) : i < j <=> <<q[i], q[j]>> \in R
    BY <1>1, <1>3, <1>7, RankedSequence
  <1> DEFINE n == Len(q)
  <1>10. n \in Nat /\ DOMAIN q = 1 .. n /\ \A i \in 1 .. n : q[i] \in cs /\ q[i][1] \in Anchor
    BY <1>2, <1>9
  <1>11. \A i, j \in 1 .. n : i < j => q[i][1] < q[j][1]
    BY <1>8, <1>9, <1>10
  <1>12. \A i \in 2 .. n : q[i - 1][1] < q[i][1]
    <2> SUFFICES ASSUME NEW i \in 2 .. n PROVE q[i - 1][1] < q[i][1]
      OBVIOUS
    <2>1. i - 1 \in 1 .. n /\ i \in 1 .. n /\ i - 1 < i
      BY <1>10
    <2> QED BY <1>11, <2>1
  <1>13. q \in Seq(Candidate)
    BY <1>9, SeqMonotonic
  <1> DEFINE f == [i \in 1 .. n |-> q[i][1]]
             A == {q[i][1] : i \in 1 .. n}
  <1>14. IsFiniteSet(A) /\ Cardinality(A) = n /\ A \in SUBSET Anchor
    <2>1. f \in Surjection(1 .. n, A)
      BY DEF Surjection
    <2>2. f \in Injection(1 .. n, A)
      <3>1. \A i, j \in 1 .. n : q[i][1] = q[j][1] => i = j
        <4> SUFFICES ASSUME NEW i \in 1 .. n, NEW j \in 1 .. n, q[i][1] = q[j][1] PROVE i = j
          OBVIOUS
        <4>1. q[i][1] \in Nat /\ q[j][1] \in Nat
          BY <1>10, AnchorsFinite
        <4>2. ~(i < j) /\ ~(j < i)
          BY <1>10, <1>11, <4>1
        <4> QED BY <1>10, <4>2
      <3> QED BY <3>1 DEF Injection, IsInjective
    <2>3. IsFiniteSet(1 .. n) /\ Cardinality(1 .. n) = n
      BY <1>10, FS_Interval
    <2>4. A \in SUBSET Anchor
      BY <1>10
    <2> HIDE DEF f, A
    <2> QED BY <2>1, <2>2, <2>3, <2>4, FS_Surjection
  <1> HIDE DEF A
  <1>15. A = Anchor <=> n = Target
    BY <1>14, AnchorsFinite, FS_Subset
  <1>16. A # {} <=> n > 0
    BY <1>10 DEF A
  <1>17. n <= Target
    BY <1>14, AnchorsFinite, FS_Subset
  <1>18. Status(q) = IF A = Anchor THEN "succeeded" ELSE IF A # {} THEN "partial" ELSE "failed"
    BY <1>10 DEF Status, A
  <1>19. /\ Status(q) \in {"succeeded", "partial", "failed"}
         /\ (Status(q) = "succeeded") <=> (n = Target)
         /\ (Status(q) = "partial") <=> (n \in 1 .. Target - 1)
    <2> HIDE DEF n
    <2>1. Target \in Nat \ {0}
      BY Settings
    <2> QED BY <1>10, <1>15, <1>16, <1>17, <1>18, <2>1
  <1> QED BY <1>10, <1>12, <1>13, <1>19 DEF q, n

\* The best of each anchor are such candidates,
LEMMA LocalFrames ==
    ASSUME NEW counts \in [Anchor -> 0 .. MaxCandidates]
    PROVE  \E cs \in SUBSET Pool(counts) : OnePerAnchor(cs) /\ LocalPartial(counts) = InOrder(cs)
  <1> DEFINE cs == {<<a, 1>> : a \in Eligible(counts)}
  <1>1. cs \in SUBSET Pool(counts)
    <2> SUFFICES ASSUME NEW a \in Eligible(counts) PROVE <<a, 1>> \in Pool(counts)
      OBVIOUS
    <2>1. a \in Anchor /\ counts[a] \in Nat /\ counts[a] >= MinCandidates
      BY Settings DEF Eligible
    <2>2. 1 <= counts[a]
      BY <2>1, Settings
    <2> QED BY <2>1, <2>2, AnchorsFinite DEF Pool, Candidate
  <1>2. OnePerAnchor(cs)
    BY DEF OnePerAnchor
  <1>3. LocalPartial(counts) = InOrder(cs)
    BY DEF LocalPartial
  <1> HIDE DEF cs
  <1> QED BY <1>1, <1>2, <1>3

\* Whatever the model answers: what is accepted has the candidate of each anchor.
LEMMA ModelFrames ==
    ASSUME NEW counts \in [Anchor -> 0 .. MaxCandidates], NEW frames \in ChosenByModel(counts)
    PROVE  \E cs \in SUBSET Pool(counts) : OnePerAnchor(cs) /\ frames = InOrder(cs)
  <1>1. PICK candidates \in SUBSET Pool(counts) :
           frames \in IF candidates = {} THEN {LocalPartial(counts)} ELSE Selections[candidates]
    BY DEF ChosenByModel
  <1>2. CASE candidates = {}
    BY <1>1, <1>2, LocalFrames
  <1>3. CASE candidates # {}
    <2>1. candidates \in SUBSET Candidate
      BY DEF Pool
    <2>2. PICK choices \in ModelAnswers :
             Accepted(choices, candidates) /\ frames = InOrder({choices[i].id : i \in 1 .. Target})
      BY <1>1, <1>3, <2>1 DEF Selections
    <2> DEFINE cs == {choices[i].id : i \in 1 .. Target}
    <2>3. \A i \in 1 .. Target : /\ choices[i].id \in candidates /\ choices[i].id[1] = choices[i].anchor
                                 /\ \A j \in 1 .. i - 1 : choices[j].anchor # choices[i].anchor
      BY <2>2 DEF Accepted, ValidChoice
    <2>4. cs \in SUBSET Pool(counts)
      BY <2>3
    <2>5. OnePerAnchor(cs)
      <3> SUFFICES ASSUME NEW i \in 1 .. Target, NEW j \in 1 .. Target,
                          choices[i].id[1] = choices[j].id[1]
                   PROVE  choices[i].id = choices[j].id
        BY DEF OnePerAnchor
      <3>1. choices[i].anchor = choices[j].anchor
        BY <2>3
      <3>2. ~(i \in 1 .. j - 1) /\ ~(j \in 1 .. i - 1)
        BY <2>3, <3>1
      <3>3. i = j
        BY <3>2, Settings
      <3> QED BY <3>3
    <2>6. frames = InOrder(cs)
      BY <2>2
    <2> HIDE DEF cs
    <2> QED BY <2>4, <2>5, <2>6
  <1> QED BY <1>2, <1>3

\* More frames make no anchor poorer.
LEMMA CountsGrow ==
    ASSUME NEW counts \in [Anchor -> 0 .. MaxCandidates], NEW s \in [Anchor -> Sought]
    PROVE  /\ WithFrames(counts, s) \in [Anchor -> 0 .. MaxCandidates]
           /\ \A a \in Anchor : WithFrames(counts, s)[a] >= counts[a]
  <1> SUFFICES ASSUME NEW a \in Anchor
               PROVE  /\ Min({counts[a] + s[a], MaxCandidates}) \in 0 .. MaxCandidates
                      /\ Min({counts[a] + s[a], MaxCandidates}) >= counts[a]
    BY DEF WithFrames
  <1>1. counts[a] \in 0 .. MaxCandidates /\ s[a] \in Nat /\ MaxCandidates \in Nat
    BY Settings DEF Sought
  <1> DEFINE x == counts[a] + s[a]
  <1>2. x \in Nat /\ x >= counts[a]
    BY <1>1
  <1> HIDE DEF x
  <1>3. Min({x, MaxCandidates}) = IF x <= MaxCandidates THEN x ELSE MaxCandidates
    BY <1>1, <1>2, MinOfTwo
  <1> QED BY <1>1, <1>2, <1>3 DEF x

-----------------------------------------------------------------------------
(***************************************************************************)
(* The invariant.                                                          *)
(***************************************************************************)

\* What is done with a torrent to play.
Working == {"download", "decode", "retry", "widen", "redecode", "select"}

\* Until a source sends a torrent there is nothing else.
Sources ==
    /\ pc = "http" => Len(answers) < Resolvers
    /\ pc = "dht" => Len(answers) = Resolvers /\ DhtEnabled
    /\ pc \in {"http", "dht"} => payload = NoPayload /\ result = NoResult /\ ~active /\ ranges = <<>>
    /\ payload = NoPayload => pc \in {"http", "dht", "done"}

\* Whatever comes of a torrent comes of one the engine can read, with a video; its ranges
\* are in the file.
Readable ==
    /\ pc \in Working => Playable(payload) /\ result = NoResult
    /\ active \/ ranges # <<>> \/ result.frames # <<>> => Playable(payload)
    /\ Playable(payload) => ranges \in Seq(Within(Length(payload)))

\* The two counts are of the same moment, and of a torrent libtorrent has.
Counted ==
    /\ count # None => active /\ count <= downloaded
    /\ pc \in {"decode", "retry", "widen", "redecode"} => active

\* What is asked for in a download is what the settings and the checkpoint say.
Planned ==
    /\ pc = "download" =>
         ranges = IF floor # None THEN <<Bytes(0, Length(payload))>> ELSE Layout(Length(payload))
    /\ pc = "widen" =>
         /\ rung > 0
         /\ ranges = AnchorLayout(Length(payload), RetryRanges[rung], missing)

\* The inductive invariant.
IInv == TypeOK /\ Sources /\ Readable /\ Counted /\ Planned /\ OutcomeIsEarned

\* The whole file is a plan.
LEMMA WholeIn ==
    ASSUME NEW size \in Nat \ {0}
    PROVE  <<Bytes(0, size)>> \in Seq(Within(size))
  BY DEF Within, Bytes

\* Ranges in the file are ranges.
LEMMA WithinTyped ==
    ASSUME NEW size, NEW m \in Seq(Within(size))
    PROVE  m \in Seq([start : Nat, end : Nat \ {0}])
  <1>1. Within(size) \subseteq [start : Nat, end : Nat \ {0}]
    BY DEF Within
  <1> QED BY <1>1, SeqMonotonic

\* Of a plan no more pieces are complete than of the file, of the whole file just as many.
LEMMA Looking ==
    ASSUME TypeOK, Readable, Playable(payload)
    PROVE  /\ CompletedCount \in Nat /\ FileProgress \in Nat /\ CompletedCount <= FileProgress
           /\ ranges = <<Bytes(0, Length(payload))>> => CompletedCount = FileProgress
  <1> DEFINE A == Requested(payload, ranges) \cap have
             B == FilePieces(payload) \cap have
  <1>1. ranges \in Seq(Within(Length(payload)))
    BY DEF Readable
  <1>2. A \in SUBSET B
    BY <1>1, RequestedIn
  <1>3. B \in SUBSET have /\ IsFiniteSet(have)
    BY DEF TypeOK
  <1>4. ranges = <<Bytes(0, Length(payload))>> => Requested(payload, ranges) = FilePieces(payload)
    <2> SUFFICES ASSUME ranges = <<Bytes(0, Length(payload))>>
                 PROVE  Requested(payload, ranges) = FilePieces(payload)
      OBVIOUS
    <2>1. DOMAIN ranges = {1} /\ ranges[1] = Bytes(0, Length(payload))
      OBVIOUS
    <2> QED BY <2>1 DEF Requested, FilePieces
  <1> HIDE DEF A, B
  <1>5. IsFiniteSet(B) /\ Cardinality(B) \in Nat
    BY <1>3, FS_Subset, FS_CardinalityType
  <1>6. IsFiniteSet(A) /\ Cardinality(A) \in Nat /\ Cardinality(A) <= Cardinality(B)
    BY <1>2, <1>5, FS_Subset, FS_CardinalityType
  <1>7. CompletedCount = Cardinality(A) /\ FileProgress = Cardinality(B)
    BY DEF CompletedCount, FileProgress, A, B
  <1>8. ranges = <<Bytes(0, Length(payload))>> => A = B
    BY <1>4 DEF A, B
  <1> QED BY <1>5, <1>6, <1>7, <1>8

\* A step that keeps the result keeps what it is worth.
LEMMA EarnedKept ==
    ASSUME OutcomeIsEarned, UNCHANGED <<result, clean, payload, answers>>,
           outcome' \notin {"completed", "invalid_media", "invalid_metadata"} \/ outcome' = outcome
    PROVE  OutcomeIsEarned'
  BY DEF OutcomeIsEarned

\* Nor is anything wrong with a result without frames.
LEMMA NothingEarned ==
    ASSUME result' \in [status : {"none", "failed"}, external : BOOLEAN, frames : {<<>>}],
           outcome' \notin {"completed", "invalid_media", "invalid_metadata"}
    PROVE  OutcomeIsEarned'
  <1>1. result'.frames = <<>> /\ result'.status \notin {"succeeded", "partial"}
    OBVIOUS
  <1>2. Target \in Nat \ {0}
    BY Settings
  <1>3. Len(result'.frames) = 0 /\ DOMAIN result'.frames = {}
    BY <1>1
  <1> QED BY <1>1, <1>2, <1>3 DEF OutcomeIsEarned

\* The invariant holds of a session that starts.
LEMMA InitInv == Init => IInv
  <1> SUFFICES ASSUME Init PROVE IInv
    OBVIOUS
  <1> USE DEF Init, None
  <1>1. TypeOK
    <2>1. clean \in [Anchor -> 0 .. MaxCandidates]
      BY Settings
    <2>2. IsFiniteSet(have)
      BY FS_EmptySet
    <2>3. NoPayload \notin Payloads /\ rung \in 0 .. Len(RetryRanges) /\ Len(answers) <= Resolvers + 1
      BY Settings
    <2>4. result \in [status : {"none", "succeeded", "partial", "failed"}, external : BOOLEAN,
                      frames : Seq(Candidate)]
      BY DEF NoResult
    <2>5. pc \in {"http", "begin"} /\ outcome = "none" /\ ((pc = "done") = (outcome # "none"))
      OBVIOUS
    <2>6. answers \in Seq(Kind) /\ ranges \in Seq([start : Nat, end : Nat \ {0}])
      OBVIOUS
    <2>7. {floor, count, downloaded, checked} \subseteq Nat \cup {None}
      OBVIOUS
    <2>8. missing \subseteq Anchor /\ previous \subseteq Anchor /\ have \subseteq Nat /\ active \in BOOLEAN
      OBVIOUS
    <2>9. payload \in {p \in Payloads : ParseTorrent(p) = "success"} \cup {NoPayload}
      OBVIOUS
    <2>10. floor = None
      OBVIOUS
    <2> HIDE DEF Init
    <2> QED BY <2>1, <2>2, <2>3, <2>4, <2>5, <2>6, <2>7, <2>8, <2>9, <2>10 DEF TypeOK
  <1>2. Sources
    BY Settings DEF Sources
  <1>3. Readable
    <2>1. ranges \in Seq(Within(Length(payload)))
      OBVIOUS
    <2> QED BY <2>1 DEF Readable, Working, NoResult
  <1>4. Counted /\ Planned
    BY DEF Counted, Planned
  <1>5. OutcomeIsEarned
    <2>1. Target \in Nat \ {0}
      BY Settings
    <2>2. result.frames = <<>> /\ result.status = "none" /\ outcome = "none"
      BY DEF NoResult
    <2> QED BY <2>1, <2>2 DEF OutcomeIsEarned
  <1> QED BY <1>1, <1>2, <1>3, <1>4, <1>5 DEF IInv

-----------------------------------------------------------------------------
(***************************************************************************)
(* Metadata.                                                               *)
(***************************************************************************)

\* A source sends a good payload, raises, or fails with a kind of error.
LEMMA AnswerKinds ==
    ASSUME NEW a \in Answers
    PROVE  /\ a.kind = "success" => a.sent \in Payloads /\ ParseTorrent(a.sent) = "success"
           /\ a.kind \notin {"success", "raises"} => a.kind \in Kind
  <1>1. CASE a \in [kind : Kind, sent : {NoPayload}]
    BY <1>1 DEF Kind
  <1>2. CASE \E p \in Payloads : a = [kind |-> ParseTorrent(p), sent |-> p]
    <2>1. PICK p \in Payloads : a = [kind |-> ParseTorrent(p), sent |-> p]
      BY <1>2
    <2>2. ParseTorrent(p) \in {"success", "raises", "transient", "permanent"}
      BY DEF ParseTorrent, Bdecoded
    <2> QED BY <2>1, <2>2 DEF Kind
  <1> QED BY <1>1, <1>2 DEF Answers

\* A source has sent the torrent.
LEMMA Stored ==
    ASSUME IInv, pc \in {"http", "dht"}, NEW sent \in Payloads, ParseTorrent(sent) = "success",
           Store(sent), UNCHANGED <<torrent, progress, ladder, checkpoint, result>>
    PROVE  IInv'
  <1>1. /\ ~active /\ ranges = <<>> /\ result = NoResult /\ outcome = "none"
        /\ payload' = sent /\ answers' = <<>> /\ pc' = "begin" /\ outcome' = "none"
        /\ sent # NoPayload
    BY Settings DEF IInv, Sources, TypeOK, Store
  <1>2. UNCHANGED <<active, have, ranges, count, downloaded, clean, missing, previous, rung,
                    floor, checked, result>>
    BY DEF torrent, progress, ladder, checkpoint
  <1>3. TypeOK'
    <2>1. answers' \in Seq(Kind) /\ Len(answers') <= Resolvers + 1
      BY <1>1, Settings
    <2> QED BY <1>1, <1>2, <2>1 DEF IInv, TypeOK
  <1>4. Sources' /\ Counted' /\ Planned'
    BY <1>1, <1>2 DEF IInv, Sources, Counted, Planned
  <1>5. Readable'
    <2>1. ranges' \in Seq(Within(Length(payload')))
      BY <1>1, <1>2
    <2> QED BY <1>1, <1>2, <2>1 DEF Readable, Working, NoResult
  <1>6. OutcomeIsEarned'
    <2>1. result' \in [status : {"none", "failed"}, external : BOOLEAN, frames : {<<>>}]
      BY <1>1, <1>2 DEF NoResult
    <2> QED BY <1>1, <2>1, NothingEarned
  <1> QED BY <1>3, <1>4, <1>5, <1>6 DEF IInv

\* No source has, yet or at all.
LEMMA NotStored ==
    ASSUME IInv, pc \in {"http", "dht"}, payload' = payload,
           UNCHANGED <<torrent, progress, ladder, checkpoint, result>>,
           answers' \in Seq(Kind), Len(answers') <= Resolvers + 1,
           \/ pc' = "http" /\ outcome' = "none" /\ Len(answers') < Resolvers
           \/ pc' = "dht" /\ outcome' = "none" /\ Len(answers') = Resolvers /\ DhtEnabled
           \/ pc' = "done" /\ outcome' \in {"failure", "metadata_unavailable"}
           \/ /\ pc' = "done" /\ outcome' = "invalid_metadata" /\ Range(answers') = {"permanent"}
              /\ Len(answers') = Resolvers + (IF DhtEnabled THEN 1 ELSE 0)
    PROVE  IInv'
  <1>1. /\ ~active /\ ranges = <<>> /\ result = NoResult /\ payload = NoPayload
    BY DEF IInv, Sources
  <1>2. UNCHANGED <<active, have, ranges, count, downloaded, clean, missing, previous, rung,
                    floor, checked, result, payload>>
    BY DEF torrent, progress, ladder, checkpoint
  <1>3. /\ pc' \in {"http", "dht", "done"} /\ ((pc' = "done") = (outcome' # "none"))
        /\ outcome' \in {"none", "failure", "metadata_unavailable", "invalid_metadata"}
    OBVIOUS
  <1>4. TypeOK'
    BY <1>2, <1>3 DEF IInv, TypeOK
  <1>5. Sources' /\ Counted' /\ Planned'
    BY <1>1, <1>2, <1>3 DEF IInv, Sources, Counted, Planned
  <1>6. Readable'
    <2>1. ranges' \in Seq(Within(Length(payload')))
      BY <1>1, <1>2
    <2> QED BY <1>1, <1>2, <1>3, <2>1 DEF Readable, Working, NoResult
  <1>7. OutcomeIsEarned'
    <2>1. result'.frames = <<>> /\ result'.status = "none" /\ Target \in Nat \ {0}
      BY <1>1, <1>2, Settings DEF NoResult
    <2>2. Len(result'.frames) = 0 /\ DOMAIN result'.frames = {}
      BY <2>1
    <2> QED BY <1>3, <2>1, <2>2 DEF OutcomeIsEarned
  <1> QED BY <1>4, <1>5, <1>6, <1>7 DEF IInv

\* Errors are of one kind if none is transient.
LEMMA Exhausted ==
    ASSUME NEW s \in Seq(Kind), s # <<>>, Combined(Range(s)) = "permanent"
    PROVE  Range(s) = {"permanent"}
  <1>1. 1 \in DOMAIN s /\ \A i \in DOMAIN s : s[i] \in Kind
    OBVIOUS
  <1>2. Range(s) # {} /\ Range(s) \in SUBSET Kind
    BY <1>1 DEF Range
  <1> HIDE DEF Range
  <1>3. "transient" \notin Range(s)
    BY DEF Combined
  <1> QED BY <1>2, <1>3 DEF Kind

\* Each resolver that fails is counted, by its kind of error.
LEMMA AskResolverInv == IInv /\ AskResolver => IInv'
  <1> SUFFICES ASSUME IInv, AskResolver PROVE IInv'
    OBVIOUS
  <1>1. /\ pc = "http" /\ answers \in Seq(Kind) /\ Len(answers) < Resolvers /\ Len(answers) \in Nat
        /\ outcome = "none"
    BY DEF AskResolver, IInv, TypeOK, Sources
  <1>2. UNCHANGED <<torrent, progress, ladder, checkpoint, result>>
    BY DEF AskResolver
  <1>3. PICK a \in Answers :
          CASE a.kind = "success" -> Store(a.sent)
            [] a.kind = "raises" -> Ends("failure") /\ UNCHANGED source
            [] OTHER ->
                 /\ answers' = Append(answers, a.kind) /\ payload' = payload
                 /\ CASE Len(answers') < Resolvers -> UNCHANGED <<pc, outcome>>
                      [] Len(answers') = Resolvers /\ DhtEnabled ->
                           pc' = "dht" /\ outcome' = outcome
                      [] OTHER -> Unresolved(Range(answers'))
    BY DEF AskResolver
  <1>4. CASE a.kind = "success"
    <2>1. Store(a.sent)
      BY <1>3, <1>4
    <2> QED BY <1>1, <1>2, <1>4, <2>1, AnswerKinds, Stored
  <1>5. CASE a.kind = "raises"
    <2>1. Ends("failure") /\ UNCHANGED source
      BY <1>3, <1>5
    <2>2. /\ pc' = "done" /\ outcome' = "failure" /\ payload' = payload /\ answers' = answers
          /\ Len(answers') <= Resolvers + 1
      BY <1>1, <2>1, Settings DEF Ends, source
    <2> QED BY <1>1, <1>2, <2>2, NotStored
  <1>6. CASE a.kind \notin {"success", "raises"}
    <2>1. a.kind \in Kind
      BY <1>6, AnswerKinds
    <2>2. /\ answers' = Append(answers, a.kind) /\ payload' = payload
          /\ CASE Len(answers') < Resolvers -> UNCHANGED <<pc, outcome>>
               [] Len(answers') = Resolvers /\ DhtEnabled -> pc' = "dht" /\ outcome' = outcome
               [] OTHER -> Unresolved(Range(answers'))
      BY <1>3, <1>6
    <2>3. answers' \in Seq(Kind) /\ Len(answers') = Len(answers) + 1 /\ answers' # <<>>
      BY <1>1, <2>1, <2>2
    <2>4. Len(answers') <= Resolvers /\ Len(answers') \in Nat /\ Resolvers \in Nat
      BY <1>1, <2>3, Settings
    <2>5. CASE Len(answers') < Resolvers
      <3>1. pc' = "http" /\ outcome' = "none"
        BY <1>1, <2>2, <2>5
      <3> QED BY <1>1, <1>2, <2>2, <2>3, <2>4, <2>5, <3>1, NotStored
    <2>6. CASE Len(answers') = Resolvers /\ DhtEnabled
      <3>1. pc' = "dht" /\ outcome' = "none"
        BY <1>1, <2>2, <2>4, <2>6
      <3> QED BY <1>1, <1>2, <2>2, <2>3, <2>4, <2>6, <3>1, NotStored
    <2>7. CASE Len(answers') = Resolvers /\ ~DhtEnabled
      <3>1. Unresolved(Range(answers'))
        BY <2>2, <2>4, <2>7
      <3>2. /\ pc' = "done"
            /\ outcome' = IF Combined(Range(answers')) = "permanent" THEN "invalid_metadata"
                          ELSE "metadata_unavailable"
        BY <3>1 DEF Unresolved, Ends
      <3>3. CASE Combined(Range(answers')) = "permanent"
        <4>1. Range(answers') = {"permanent"}
          BY <2>3, <3>3, Exhausted
        <4>2. outcome' = "invalid_metadata"
          BY <3>2, <3>3
        <4>3. Len(answers') = Resolvers + (IF DhtEnabled THEN 1 ELSE 0)
          BY <2>4, <2>7
        <4> QED BY <1>1, <1>2, <2>2, <2>3, <2>4, <3>2, <4>1, <4>2, <4>3, NotStored
      <3>4. CASE Combined(Range(answers')) # "permanent"
        <4>1. outcome' = "metadata_unavailable"
          BY <3>2, <3>4
        <4> QED BY <1>1, <1>2, <2>2, <2>3, <2>4, <3>2, <4>1, NotStored
      <3> QED BY <3>3, <3>4
    <2> QED BY <2>4, <2>5, <2>6, <2>7
  <1> QED BY <1>4, <1>5, <1>6

\* All have answered when the fallback has.
LEMMA AskDhtInv == IInv /\ AskDht => IInv'
  <1> SUFFICES ASSUME IInv, AskDht PROVE IInv'
    OBVIOUS
  <1>1. /\ pc = "dht" /\ answers \in Seq(Kind) /\ Len(answers) = Resolvers /\ Len(answers) \in Nat
        /\ outcome = "none" /\ DhtEnabled
    BY DEF AskDht, IInv, TypeOK, Sources
  <1>2. UNCHANGED <<torrent, progress, ladder, checkpoint, result>>
    BY DEF AskDht
  <1>3. PICK a \in Answers :
          CASE a.kind = "success" -> Store(a.sent)
            [] a.kind = "raises" -> Ends("failure") /\ UNCHANGED source
            [] OTHER -> /\ answers' = Append(answers, a.kind) /\ payload' = payload
                        /\ Unresolved(Range(answers'))
    BY DEF AskDht
  <1>4. CASE a.kind = "success"
    <2>1. Store(a.sent)
      BY <1>3, <1>4
    <2> QED BY <1>1, <1>2, <1>4, <2>1, AnswerKinds, Stored
  <1>5. CASE a.kind = "raises"
    <2>1. Ends("failure") /\ UNCHANGED source
      BY <1>3, <1>5
    <2>2. /\ pc' = "done" /\ outcome' = "failure" /\ payload' = payload /\ answers' = answers
          /\ Len(answers') <= Resolvers + 1
      BY <1>1, <2>1, Settings DEF Ends, source
    <2> QED BY <1>1, <1>2, <2>2, NotStored
  <1>6. CASE a.kind \notin {"success", "raises"}
    <2>1. a.kind \in Kind
      BY <1>6, AnswerKinds
    <2>2. answers' = Append(answers, a.kind) /\ payload' = payload /\ Unresolved(Range(answers'))
      BY <1>3, <1>6
    <2>3. answers' \in Seq(Kind) /\ Len(answers') = Len(answers) + 1 /\ answers' # <<>>
      BY <1>1, <2>1, <2>2
    <2>4. /\ Len(answers') <= Resolvers + 1
          /\ Len(answers') = Resolvers + (IF DhtEnabled THEN 1 ELSE 0)
      BY <1>1, <2>3, Settings
    <2>5. /\ pc' = "done"
          /\ outcome' = IF Combined(Range(answers')) = "permanent" THEN "invalid_metadata"
                        ELSE "metadata_unavailable"
      BY <2>2 DEF Unresolved, Ends
    <2>6. CASE Combined(Range(answers')) = "permanent"
      <3>1. Range(answers') = {"permanent"}
        BY <2>3, <2>6, Exhausted
      <3>2. outcome' = "invalid_metadata"
        BY <2>5, <2>6
      <3> QED BY <1>1, <1>2, <2>2, <2>3, <2>4, <2>5, <3>1, <3>2, NotStored
    <2>7. CASE Combined(Range(answers')) # "permanent"
      <3>1. outcome' = "metadata_unavailable"
        BY <2>5, <2>7
      <3> QED BY <1>1, <1>2, <2>2, <2>3, <2>4, <2>5, <3>1, NotStored
    <2> QED BY <2>6, <2>7
  <1> QED BY <1>4, <1>5, <1>6

-----------------------------------------------------------------------------
(***************************************************************************)
(* An attempt.                                                             *)
(***************************************************************************)

\* A result without frames is one.
LEMMA NoFrames ==
    ASSUME NEW r, NEW s \in {"none", "failed"}, NEW e \in BOOLEAN,
           r = [status |-> s, external |-> e, frames |-> <<>>]
    PROVE  /\ r \in [status : {"none", "failed"}, external : BOOLEAN, frames : {<<>>}]
           /\ r \in [status : {"none", "succeeded", "partial", "failed"}, external : BOOLEAN,
                     frames : Seq(Candidate)]
  <1>1. <<>> \in Seq(Candidate)
    OBVIOUS
  <1> QED BY <1>1

\* A step within an attempt, which makes no result.
LEMMA Continued ==
    ASSUME IInv, pc \in Working, UNCHANGED <<source, checkpoint, have>>, active => active' = TRUE,
           active' \in BOOLEAN, result' = NoResult, pc' \in Working, outcome' = outcome,
           ranges' \in Seq(Within(Length(payload))),
           {count', downloaded'} \subseteq Nat \cup {None}, Counted',
           clean' \in [Anchor -> 0 .. MaxCandidates],
           missing' \subseteq Anchor, previous' \subseteq Anchor, rung' \in 0 .. Len(RetryRanges),
           pc' \in {"retry", "widen", "redecode"} => missing' = Short(clean'),
           Planned'
    PROVE  IInv'
  <1>1. /\ payload' = payload /\ answers' = answers /\ floor' = floor /\ checked' = checked
        /\ have' = have
    BY DEF source, checkpoint
  <1>2. pc # "done" /\ pc' \notin {"http", "dht", "begin", "judge", "done"} /\ outcome' = "none"
    BY DEF Working, IInv, TypeOK
  <1>3. Playable(payload) /\ payload # NoPayload
    BY DEF IInv, Readable, Sources, Working
  <1>4. TypeOK'
    <2>1. ranges' \in Seq([start : Nat, end : Nat \ {0}])
      BY WithinTyped
    <2>2. result' \in [status : {"none", "succeeded", "partial", "failed"}, external : BOOLEAN,
                       frames : Seq(Candidate)]
      BY NoFrames DEF NoResult
    <2>3. /\ pc' \in {"http", "dht", "begin", "download", "decode", "retry", "widen", "redecode",
                      "select", "judge", "done"}
          /\ (pc' = "done") = (outcome' # "none")
      BY <1>2 DEF Working
    <2> QED BY <1>1, <1>2, <2>1, <2>2, <2>3 DEF IInv, TypeOK
  <1>5. Sources'
    BY <1>1, <1>2, <1>3 DEF Sources
  <1>6. Readable'
    BY <1>1, <1>3 DEF Readable
  <1>7. OutcomeIsEarned'
    <2>1. result' \in [status : {"none", "failed"}, external : BOOLEAN, frames : {<<>>}]
      BY NoFrames DEF NoResult
    <2> QED BY <1>2, <2>1, NothingEarned
  <1> QED BY <1>4, <1>5, <1>6, <1>7 DEF IInv

\* A step that ends an attempt without a frame.
LEMMA Failed ==
    ASSUME IInv, pc \in Working, UNCHANGED <<source, checkpoint, have, ranges, ladder>>,
           active => active' = TRUE, active' \in BOOLEAN,
           {count', downloaded'} \subseteq Nat \cup {None}, count' # None => active' /\ count' <= downloaded',
           \/ pc' = "judge" /\ outcome' = outcome
              /\ \E e \in BOOLEAN : result' = [status |-> "failed", external |-> e, frames |-> <<>>]
           \/ pc' = "done" /\ outcome' = "failure" /\ result' = result
    PROVE  IInv'
  <1>1. /\ payload' = payload /\ answers' = answers /\ floor' = floor /\ checked' = checked
        /\ have' = have /\ ranges' = ranges
        /\ clean' = clean /\ missing' = missing /\ previous' = previous /\ rung' = rung
    BY DEF source, checkpoint, ladder
  <1>2. /\ pc # "done" /\ outcome = "none"
        /\ Playable(payload) /\ payload # NoPayload /\ result = NoResult
    BY DEF Working, IInv, TypeOK, Sources, Readable
  <1>3. /\ result' \in [status : {"none", "failed"}, external : BOOLEAN, frames : {<<>>}]
        /\ result' \in [status : {"none", "succeeded", "partial", "failed"}, external : BOOLEAN,
                        frames : Seq(Candidate)]
    <2>1. \E s \in {"none", "failed"}, e \in BOOLEAN :
            result' = [status |-> s, external |-> e, frames |-> <<>>]
      BY <1>2 DEF NoResult
    <2> QED BY <2>1, NoFrames
  <1>4. /\ pc' \in {"judge", "done"} /\ outcome' \in {"none", "failure"}
        /\ (pc' = "done") = (outcome' # "none")
    BY <1>2
  <1>5. TypeOK'
    BY <1>1, <1>3, <1>4 DEF IInv, TypeOK
  <1>6. Sources' /\ Counted' /\ Planned'
    BY <1>1, <1>2, <1>4 DEF Sources, Counted, Planned
  <1>7. Readable'
    <2>1. ranges' \in Seq(Within(Length(payload')))
      BY <1>1, <1>2 DEF IInv, Readable
    <2> QED BY <1>1, <1>2, <1>4, <2>1 DEF Readable, Working
  <1>8. OutcomeIsEarned'
    BY <1>3, <1>4, NothingEarned
  <1> QED BY <1>5, <1>6, <1>7, <1>8 DEF IInv

\* A plan is in the file.
LEMMA WantedIn ==
    ASSUME NEW p, Playable(p)
    PROVE  Wanted(p) \in Seq(Within(Length(p)))
  <1>1. Length(p) \in Nat \ {0}
    BY FileInTorrent
  <1> QED BY <1>1, WholeIn, LayoutPlan DEF Wanted, Plan

\* An attempt that cannot begin keeps the result of the one before, which is empty.
LEMMA BeginInv == IInv /\ Begin => IInv'
  <1> SUFFICES ASSUME IInv, Begin PROVE IInv'
    OBVIOUS
  <1>1. /\ payload' = payload /\ answers' = answers /\ floor' = floor /\ checked' = checked
        /\ have' = have /\ active' = active
        /\ count' = None /\ downloaded' = 0 /\ clean' = [a \in Anchor |-> 0]
        /\ missing' = {} /\ previous' = {} /\ rung' = 0
    BY DEF Begin, source, checkpoint
  <1>2. pc = "begin" /\ outcome = "none" /\ payload # NoPayload /\ payload \in Payloads
    BY DEF Begin, IInv, TypeOK, Sources
  <1>3. /\ clean' \in [Anchor -> 0 .. MaxCandidates] /\ 0 \in 0 .. Len(RetryRanges)
    BY <1>1, Settings
  <1>4. ASSUME NEW c \in {"done", "judge", "download"}, NEW o \in {"none", "failure"},
                   (c = "done") = (o # "none"), pc' = c, outcome' = o,
                   ranges' \in Seq([start : Nat, end : Nat \ {0}]),
                   result' \in [status : {"none", "succeeded", "partial", "failed"},
                                external : BOOLEAN, frames : Seq(Candidate)]
             PROVE  TypeOK' /\ Sources' /\ Counted'
    <2>1. TypeOK'
      BY <1>1, <1>3, <1>4 DEF IInv, TypeOK
    <2>2. Sources' /\ Counted'
      BY <1>1, <1>2, <1>4 DEF Sources, Counted, None
    <2> QED BY <2>1, <2>2
  <1>5. CASE ~Usable(payload)
    <2>1. pc' = "done" /\ outcome' = "failure" /\ result' = result /\ ranges' = ranges
      BY <1>5 DEF Begin, Ends
    <2>2. ~Playable(payload) /\ ~active /\ ranges = <<>> /\ result.frames = <<>>
      BY <1>5 DEF Playable, IInv, Readable
    <2>3. TypeOK' /\ Sources' /\ Counted'
      BY <1>4, <2>1 DEF IInv, TypeOK
    <2>4. Readable' /\ Planned'
      BY <1>1, <2>1, <2>2 DEF Readable, Planned, Working
    <2>5. OutcomeIsEarned'
      <3>1. Target \in Nat \ {0} /\ Len(result.frames) = 0 /\ DOMAIN result.frames = {}
        BY <2>2, Settings
      <3> QED BY <2>1, <3>1 DEF IInv, OutcomeIsEarned
    <2> QED BY <2>3, <2>4, <2>5 DEF IInv
  <1>6. CASE Usable(payload) /\ Videos(payload) = {}
    <2>1. /\ pc' = "judge" /\ outcome' = "none" /\ ranges' = ranges
          /\ result' = [status |-> "failed", external |-> FALSE, frames |-> <<>>]
      BY <1>2, <1>6 DEF Begin, Reports
    <2>2. ~Playable(payload) /\ ~active /\ ranges = <<>>
      BY <1>6 DEF Playable, IInv, Readable
    <2>3. /\ result' \in [status : {"none", "failed"}, external : BOOLEAN, frames : {<<>>}]
          /\ result' \in [status : {"none", "succeeded", "partial", "failed"}, external : BOOLEAN,
                          frames : Seq(Candidate)]
      BY <2>1, NoFrames
    <2>4. TypeOK' /\ Sources' /\ Counted'
      BY <1>4, <2>1, <2>3 DEF IInv, TypeOK
    <2>5. Readable' /\ Planned'
      BY <1>1, <2>1, <2>2 DEF Readable, Planned, Working
    <2>6. OutcomeIsEarned'
      BY <2>1, <2>3, NothingEarned
    <2> QED BY <2>4, <2>5, <2>6 DEF IInv
  <1>7. CASE Usable(payload) /\ Videos(payload) # {}
    <2>1. /\ pc' = "download" /\ outcome' = "none" /\ ranges' = Wanted(payload)
          /\ result' = NoResult
      BY <1>2, <1>7 DEF Begin
    <2>2. Playable(payload)
      BY <1>2, <1>7 DEF Playable
    <2>3. ranges' \in Seq(Within(Length(payload))) /\ ranges' \in Seq([start : Nat, end : Nat \ {0}])
      BY <2>1, <2>2, WantedIn, WithinTyped
    <2>4. /\ result' \in [status : {"none", "failed"}, external : BOOLEAN, frames : {<<>>}]
          /\ result' \in [status : {"none", "succeeded", "partial", "failed"}, external : BOOLEAN,
                          frames : Seq(Candidate)]
      BY <2>1, NoFrames DEF NoResult
    <2>5. TypeOK' /\ Sources' /\ Counted'
      BY <1>4, <2>1, <2>3, <2>4
    <2>6. Readable'
      BY <1>1, <2>1, <2>2, <2>3 DEF Readable
    <2>7. Planned'
      BY <1>1, <2>1 DEF Planned, Wanted, IInv, TypeOK
    <2>8. OutcomeIsEarned'
      BY <2>1, <2>4, NothingEarned
    <2> QED BY <2>5, <2>6, <2>7, <2>8 DEF IInv
  <1> QED BY <1>5, <1>6, <1>7

\* Stopping keeps everything.
LEMMA WorkerStopsInv == IInv /\ WorkerStops => IInv'
  <1> SUFFICES ASSUME IInv, WorkerStops PROVE IInv'
    OBVIOUS
  <1>1. /\ UNCHANGED <<answers, payload, active, have, ranges, floor, count, downloaded, clean,
                       missing, previous, rung, result, checked>>
        /\ pc = "begin" /\ pc' = "done" /\ outcome' = "worker_stopped"
    BY DEF WorkerStops, Ends, source, torrent, progress, ladder, checkpoint
  <1>2. TypeOK' /\ Sources' /\ Counted' /\ Planned'
    BY <1>1 DEF IInv, TypeOK, Sources, Counted, Planned
  <1>3. Readable'
    BY <1>1 DEF IInv, Readable, Working
  <1>4. OutcomeIsEarned'
    BY <1>1, EarnedKept DEF IInv
  <1> QED BY <1>2, <1>3, <1>4 DEF IInv

\* A piece asked for is a piece.
LEMMA PieceArrivesInv == IInv /\ PieceArrives => IInv'
  <1> SUFFICES ASSUME IInv, PieceArrives PROVE IInv'
    OBVIOUS
  <1>1. /\ UNCHANGED <<pc, answers, payload, active, ranges, floor, count, downloaded, clean,
                       missing, previous, rung, result, outcome, checked>>
        /\ pc = "download" \/ active
    BY DEF PieceArrives, source, progress, ladder, checkpoint
  <1>2. PICK x \in Requested(payload, ranges) : have' = have \cup {x}
    BY DEF PieceArrives
  <1>3. Playable(payload) /\ ranges \in Seq(Within(Length(payload)))
    BY <1>1 DEF IInv, Readable, Working
  <1>4. x \in Nat
    BY <1>3, RequestedIn
  <1>5. have' \subseteq Nat /\ IsFiniteSet(have')
    BY <1>2, <1>4, FS_AddElement DEF IInv, TypeOK
  <1>6. TypeOK'
    BY <1>1, <1>5 DEF IInv, TypeOK
  <1>7. Sources' /\ Counted' /\ Planned'
    BY <1>1 DEF IInv, Sources, Counted, Planned
  <1>8. Readable'
    BY <1>1 DEF IInv, Readable, Working
  <1>9. OutcomeIsEarned'
    BY <1>1, EarnedKept DEF IInv
  <1> QED BY <1>6, <1>7, <1>8, <1>9 DEF IInv

\* The counts of an attempt that goes on are of one moment.
LEMMA DownloadEndsInv == IInv /\ DownloadEnds => IInv'
  <1> SUFFICES ASSUME IInv, DownloadEnds PROVE IInv'
    OBVIOUS
  <1>1. /\ pc = "download" /\ pc' = "decode" /\ active' = TRUE
        /\ count' = CompletedCount /\ downloaded' = FileProgress
        /\ UNCHANGED <<source, checkpoint, have, ranges, clean, missing, previous, rung, result, outcome>>
    BY DEF DownloadEnds, Looks, ladder
  <1>2. pc \in Working /\ pc' \in Working
    BY <1>1 DEF Working
  <1>3. result = NoResult /\ Playable(payload) /\ ranges \in Seq(Within(Length(payload)))
    BY <1>2 DEF IInv, Readable
  <1>4. CompletedCount \in Nat /\ FileProgress \in Nat /\ CompletedCount <= FileProgress
    BY <1>3, Looking DEF IInv
  <1>5. Counted' /\ Planned'
    BY <1>1, <1>4 DEF Counted, Planned
  <1>6. /\ clean' \in [Anchor -> 0 .. MaxCandidates]
        /\ missing' \subseteq Anchor /\ previous' \subseteq Anchor /\ rung' \in 0 .. Len(RetryRanges)
    BY <1>1 DEF IInv, TypeOK
  <1> HIDE DEF IInv
  <1> QED BY <1>1, <1>2, <1>3, <1>4, <1>5, <1>6, Continued

\* And of one that ends for want of news.
LEMMA WaitsInv == IInv /\ Waits => IInv'
  <1> SUFFICES ASSUME IInv, Waits PROVE IInv'
    OBVIOUS
  <1>1. /\ pc = "download" /\ pc' = "done" /\ outcome' = "failure" /\ active' = TRUE
        /\ count' = CompletedCount /\ downloaded' = FileProgress
        /\ UNCHANGED <<source, checkpoint, have, ranges, ladder, result>>
    BY DEF Waits, Looks, Ends
  <1>2. pc \in Working
    BY <1>1 DEF Working
  <1>3. CompletedCount \in Nat /\ FileProgress \in Nat /\ CompletedCount <= FileProgress
    BY <1>2, Looking DEF IInv, Readable
  <1> QED BY <1>1, <1>2, <1>3, Failed

\* Whichever way a download fails.
LEMMA DownloadRaisesInv == IInv /\ DownloadRaises => IInv'
  <1> SUFFICES ASSUME IInv, DownloadRaises PROVE IInv'
    OBVIOUS
  <1>1. /\ pc = "download" /\ pc' = "judge" /\ outcome' = outcome
        /\ result' = [status |-> "failed", external |-> FALSE, frames |-> <<>>]
        /\ UNCHANGED <<source, checkpoint, have, ranges, ladder>>
    BY DEF DownloadRaises, Reports
  <1>2. pc \in Working
    BY <1>1 DEF Working
  <1>3. CompletedCount \in Nat /\ FileProgress \in Nat /\ CompletedCount <= FileProgress
    BY <1>2, Looking DEF IInv, Readable
  <1>4. /\ active \in BOOLEAN /\ {count, downloaded} \subseteq Nat \cup {None}
        /\ count # None => active /\ count <= downloaded
    BY DEF IInv, TypeOK, Counted
  <1>5. \/ active' = active /\ count' = count /\ downloaded' = downloaded
        \/ active' = TRUE /\ count' = count /\ downloaded' = downloaded
        \/ active' = TRUE /\ count' = CompletedCount /\ downloaded' = FileProgress
    BY DEF DownloadRaises, progress, Looks
  <1>6. /\ active => active' = TRUE
        /\ active' \in BOOLEAN /\ {count', downloaded'} \subseteq Nat \cup {None}
        /\ count' # None => active' /\ count' <= downloaded'
    BY <1>3, <1>4, <1>5
  <1> QED BY <1>1, <1>2, <1>6, Failed

\* What an attempt that goes on has.
LEMMA InAttempt ==
    ASSUME IInv, pc \in Working
    PROVE  /\ result = NoResult /\ Playable(payload) /\ ranges \in Seq(Within(Length(payload)))
           /\ active \in BOOLEAN /\ {count, downloaded} \subseteq Nat \cup {None}
           /\ count # None => active /\ count <= downloaded
           /\ clean \in [Anchor -> 0 .. MaxCandidates]
           /\ missing \subseteq Anchor /\ previous \subseteq Anchor /\ rung \in 0 .. Len(RetryRanges)
           /\ pc \in {"retry", "widen", "redecode"} => missing = Short(clean)
           /\ pc \in {"decode", "retry", "widen", "redecode"} => active
  BY DEF IInv, TypeOK, Readable, Counted

\* The anchors missing are those short of candidates,
LEMMA DecodeInv == IInv /\ Decode => IInv'
  <1> SUFFICES ASSUME IInv, Decode PROVE IInv'
    OBVIOUS
  <1>1. /\ pc = "decode" /\ pc' = "retry" /\ missing' = Short(clean')
        /\ UNCHANGED <<source, checkpoint, active, have, ranges, count, downloaded, previous, rung,
                       result, outcome>>
    BY DEF Decode, torrent, progress
  <1>2. pc \in Working /\ pc' \in Working
    BY <1>1 DEF Working
  <1>3. PICK e \in Extracted(Anchor) : \E s \in Scored(e) : clean' = WithFrames(clean, s)
    BY DEF Decode
  <1>4. PICK s \in Scored(e) : clean' = WithFrames(clean, s)
    BY <1>3
  <1>5. s \in [Anchor -> Sought]
    BY <1>4 DEF Scored
  <1>6. clean' \in [Anchor -> 0 .. MaxCandidates]
    BY <1>2, <1>4, <1>5, CountsGrow, InAttempt
  <1>7. missing' \subseteq Anchor
    BY <1>1 DEF Short
  <1>8. Counted' /\ Planned'
    BY <1>1, <1>2, InAttempt DEF Counted, Planned
  <1> QED BY <1>1, <1>2, <1>6, <1>7, <1>8, InAttempt, Continued

\* A failed decoding reports no frame.
LEMMA DecodeFailsInv == IInv /\ DecodeFails => IInv'
  <1> SUFFICES ASSUME IInv, DecodeFails PROVE IInv'
    OBVIOUS
  <1>1. /\ pc \in {"decode", "redecode"} /\ pc' = "judge" /\ outcome' = outcome
        /\ UNCHANGED <<source, checkpoint, active, have, ranges, count, downloaded, ladder>>
    BY DEF DecodeFails, Reports, torrent, progress
  <1>2. \E e \in BOOLEAN : result' = [status |-> "failed", external |-> e, frames |-> <<>>]
    BY DEF DecodeFails, Reports
  <1>3. pc \in Working
    BY <1>1 DEF Working
  <1> QED BY <1>1, <1>2, <1>3, InAttempt, Failed

\* The next range of the ladder is in the file.
LEMMA WidenInv == IInv /\ Widen => IInv'
  <1> SUFFICES ASSUME IInv, Widen PROVE IInv'
    OBVIOUS
  <1>1. /\ pc = "retry" /\ pc' = "widen" /\ rung < Len(RetryRanges) /\ rung' = rung + 1
        /\ ranges' = AnchorLayout(Length(payload), RetryRanges[rung + 1], missing)
        /\ UNCHANGED <<source, checkpoint, active, have, count, downloaded, clean, missing,
                       previous, result, outcome>>
        /\ payload' = payload
    BY DEF Widen, progress, source
  <1>2. pc \in Working /\ pc' \in Working
    BY <1>1 DEF Working
  <1>3. /\ rung \in Nat /\ rung' \in 1 .. Len(RetryRanges) /\ rung' \in 0 .. Len(RetryRanges)
        /\ RetryRanges[rung'] \in Nat
    BY <1>1, <1>2, InAttempt, Settings
  <1>4. ranges' \in Seq(Within(Length(payload)))
    <2>1. Length(payload) \in Nat \ {0} /\ missing \in SUBSET Anchor
      BY <1>2, InAttempt, FileInTorrent
    <2> QED BY <1>1, <1>3, <2>1, AnchorPlan DEF Plan
  <1>5. Counted' /\ Planned'
    BY <1>1, <1>2, <1>3, InAttempt DEF Counted, Planned
  <1>6. pc' \in {"retry", "widen", "redecode"} => missing' = Short(clean')
    BY <1>1, <1>2, InAttempt
  <1> QED BY <1>1, <1>2, <1>3, <1>4, <1>5, <1>6, InAttempt, Continued

\* The handle is there since the download.
LEMMA WidenEndsInv == IInv /\ WidenEnds => IInv'
  <1> SUFFICES ASSUME IInv, WidenEnds PROVE IInv'
    OBVIOUS
  <1>1. /\ pc = "widen" /\ pc' \in {"retry", "redecode"}
        /\ count' = CompletedCount /\ downloaded' = FileProgress
        /\ UNCHANGED <<source, checkpoint, active, have, ranges, clean, missing, previous, rung,
                       result, outcome>>
    BY DEF WidenEnds, Looks, torrent, ladder
  <1>2. pc \in Working /\ pc' \in Working
    BY <1>1 DEF Working
  <1>3. CompletedCount \in Nat /\ FileProgress \in Nat /\ CompletedCount <= FileProgress
    BY <1>2, Looking DEF IInv, Readable
  <1>4. Counted' /\ Planned'
    BY <1>1, <1>2, <1>3, InAttempt DEF Counted, Planned
  <1> QED BY <1>1, <1>2, <1>3, <1>4, InAttempt, Continued

\* and stay so although only those missing before are looked at: counts only grow.
LEMMA RedecodeInv == IInv /\ Redecode => IInv'
  <1> SUFFICES ASSUME IInv, Redecode PROVE IInv'
    OBVIOUS
  <1>1. /\ pc = "redecode" /\ pc' = "retry"
        /\ missing' = StillMissing(clean', missing) /\ previous' = missing
        /\ UNCHANGED <<source, checkpoint, active, have, ranges, count, downloaded, rung,
                       result, outcome>>
    BY DEF Redecode, torrent, progress
  <1>2. pc \in Working /\ pc' \in Working
    BY <1>1 DEF Working
  <1>3. PICK e \in Extracted(missing) : \E s \in Scored(e) : clean' = WithFrames(clean, s)
    BY DEF Redecode
  <1>4. PICK s \in Scored(e) : clean' = WithFrames(clean, s)
    BY <1>3
  <1>5. s \in [Anchor -> Sought]
    BY <1>4 DEF Scored
  <1>6. /\ clean' \in [Anchor -> 0 .. MaxCandidates]
        /\ \A a \in Anchor : clean'[a] >= clean[a]
    BY <1>2, <1>4, <1>5, CountsGrow, InAttempt
  <1>7. missing' = Short(clean')
    <2>1. missing = Short(clean) /\ clean \in [Anchor -> 0 .. MaxCandidates] /\ MinCandidates \in Nat
      BY <1>1, <1>2, InAttempt, Settings
    <2>2. \A a \in Anchor : clean'[a] \in Nat /\ clean[a] \in Nat
      BY <1>6, <2>1, Settings
    <2> QED BY <1>1, <1>6, <2>1, <2>2 DEF Short, StillMissing
  <1>8. missing' \subseteq Anchor /\ previous' \subseteq Anchor
    BY <1>1, <1>2, <1>7, InAttempt DEF Short
  <1>9. Counted' /\ Planned'
    BY <1>1, <1>2, InAttempt DEF Counted, Planned
  <1> QED BY <1>1, <1>2, <1>6, <1>7, <1>8, <1>9, InAttempt, Continued

\* The ladder leaves everything as it is.
LEMMA LadderEndsInv == IInv /\ LadderEnds => IInv'
  <1> SUFFICES ASSUME IInv, LadderEnds PROVE IInv'
    OBVIOUS
  <1>1. /\ pc \in {"retry", "widen", "redecode"} /\ pc' = "select"
        /\ UNCHANGED <<source, checkpoint, active, have, ranges, count, downloaded, clean, missing,
                       previous, rung, result, outcome>>
    BY DEF LadderEnds, torrent, progress, ladder
  <1>2. pc \in Working /\ pc' \in Working
    BY <1>1 DEF Working
  <1>3. Counted' /\ Planned'
    BY <1>1, <1>2, InAttempt DEF Counted, Planned
  <1> QED BY <1>1, <1>2, <1>3, InAttempt, Continued

\* Frames are of the candidates of this attempt, and clean does not change until the next.
LEMMA SelectInv == IInv /\ Select => IInv'
  <1> SUFFICES ASSUME IInv, Select PROVE IInv'
    OBVIOUS
  <1>1. /\ pc = "select" /\ pc' = "judge" /\ outcome' = outcome
        /\ UNCHANGED <<answers, payload, active, have, ranges, count, downloaded, clean, missing,
                       previous, rung, floor, checked>>
    BY DEF Select, Reports, source, torrent, progress, ladder, checkpoint
  <1>2. pc \in Working
    BY <1>1 DEF Working
  <1>3. PICK frames \in IF Eligible(clean) = Anchor THEN ChosenByModel(clean) ELSE {LocalPartial(clean)} :
          result' = [status |-> Status(frames), external |-> FALSE, frames |-> frames]
    BY DEF Select, Reports
  <1>4. PICK cs \in SUBSET Pool(clean) : OnePerAnchor(cs) /\ frames = InOrder(cs)
    BY <1>2, <1>3, InAttempt, LocalFrames, ModelFrames
  <1>5. cs \in SUBSET Candidate
    BY DEF Pool
  <1>6. /\ frames \in Seq(Candidate) /\ \A i \in DOMAIN frames : frames[i] \in cs
        /\ \A i \in 2 .. Len(frames) : frames[i - 1][1] < frames[i][1]
        /\ Status(frames) \in {"succeeded", "partial", "failed"}
        /\ (Status(frames) = "succeeded") = (Len(frames) = Target)
        /\ (Status(frames) = "partial") = (Len(frames) \in 1 .. Target - 1)
    BY <1>4, <1>5, FramesInOrder
  <1>7. result'.status = Status(frames) /\ result'.frames = frames
    BY <1>3
  <1>8. outcome = "none" /\ Playable(payload) /\ payload # NoPayload
    BY <1>1, <1>2, InAttempt DEF IInv, TypeOK, Sources
  <1>9. TypeOK'
    <2>1. result' \in [status : {"none", "succeeded", "partial", "failed"}, external : BOOLEAN,
                       frames : Seq(Candidate)]
      BY <1>3, <1>6
    <2> QED BY <1>1, <1>8, <2>1 DEF IInv, TypeOK
  <1>10. Sources' /\ Counted' /\ Planned'
    BY <1>1, <1>8 DEF IInv, Sources, Counted, Planned
  <1>11. Readable'
    BY <1>1, <1>2, <1>8 DEF IInv, Readable, Working
  <1>12. OutcomeIsEarned'
    <2>1. \A i \in DOMAIN frames : frames[i] \in Pool(clean)
      BY <1>4, <1>6
    <2> HIDE DEF Pool, Status
    <2> QED BY <1>1, <1>6, <1>7, <1>8, <2>1 DEF OutcomeIsEarned
  <1> QED BY <1>9, <1>10, <1>11, <1>12 DEF IInv

\* A model that fails reports no frame.
LEMMA SelectionFailsInv == IInv /\ SelectionFails => IInv'
  <1> SUFFICES ASSUME IInv, SelectionFails PROVE IInv'
    OBVIOUS
  <1>1. /\ pc = "select" /\ pc' = "judge" /\ outcome' = outcome
        /\ UNCHANGED <<source, checkpoint, active, have, ranges, count, downloaded, ladder>>
        /\ \E e \in BOOLEAN : result' = [status |-> "failed", external |-> e, frames |-> <<>>]
    BY DEF SelectionFails, Reports, torrent, progress
  <1>2. pc \in Working
    BY <1>1 DEF Working
  <1> QED BY <1>1, <1>2, InAttempt, Failed

\* An error keeps the result.
LEMMA BreaksInv == IInv /\ Breaks => IInv'
  <1> SUFFICES ASSUME IInv, Breaks PROVE IInv'
    OBVIOUS
  <1>1. /\ UNCHANGED <<answers, payload, active, have, ranges, floor, count, downloaded, clean,
                       missing, previous, rung, result, checked>>
        /\ pc \in {"select", "judge"} /\ pc' = "done" /\ outcome' = "failure"
    BY DEF Breaks, Ends, source, torrent, progress, ladder, checkpoint
  <1>2. TypeOK' /\ Sources' /\ Counted' /\ Planned'
    BY <1>1 DEF IInv, TypeOK, Sources, Counted, Planned
  <1>3. Readable'
    BY <1>1 DEF IInv, Readable, Working
  <1>4. OutcomeIsEarned'
    BY <1>1, EarnedKept DEF IInv
  <1> QED BY <1>2, <1>3, <1>4 DEF IInv

\* The checkpoint is of a torrent libtorrent has, and the outcome as good as the result.
LEMMA JudgeInv == IInv /\ Judge => IInv'
  <1> SUFFICES ASSUME IInv, Judge PROVE IInv'
    OBVIOUS
  <1>1. /\ UNCHANGED <<answers, payload, active, have, ranges, count, downloaded, clean,
                       missing, previous, rung, result>>
        /\ pc = "judge" /\ floor' = count
        /\ checked' = (IF count = None THEN None ELSE downloaded)
    BY DEF Judge, source, torrent, progress, ladder
  <1>2. \/ pc' = "done" /\ outcome' = "completed" /\ result.status = "succeeded"
        \/ pc' = "done" /\ outcome' = "invalid_media" /\ Videos(payload) = {}
        \/ pc' = "done" /\ outcome' \in {"failure", "yielded"}
        \/ pc' = "begin" /\ outcome' = "none"
    BY DEF Judge, Ends, IInv, TypeOK
  <1>3. payload # NoPayload
    BY <1>1 DEF IInv, Sources
  <1>4. TypeOK'
    <2>1. pc' \in {"done", "begin"} /\ ((pc' = "done") = (outcome' # "none"))
          /\ outcome' \in {"none", "completed", "invalid_media", "failure", "yielded"}
      BY <1>2
    <2>2. /\ {floor', checked'} \subseteq Nat \cup {None}
          /\ floor' # None => active' /\ floor' <= checked'
      BY <1>1 DEF IInv, TypeOK, Counted
    <2> QED BY <1>1, <2>1, <2>2 DEF IInv, TypeOK
  <1>5. Sources' /\ Counted' /\ Planned'
    BY <1>1, <1>2, <1>3 DEF IInv, Sources, Counted, Planned
  <1>6. Readable'
    BY <1>1, <1>2 DEF IInv, Readable, Working
  <1>7. OutcomeIsEarned'
    BY <1>1, <1>2 DEF IInv, OutcomeIsEarned
  <1> QED BY <1>4, <1>5, <1>6, <1>7 DEF IInv

\* So does none.
LEMMA StutterInv == IInv /\ UNCHANGED vars => IInv'
  <1> SUFFICES ASSUME IInv, UNCHANGED vars PROVE IInv'
    OBVIOUS
  <1>1. UNCHANGED <<pc, answers, payload, active, have, ranges, floor, count, downloaded, clean,
                    missing, previous, rung, result, outcome, checked>>
    BY DEF vars
  <1>2. TypeOK' /\ Sources' /\ Counted' /\ Planned'
    BY <1>1 DEF IInv, TypeOK, Sources, Counted, Planned
  <1>3. Readable'
    BY <1>1 DEF IInv, Readable, Working
  <1>4. OutcomeIsEarned'
    BY <1>1, EarnedKept DEF IInv
  <1> QED BY <1>2, <1>3, <1>4 DEF IInv

\* Every step keeps the invariant.
LEMMA NextInv == IInv /\ [Next]_vars => IInv'
  BY AskResolverInv, AskDhtInv, BeginInv, WorkerStopsInv, PieceArrivesInv, DownloadEndsInv,
     WaitsInv, DownloadRaisesInv, DecodeInv, DecodeFailsInv, WidenInv, WidenEndsInv, RedecodeInv,
     LadderEndsInv, SelectInv, SelectionFailsInv, BreaksInv, JudgeInv, StutterInv DEF Next

\* The inductive invariant holds in every session.
THEOREM Invariant == Spec => []IInv
  BY InitInv, NextInv, PTL DEF Spec

\* The checkpoint of a session is never ahead of what it has, nor are anchors missing that
\* are not short of candidates.
THEOREM TypeCorrect == Spec => []TypeOK
  <1>1. IInv => TypeOK
    BY DEF IInv
  <1> QED BY <1>1, Invariant, PTL

\* Every result is of its own attempt, one frame of an anchor, with the status its number
\* says, whatever the model answered; every outcome is earned (_judge, selector.py).
THEOREM OutcomeEarned == Spec => []OutcomeIsEarned
  <1>1. IInv => OutcomeIsEarned
    BY DEF IInv
  <1> QED BY <1>1, Invariant, PTL

-----------------------------------------------------------------------------
(***************************************************************************)
(* Plans, and waiting.                                                     *)
(***************************************************************************)

\* What any plan in the file gives.
LEMMA PlanSound ==
    ASSUME NEW p, Playable(p), NEW m, Plan(m, Length(p))
    PROVE  /\ \A i \in 2 .. Len(m) : m[i - 1].end < m[i].start
           /\ Requested(p, m) \subseteq FilePieces(p)
           /\ IsInjective(DeadlineOrder(p, m)) /\ Range(DeadlineOrder(p, m)) = Requested(p, m)
  BY RequestedIn, DeadlinesArrange DEF Plan, Apart, Arranges

\* Its pieces have the bytes it covers.
LEMMA CoveredByte ==
    ASSUME NEW p, Playable(p), NEW m \in Seq(Within(Length(p))), NEW b \in Nat, b < Length(p),
           Covers(m, Bytes(b, b + 1))
    PROVE  PieceOf(p, b) \in Requested(p, m)
  BY ByteInPieces, RequestedIn

\* The whole file covers all of itself.
LEMMA WholePlan ==
    ASSUME NEW size \in Nat \ {0}
    PROVE  /\ Plan(<<Bytes(0, size)>>, size)
           /\ \A b \in Nat : b < size => Covers(<<Bytes(0, size)>>, Bytes(b, b + 1))
  <1> DEFINE m == <<Bytes(0, size)>>
  <1>1. Len(m) = 1 /\ DOMAIN m = {1} /\ m[1] = [start |-> 0, end |-> size]
    BY DEF Bytes
  <1>2. Plan(m, size)
    BY <1>1, WholeIn DEF Plan, Apart
  <1>3. \A b \in Nat : b < size => Covers(m, Bytes(b, b + 1))
    BY <1>1 DEF Covers, Bytes
  <1> QED BY <1>2, <1>3

\* Either first plan has the ends and the middles.
LEMMA DownloadPlan ==
    ASSUME NEW size \in Nat \ {0}, NEW m, m = <<Bytes(0, size)>> \/ m = Layout(size)
    PROVE  /\ Plan(m, size)
           /\ \A b \in {0, size - 1} \cup {Center(size, a) : a \in Anchor} :
                b \in Nat /\ b < size /\ Covers(m, Bytes(b, b + 1))
  <1>1. \A b \in {0, size - 1} \cup {Center(size, a) : a \in Anchor} : b \in Nat /\ b < size
    BY CenterIn
  <1>2. CASE m = <<Bytes(0, size)>>
    BY <1>1, <1>2, WholePlan
  <1>3. CASE m = Layout(size)
    <2>1. /\ Covers(m, Bytes(0, 0 + 1)) /\ Covers(m, Bytes(size - 1, (size - 1) + 1))
          /\ \A a \in Anchor : Covers(m, Bytes(Center(size, a), Center(size, a) + 1))
      <3>1. 0 + 1 = 1 /\ (size - 1) + 1 = size
        OBVIOUS
      <3> QED BY <1>3, <3>1, LayoutPlan
    <2>2. Plan(m, size)
      BY <1>3, LayoutPlan
    <2> QED BY <1>1, <2>1, <2>2
  <1> QED BY <1>2, <1>3

\* The plans are those of Planned, so they cover what they must.
LEMMA PlansCover == IInv => PlanCovers
  <1> SUFFICES ASSUME IInv, pc \in {"download", "widen"} PROVE PlanCovers
    BY DEF PlanCovers
  <1> DEFINE size == Length(payload)
             want == Requested(payload, ranges)
  <1>1. pc \in Working
    BY DEF Working
  <1>2. Playable(payload) /\ size \in Nat \ {0} /\ ranges \in Seq(Within(size))
    BY <1>1, InAttempt, FileInTorrent
  <1>3. CASE pc = "download"
    <2>1. ranges = <<Bytes(0, size)>> \/ ranges = Layout(size)
      BY <1>3 DEF IInv, Planned
    <2> DEFINE bytes == {0, size - 1} \cup {Center(size, a) : a \in Anchor}
    <2>2. /\ Plan(ranges, size)
          /\ \A b \in bytes : b \in Nat /\ b < size /\ Covers(ranges, Bytes(b, b + 1))
      <3> HIDE DEF size
      <3> QED BY <1>2, <2>1, DownloadPlan
    <2>3. \A b \in bytes : PieceOf(payload, b) \in want
      <3> HIDE DEF bytes
      <3> QED BY <1>2, <2>2, CoveredByte
    <2>4. Pieces(bytes) \subseteq want
      <3> HIDE DEF bytes, want
      <3> QED BY <2>3 DEF Pieces
    <2>5. /\ \A i \in 2 .. Len(ranges) : ranges[i - 1].end < ranges[i].start
          /\ want \subseteq FilePieces(payload)
          /\ IsInjective(DeadlineOrder(payload, ranges))
          /\ Range(DeadlineOrder(payload, ranges)) = want
      BY <1>2, <2>2, PlanSound
    <2> HIDE DEF IInv
    <2> QED BY <1>3, <2>4, <2>5 DEF PlanCovers
  <1>4. CASE pc = "widen"
    <2> DEFINE before == IF rung = 1 THEN AnchorRange ELSE RetryRanges[rung - 1]
    <2>1. /\ rung \in 1 .. Len(RetryRanges) /\ missing \in SUBSET Anchor
          /\ ranges = AnchorLayout(size, RetryRanges[rung], missing)
      BY <1>1, <1>4, InAttempt DEF IInv, Planned
    <2>2. before \in Nat /\ RetryRanges[rung] \in Nat /\ before <= RetryRanges[rung]
      <3>1. rung \in DOMAIN RetryRanges /\ RetryRanges[rung] \in Nat /\ RetryRanges[rung] > before
        BY <2>1, Settings
      <3>2. before \in Nat
        <4>1. CASE rung = 1
          BY <4>1, Settings
        <4>2. CASE rung # 1
          <5>1. rung - 1 \in DOMAIN RetryRanges
            BY <2>1, <4>2, Settings
          <5> QED BY <4>2, <5>1, Settings
        <4> QED BY <4>1, <4>2
      <3> HIDE DEF before
      <3> QED BY <3>1, <3>2
    <2>3. /\ Plan(ranges, size)
          /\ \A w \in Windows(size, AtMost(size, before), missing) :
                w \in Within(size) /\ Covers(ranges, w)
      <3> HIDE DEF size, before
      <3> QED BY <1>2, <2>1, <2>2, AnchorPlan
    <2>4. \A w \in Windows(size, AtMost(size, before), missing) : PiecesOf(payload, w) \subseteq want
      BY <1>2, <2>3, RequestedIn
    <2>5. Around(before, missing) \subseteq want
      <3> HIDE DEF before, want
      <3> QED BY <2>4 DEF Around
    <2>6. /\ \A i \in 2 .. Len(ranges) : ranges[i - 1].end < ranges[i].start
          /\ want \subseteq FilePieces(payload)
          /\ IsInjective(DeadlineOrder(payload, ranges))
          /\ Range(DeadlineOrder(payload, ranges)) = want
      BY <1>2, <2>3, PlanSound
    <2> QED BY <1>4, <2>5, <2>6 DEF PlanCovers
  <1> QED BY <1>3, <1>4

\* Whatever the sizes of files, pieces and ranges, a download asks for enough, each piece
\* once and in an order of deadlines (layout.py, client.py).
THEOREM DownloadsSuffice == Spec => []PlanCovers
  BY Invariant, PlansCover, PTL

\* A checkpoint makes the session ask for the whole file, so its counts are of the same pieces.
LEMMA WaitHasNoNews ==
    ASSUME IInv, Waits
    PROVE  FileProgress <= checked
  <1>1. pc = "download" /\ pc \in Working /\ ~Reached(floor)
    BY DEF Waits, Working
  <1>2. floor \in Nat /\ checked \in Nat /\ floor <= checked
    BY <1>1 DEF Reached, IInv, TypeOK, None
  <1>3. ranges = <<Bytes(0, Length(payload))>>
    BY <1>1, <1>2 DEF IInv, Planned, None
  <1>4. CompletedCount \in Nat /\ CompletedCount = FileProgress
    BY <1>1, <1>3, Looking, InAttempt DEF IInv
  <1>5. ~(CompletedCount > floor)
    BY <1>1 DEF Reached
  <1> HIDE DEF CompletedCount, FileProgress
  <1> QED BY <1>2, <1>4, <1>5

\* No other step fails a session in its download.
LEMMA OnlyWaitFails ==
    ASSUME IInv, [Next]_vars, pc = "download", outcome' = "failure"
    PROVE  Waits
  <1>1. outcome = "none"
    BY DEF IInv, TypeOK
  <1>2. ~UNCHANGED vars
    BY <1>1 DEF vars
  <1>3. /\ ~AskResolver /\ ~AskDht /\ ~Begin /\ ~WorkerStops
        /\ ~Decode /\ ~DecodeFails /\ ~Widen /\ ~WidenEnds /\ ~Redecode /\ ~LadderEnds
        /\ ~Select /\ ~SelectionFails /\ ~Breaks /\ ~Judge
    BY DEF AskResolver, AskDht, Begin, WorkerStops, Decode, DecodeFails, Widen, WidenEnds,
           Redecode, LadderEnds, Select, SelectionFails, Breaks, Judge
  <1>4. ~PieceArrives /\ ~DownloadEnds /\ ~DownloadRaises
    BY <1>1 DEF PieceArrives, DownloadEnds, DownloadRaises, Reports
  <1> QED BY <1>2, <1>3, <1>4 DEF Next

\* A session is failed for waiting only when nothing of the file has come since its checkpoint.
THEOREM WaitsAreFruitless == Spec => WaitingHasNoNews
  <1>1. IInv /\ [Next]_vars => [pc = "download" /\ outcome' = "failure" => FileProgress <= checked]_vars
    BY OnlyWaitFails, WaitHasNoNews
  <1> QED BY <1>1, Invariant, PTL DEF Spec, WaitingHasNoNews
===============================================================================
