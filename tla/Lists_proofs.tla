------------------------------ MODULE Lists_proofs ------------------------------
(***************************************************************************)
(* What the proofs of the other modules keep needing: least elements,      *)
(* folds over finite sets and along sequences, thinned and flattened       *)
(* sequences, finite sets in some order.                                   *)
(***************************************************************************)
EXTENDS Lists, FiniteSetTheorems, NaturalsInduction, WellFoundedInduction, TLAPS

\* A set of numbers has a least element.
LEMMA LeastNatural ==
    ASSUME NEW T \in SUBSET Nat, T # {}
    PROVE  \E n \in T : \A m \in T : n <= m
<1>. DEFINE Less == {ss \in Nat \X Nat : ss[1] < ss[2]}
<1>1. IsWellFoundedOn(Less, Nat)
  BY NatLessThanWellFounded DEF OpToRel
<1>. HIDE DEF Less
<1>2. PICK n \in T : \A m \in T : <<m, n>> \notin Less
  BY <1>1, WFMin
<1>3. \A m \in T : <<m, n>> \notin Less => n <= m
  BY DEF Less
<1>. QED  BY <1>2, <1>3

\* Counting up to N, one at a time.
LEMMA ByCounting ==
    ASSUME NEW N \in Nat, NEW T, 0 \in T,
           \A n \in 0..N : n > 0 /\ n - 1 \in T => n \in T
    PROVE  0..N \subseteq T
<1>. SUFFICES ASSUME 0..N \ T # {} PROVE FALSE
  OBVIOUS
<1>1. PICK n \in 0..N \ T : \A m \in 0..N \ T : n <= m
  <2>1. 0..N \ T \in SUBSET Nat
    OBVIOUS
  <2>. QED  BY <2>1, LeastNatural
<1>2. n > 0 /\ n - 1 \in 0..N
  BY <1>1
<1>. QED  BY <1>1, <1>2

\* fold is what folding S yields, subset by subset, when the element pick[d] of
\* d comes last and step[x][v] takes it in.
Folds(S, pick, base, step, fold) ==
    \A d \in SUBSET S :
        fold[d] = IF d = {} THEN base ELSE step[pick[d]][fold[d \ {pick[d]}]]

\* A fold over a finite set exists, whatever order the elements are taken in.
LEMMA FoldExists ==
    ASSUME NEW S, IsFiniteSet(S), NEW V, NEW base \in V, NEW step \in [S -> [V -> V]],
           NEW pick, \A d \in SUBSET S : d # {} => pick[d] \in d
    PROVE  \E fold \in [SUBSET S -> V] : Folds(S, pick, base, step, fold)
<1>. DEFINE N == Cardinality(S)
            Small(m) == {d \in SUBSET S : Cardinality(d) <= m}
            Upto(m, fold) == \A d \in Small(m) :
                fold[d] = IF d = {} THEN base ELSE step[pick[d]][fold[d \ {pick[d]}]]
            T == {m \in 0..N : \E fold \in [Small(m) -> V] : Upto(m, fold)}
<1>1. N \in Nat /\ \A d \in SUBSET S : IsFiniteSet(d) /\ Cardinality(d) \in 0..N
  BY FS_CardinalityType, FS_Subset
<1>2. \A d \in SUBSET S : Cardinality(d) = 0 <=> d = {}
  BY <1>1, FS_EmptySet
<1>3. \A d \in SUBSET S : d # {} => /\ d \ {pick[d]} \in SUBSET S
                                    /\ Cardinality(d \ {pick[d]}) = Cardinality(d) - 1
  BY <1>1, FS_RemoveElement
<1>. HIDE DEF N
<1>4. 0 \in T
  <2>. DEFINE fold == [d \in Small(0) |-> base]
  <2>1. Small(0) = {{}}
    BY <1>1, <1>2
  <2>2. fold \in [Small(0) -> V] /\ Upto(0, fold)
    BY <2>1
  <2>3. 0 \in 0..N
    BY <1>1
  <2>. HIDE DEF fold, Upto
  <2>. QED  BY <2>2, <2>3
<1>5. ASSUME NEW m \in 0..N, m > 0, m - 1 \in T
      PROVE  m \in T
  <2>1. PICK less \in [Small(m - 1) -> V] : Upto(m - 1, less)
    BY <1>5
  <2>. DEFINE fold == [d \in Small(m) |->
                          IF d = {} THEN base ELSE step[pick[d]][less[d \ {pick[d]}]]]
  <2>2. ASSUME NEW d \in Small(m), d # {}
        PROVE  d \ {pick[d]} \in Small(m - 1) /\ pick[d] \in S
    BY <2>2, <1>1, <1>3
  <2>3. ASSUME NEW d \in Small(m - 1)
        PROVE  d \in Small(m) /\ fold[d] = less[d]
    <3>1. d \in Small(m)
      BY <1>1
    <3>2. less[d] = IF d = {} THEN base ELSE step[pick[d]][less[d \ {pick[d]}]]
      BY <2>1
    <3>. QED  BY <3>1, <3>2
  <2>4. fold \in [Small(m) -> V]
    BY <2>1, <2>2
  <2>5. Upto(m, fold)
    <3>1. ASSUME NEW d \in Small(m)
          PROVE  fold[d] = IF d = {} THEN base ELSE step[pick[d]][fold[d \ {pick[d]}]]
      <4>1. CASE d = {}
        BY <4>1
      <4>2. CASE d # {}
        <5>1. fold[d \ {pick[d]}] = less[d \ {pick[d]}]
          BY <4>2, <2>2, <2>3
        <5>2. fold[d] = step[pick[d]][less[d \ {pick[d]}]]
          BY <4>2
        <5>. HIDE DEF fold
        <5>. QED  BY <4>2, <5>1, <5>2
      <4>. QED  BY <4>1, <4>2
    <3>. QED  BY <3>1
  <2>. HIDE DEF fold
  <2>. QED  BY <2>4, <2>5
<1>6. N \in T
  <2>. HIDE DEF T
  <2>. QED  BY <1>1, <1>4, <1>5, ByCounting
<1>7. Small(N) = SUBSET S
  BY <1>1
<1>8. PICK fold \in [Small(N) -> V] : Upto(N, fold)
  BY <1>6
<1>. QED  BY <1>7, <1>8 DEF Folds

\* The largest of a set of positions.
LEMMA MaxIsLast ==
    ASSUME NEW n \in Nat, NEW d \in SUBSET (1..n), d # {}
    PROVE  Max(d) \in d /\ \A k \in d : k <= Max(d)
<1>. DEFINE Above == {m \in Nat : \A k \in d : k <= m}
<1>1. n \in Above
  OBVIOUS
<1>2. PICK m \in Above : \A l \in Above : m <= l
  BY <1>1, LeastNatural
<1>3. m \in d
  <2>. SUFFICES ASSUME m \notin d PROVE FALSE
    OBVIOUS
  <2>1. \A k \in d : k <= m - 1
    BY <1>2
  <2>2. m - 1 \in Above
    <3>1. PICK k \in d : TRUE
      OBVIOUS
    <3>2. k \in Nat /\ k <= m - 1 /\ m \in Nat
      BY <3>1, <2>1
    <3>. QED  BY <3>2, <2>1
  <2>. QED  BY <1>2, <2>2
<1>4. \E x \in d : \A y \in d : x >= y
  BY <1>2, <1>3
<1>. QED  BY <1>4 DEF Max

\* Reading a sequence of length n from left to right: what is read is a value of
\* V, base before the first element and step[k][v] once v takes in the k-th.
StepOn(n, V, base, step) == n \in Nat /\ base \in V /\ step \in [1..n -> [V -> V]]

\* scan[k]: what is read after k elements.
Scans(n, V, base, step, scan) ==
    /\ scan \in [0..n -> V]
    /\ scan[0] = base
    /\ \A k \in 1..n : scan[k] = step[k][scan[k - 1]]

\* fold takes the last position in last, at least when it is given a value of V.
TakesLast(n, V, base, step, fold) ==
    /\ fold[{}] = base
    /\ \A d \in SUBSET (1..n) : d # {} /\ fold[d \ {Max(d)}] \in V
          => fold[d] = step[Max(d)][fold[d \ {Max(d)}]]

\* A fold that takes the last position in last reads from left to right.
LEMMA FoldScans ==
    ASSUME NEW n, NEW V, NEW base, NEW step, StepOn(n, V, base, step),
           NEW fold, TakesLast(n, V, base, step, fold)
    PROVE  Scans(n, V, base, step, [k \in 0..n |-> fold[1..k]])
<1>. DEFINE scan == [k \in 0..n |-> fold[1..k]]
<1>1. n \in Nat
  BY DEF StepOn
<1>2. scan[0] = base
  <2>1. 1..0 = {} /\ 0 \in 0..n
    BY <1>1
  <2>2. scan[0] = fold[{}]
    BY <2>1
  <2>. QED  BY <2>2 DEF TakesLast
<1>3. ASSUME NEW k \in 1..n
      PROVE  scan[k - 1] \in V => scan[k] = step[k][scan[k - 1]] /\ scan[k] \in V
  <2>1. 1..k \in SUBSET (1..n) /\ 1..k # {} /\ (1..k) \ {k} = 1..(k - 1)
    BY <1>1
  <2>2. Max(1..k) = k
    <3>1. Max(1..k) \in 1..k /\ \A j \in 1..k : j <= Max(1..k)
      BY <1>1, <2>1, MaxIsLast
    <3>2. k <= Max(1..k)
      BY <3>1
    <3>. QED  BY <3>1, <3>2
  <2>3. k \in 0..n /\ k - 1 \in 0..n
    BY <1>1
  <2>4. scan[k] = fold[1..k] /\ scan[k - 1] = fold[1..(k - 1)]
    BY <2>3
  <2>. HIDE DEF scan
  <2>5. ASSUME scan[k - 1] \in V
        PROVE  fold[1..k] = step[k][fold[1..(k - 1)]]
    BY <2>1, <2>2, <2>4, <2>5 DEF TakesLast
  <2>6. ASSUME scan[k - 1] \in V
        PROVE  step[k][scan[k - 1]] \in V
    BY <2>6 DEF StepOn
  <2>. QED  BY <2>4, <2>5, <2>6
<1>4. DOMAIN scan = 0..n /\ scan = [k \in 0..n |-> scan[k]]
  OBVIOUS
<1>. HIDE DEF scan
<1>. DEFINE T == {k \in 0..n : scan[k] \in V}
<1>5. 0 \in T
  BY <1>1, <1>2 DEF StepOn
<1>6. ASSUME NEW k \in 0..n, k > 0, k - 1 \in T
      PROVE  k \in T
  <2>1. k \in 1..n /\ scan[k - 1] \in V
    BY <1>6
  <2>. QED  BY <1>3, <2>1
<1>7. 0..n \subseteq T
  <2>. HIDE DEF T
  <2>. QED  BY <1>1, <1>5, <1>6, ByCounting
<1>8. \A k \in 1..n : k - 1 \in 0..n
  BY <1>1
<1>9. scan \in [0..n -> V]
  BY <1>4, <1>7
<1>10. \A k \in 1..n : scan[k] = step[k][scan[k - 1]]
  BY <1>3, <1>8, <1>9
<1>. QED  BY <1>2, <1>9, <1>10 DEF Scans, scan

\* fold[d] for every set d of positions, the last one taken in last.
LastFold(n, V, base, step, fold) ==
    /\ fold \in [SUBSET (1..n) -> V]
    /\ fold[{}] = base
    /\ \A d \in SUBSET (1..n) :
          d # {} => /\ Max(d) \in 1..n /\ fold[d \ {Max(d)}] \in V
                    /\ fold[d] = step[Max(d)][fold[d \ {Max(d)}]]

\* Such a fold exists.
LEMMA LastFoldExists ==
    ASSUME NEW n, NEW V, NEW base, NEW step, StepOn(n, V, base, step)
    PROVE  \E fold : LastFold(n, V, base, step, fold)
<1>. DEFINE pick == [d \in SUBSET (1..n) |-> Max(d)]
<1>1. n \in Nat /\ base \in V /\ step \in [1..n -> [V -> V]]
  BY DEF StepOn
<1>2. \A d \in SUBSET (1..n) : pick[d] = Max(d) /\ (d # {} => pick[d] \in d)
  BY <1>1, MaxIsLast
<1>. HIDE DEF pick
<1>3. IsFiniteSet(1..n)
  BY <1>1, FS_Interval
<1>4. PICK fold \in [SUBSET (1..n) -> V] : Folds(1..n, pick, base, step, fold)
  BY <1>1, <1>2, <1>3, FoldExists
<1>5. ASSUME NEW d \in SUBSET (1..n), d # {}
      PROVE  /\ Max(d) \in 1..n /\ fold[d \ {Max(d)}] \in V
             /\ fold[d] = step[Max(d)][fold[d \ {Max(d)}]]
  <2>1. Max(d) \in 1..n /\ pick[d] = Max(d) /\ d \ {Max(d)} \in SUBSET (1..n)
    BY <1>2, <1>5
  <2>. QED  BY <1>4, <1>5, <2>1 DEF Folds
<1>6. fold[{}] = base
  BY <1>4 DEF Folds
<1>. QED  BY <1>4, <1>5, <1>6 DEF LastFold

\* The scan of known steps exists.
LEMMA ScanExists ==
    ASSUME NEW n, NEW V, NEW base, NEW step, StepOn(n, V, base, step)
    PROVE  \E scan : Scans(n, V, base, step, scan)
<1>1. PICK fold : LastFold(n, V, base, step, fold)
  BY LastFoldExists
<1>2. TakesLast(n, V, base, step, fold)
  BY <1>1 DEF LastFold, TakesLast
<1>. QED  BY <1>2, FoldScans

\* The least element of a set of numbers, as Min yields it.
LEMMA MinIsFirst ==
    ASSUME NEW T \in SUBSET Nat, T # {}
    PROVE  Min(T) \in T /\ \A n \in T : Min(T) <= n
<1>1. \E n \in T : \A m \in T : n <= m
  BY LeastNatural
<1>. QED  BY <1>1 DEF Min

\* Folding a finite set stays among the values that every element keeps.
LEMMA FoldKeeps ==
    ASSUME NEW S, IsFiniteSet(S), NEW V, NEW pick, NEW fold, fold[{}] \in V,
           \A d \in SUBSET S : d # {} => /\ pick[d] \in d
                                         /\ fold[d \ {pick[d]}] \in V => fold[d] \in V
    PROVE  fold[S] \in V
<1>. DEFINE N == Cardinality(S)
            T == {m \in 0..N : \A d \in SUBSET S : Cardinality(d) <= m => fold[d] \in V}
<1>1. N \in Nat /\ \A d \in SUBSET S : IsFiniteSet(d) /\ Cardinality(d) \in 0..N
  BY FS_CardinalityType, FS_Subset
<1>2. \A d \in SUBSET S : Cardinality(d) = 0 <=> d = {}
  BY <1>1, FS_EmptySet
<1>3. \A d \in SUBSET S : d # {} => /\ d \ {pick[d]} \in SUBSET S
                                    /\ Cardinality(d \ {pick[d]}) = Cardinality(d) - 1
  BY <1>1, FS_RemoveElement
<1>. HIDE DEF N
<1>4. 0 \in T
  <2>1. \A d \in SUBSET S : Cardinality(d) <= 0 => d = {}
    BY <1>1, <1>2
  <2>2. \A d \in SUBSET S : Cardinality(d) <= 0 => fold[d] \in V
    BY <2>1
  <2>3. 0 \in 0..N
    BY <1>1
  <2>. QED  BY <2>2, <2>3
<1>5. ASSUME NEW m \in 0..N, m > 0, m - 1 \in T
      PROVE  m \in T
  <2>1. ASSUME NEW d \in SUBSET S, Cardinality(d) <= m, d # {}
        PROVE  fold[d] \in V
    <3>1. d \ {pick[d]} \in SUBSET S /\ Cardinality(d \ {pick[d]}) <= m - 1
      BY <1>1, <1>3, <2>1
    <3>2. fold[d \ {pick[d]}] \in V
      BY <1>5, <3>1
    <3>. QED  BY <2>1, <3>2
  <2>. QED  BY <2>1
<1>6. 0..N \subseteq T
  <2>. HIDE DEF T
  <2>. QED  BY <1>1, <1>4, <1>5, ByCounting
<1>. QED  BY <1>1, <1>6

-----------------------------------------------------------------------------
(* Sequences *)

\* thin is s without what stands at other positions than those in keep, and
\* place[j] is where its j-th element stands in s.
Thinned(s, keep, thin, place) ==
    /\ Cardinality(keep) \in Nat /\ Len(thin) = Cardinality(keep)
    /\ DOMAIN thin = 1..Cardinality(keep)
    /\ place \in [1..Cardinality(keep) -> keep]
    /\ \A i, j \in 1..Cardinality(keep) : place[i] = place[j] => i = j
    /\ \A k \in keep : \E j \in 1..Cardinality(keep) : place[j] = k
    /\ \A j \in 1..Cardinality(keep) : thin[j] = s[place[j]]

Rank(keep, k) == Cardinality({i \in keep : i <= k})

\* Of the positions in a set, each is the j-th for exactly one j.
LEMMA RankFacts ==
    ASSUME NEW n \in Nat, NEW keep \in SUBSET (1..n)
    PROVE  /\ IsFiniteSet(keep) /\ Cardinality(keep) \in Nat
           /\ \A k \in keep : Rank(keep, k) \in 1..Cardinality(keep)
           /\ \A k, l \in keep : Rank(keep, k) = Rank(keep, l) => k = l
           /\ \A j \in 1..Cardinality(keep) : \E k \in keep : Rank(keep, k) = j
<1>. DEFINE m == Cardinality(keep)
            upto(k) == {i \in keep : i <= k}
            rank == [k \in keep |-> Rank(keep, k)]
<1>1. IsFiniteSet(keep) /\ m \in Nat
  <2>1. IsFiniteSet(1..n)
    BY FS_Interval
  <2>. QED  BY <2>1, FS_Subset, FS_CardinalityType
<1>2. ASSUME NEW k \in keep
      PROVE  IsFiniteSet(upto(k)) /\ Rank(keep, k) \in 1..m
  <2>1. IsFiniteSet(upto(k)) /\ Cardinality(upto(k)) \in Nat /\ Cardinality(upto(k)) <= m
    BY <1>1, FS_Subset, FS_CardinalityType
  <2>2. Cardinality(upto(k)) # 0
    <3>1. k \in upto(k)
      OBVIOUS
    <3>. QED  BY <2>1, <3>1, FS_EmptySet
  <2>. QED  BY <1>1, <2>1, <2>2 DEF Rank
<1>3. ASSUME NEW k \in keep, NEW l \in keep, k < l
      PROVE  Rank(keep, k) # Rank(keep, l)
  <2>1. upto(k) \in SUBSET upto(l) /\ l \in upto(l) /\ l \notin upto(k)
    <3>1. k \in Nat /\ l \in Nat /\ \A i \in keep : i \in Nat
      OBVIOUS
    <3>2. \A i \in keep : i <= k => i <= l
      BY <1>3, <3>1
    <3>3. l <= l /\ ~(l <= k)
      BY <1>3, <3>1
    <3>. QED  BY <3>2, <3>3
  <2>. HIDE DEF upto
  <2>2. Cardinality(upto(k)) # Cardinality(upto(l))
    BY <1>2, <2>1, FS_Subset
  <2>. QED  BY <2>2 DEF Rank, upto
<1>4. \A k, l \in keep : Rank(keep, k) = Rank(keep, l) => k = l
  <2>1. \A k, l \in keep : k < l \/ l < k \/ k = l
    OBVIOUS
  <2>. QED  BY <1>3, <2>1
<1>5. rank \in Injection(keep, 1..m)
  BY <1>2, <1>4 DEF Injection, IsInjective
<1>6. IsFiniteSet(1..m) /\ Cardinality(1..m) = m
  BY <1>1, FS_Interval
<1>. HIDE DEF m, rank
<1>7. rank \in Surjection(keep, 1..m)
  BY <1>1, <1>5, <1>6, FS_Injection DEF m
<1>. QED  BY <1>1, <1>2, <1>4, <1>7 DEF Surjection, rank, m

\* A thinned sequence holds the elements at the positions kept, each once.
LEMMA ThinFacts ==
    ASSUME NEW T, NEW s \in Seq(T), NEW keep \in SUBSET DOMAIN s
    PROVE  /\ Thin(s, keep) \in Seq(T)
           /\ \E place : Thinned(s, keep, Thin(s, keep), place)
           /\ Cardinality(keep) = Len(s) => keep = DOMAIN s
<1>. DEFINE m == Cardinality(keep)
            place == [j \in 1..m |-> CHOOSE k \in keep : Rank(keep, k) = j]
<1>1. keep \in SUBSET (1..Len(s)) /\ Len(s) \in Nat
  OBVIOUS
<1>2. /\ IsFiniteSet(keep) /\ m \in Nat
      /\ \A k \in keep : Rank(keep, k) \in 1..m
      /\ \A k, l \in keep : Rank(keep, k) = Rank(keep, l) => k = l
      /\ \A j \in 1..m : \E k \in keep : Rank(keep, k) = j
  BY <1>1, RankFacts
<1>3. Thin(s, keep) = [j \in 1..m |-> s[place[j]]]
  BY DEF Thin, Rank
<1>4. \A j \in 1..m : place[j] \in keep /\ Rank(keep, place[j]) = j
  BY <1>2
<1>5. place \in [1..m -> keep]
  BY <1>4
<1>. HIDE DEF m, place
<1>6. Thin(s, keep) \in Seq(T) /\ DOMAIN Thin(s, keep) = 1..m
  BY <1>2, <1>3, <1>5
<1>7. Len(Thin(s, keep)) = m
  BY <1>2, <1>6
<1>8. Thinned(s, keep, Thin(s, keep), place)
  <2>1. \A i, j \in 1..m : place[i] = place[j] => i = j
    BY <1>4
  <2>2. \A k \in keep : \E j \in 1..m : place[j] = k
    BY <1>2, <1>4, <1>5
  <2>3. \A j \in 1..m : Thin(s, keep)[j] = s[place[j]]
    BY <1>3
  <2>. QED  BY <1>2, <1>5, <1>6, <1>7, <2>1, <2>2, <2>3 DEF Thinned, m
<1>9. m = Len(s) => keep = DOMAIN s
  <2>1. IsFiniteSet(1..Len(s)) /\ Cardinality(1..Len(s)) = Len(s)
    <3>1. 1 \in Int /\ Len(s) \in Int
      BY <1>1
    <3>2. IsFiniteSet(1..Len(s)) /\ Cardinality(1..Len(s)) = IF 1 > Len(s) THEN 0 ELSE Len(s) - 1 + 1
      BY <3>1, FS_Interval
    <3>. QED  BY <1>1, <3>2
  <2>. QED  BY <1>1, <2>1, FS_Subset DEF m
<1>. QED  BY <1>6, <1>8, <1>9 DEF m

\* What two sequences hold together.
LEMMA RangeOfConcat ==
    ASSUME NEW T, NEW a \in Seq(T), NEW b \in Seq(T)
    PROVE  /\ a \o b \in Seq(T)
           /\ Range(a \o b) = Range(a) \cup Range(b)
<1>1. /\ a \o b \in Seq(T) /\ Len(a \o b) = Len(a) + Len(b)
      /\ \A i \in 1..Len(a) : (a \o b)[i] = a[i]
      /\ \A i \in 1..Len(b) : (a \o b)[Len(a) + i] = b[i]
  OBVIOUS
<1>2. /\ DOMAIN a = 1..Len(a) /\ DOMAIN b = 1..Len(b)
      /\ DOMAIN (a \o b) = 1..(Len(a) + Len(b)) /\ Len(a) \in Nat /\ Len(b) \in Nat
  BY <1>1
<1>3. ASSUME NEW i \in 1..(Len(a) + Len(b))
      PROVE  (a \o b)[i] \in Range(a) \cup Range(b)
  <2>1. CASE i \in 1..Len(a)
    BY <1>1, <1>2, <2>1 DEF Range
  <2>2. CASE i \notin 1..Len(a)
    <3>1. i - Len(a) \in 1..Len(b) /\ Len(a) + (i - Len(a)) = i
      BY <1>2, <2>2
    <3>2. (a \o b)[Len(a) + (i - Len(a))] = b[i - Len(a)]
      BY <1>1, <3>1
    <3>. QED  BY <1>2, <3>1, <3>2 DEF Range
  <2>. QED  BY <2>1, <2>2
<1>4. ASSUME NEW i \in 1..Len(a)
      PROVE  a[i] \in Range(a \o b)
  <2>1. i \in 1..(Len(a) + Len(b))
    BY <1>2
  <2>. QED  BY <1>1, <1>2, <2>1 DEF Range
<1>5. ASSUME NEW i \in 1..Len(b)
      PROVE  b[i] \in Range(a \o b)
  <2>1. Len(a) + i \in 1..(Len(a) + Len(b))
    BY <1>2
  <2>. QED  BY <1>1, <1>2, <2>1 DEF Range
<1>6. /\ Range(a \o b) = {(a \o b)[i] : i \in 1..(Len(a) + Len(b))}
      /\ Range(a) = {a[i] : i \in 1..Len(a)} /\ Range(b) = {b[i] : i \in 1..Len(b)}
  BY <1>2 DEF Range
<1>7. Range(a \o b) \subseteq Range(a) \cup Range(b)
  BY <1>3, <1>6
<1>8. Range(a) \subseteq Range(a \o b)
  BY <1>4, <1>6
<1>9. Range(b) \subseteq Range(a \o b)
  BY <1>5, <1>6
<1>. QED  BY <1>1, <1>7, <1>8, <1>9

\* A function on an initial segment is a sequence of its values.
LEMMA FunctionIsSeq ==
    ASSUME NEW n \in Nat, NEW f, f = [k \in 1..n |-> f[k]]
    PROVE  f \in Seq(Range(f)) /\ Len(f) = n
<1>1. DOMAIN f = 1..n
  OBVIOUS
<1>2. \A k \in 1..n : f[k] \in Range(f)
  BY <1>1 DEF Range
<1>3. f \in Seq(Range(f))
  <2>. DEFINE T == Range(f)
  <2>. HIDE DEF T
  <2>1. \A k \in 1..n : f[k] \in T
    BY <1>2 DEF T
  <2>2. f \in [1..n -> T]
    BY <2>1
  <2>3. f \in Seq(T)
    BY <2>2
  <2>. QED  BY <2>3 DEF T
<1>. QED  BY <1>1, <1>3

\* A thinned sequence has the elements that were kept and no others.
LEMMA ThinRange ==
    ASSUME NEW T, NEW s \in Seq(T), NEW keep \in SUBSET DOMAIN s
    PROVE  /\ Range(Thin(s, keep)) = {s[k] : k \in keep}
           /\ Thin(s, keep) \in Seq({s[k] : k \in keep})
<1>. DEFINE thin == Thin(s, keep)
            n == Cardinality(keep)
<1>1. PICK place : Thinned(s, keep, thin, place)
  BY ThinFacts
<1>2. thin \in Seq(T)
  BY ThinFacts
<1>. HIDE DEF thin, n
<1>3. /\ n \in Nat /\ DOMAIN thin = 1..n /\ Len(thin) = n /\ place \in [1..n -> keep]
      /\ \A k \in keep : \E j \in 1..n : place[j] = k
      /\ \A j \in 1..n : thin[j] = s[place[j]]
  BY <1>1 DEF Thinned, n
<1>4. \A j \in 1..n : thin[j] \in {s[k] : k \in keep}
  BY <1>3
<1>5. \A k \in keep : \E j \in 1..n : thin[j] = s[k]
  BY <1>3
<1>6. Range(thin) = {s[k] : k \in keep}
  <2>1. Range(thin) = {thin[j] : j \in 1..n}
    BY <1>3 DEF Range
  <2>. QED  BY <1>4, <1>5, <2>1
<1>7. thin = [j \in 1..n |-> thin[j]]
  BY <1>2, <1>3
<1>8. thin \in Seq(Range(thin))
  BY <1>3, <1>7, FunctionIsSeq
<1>. QED  BY <1>6, <1>8 DEF thin

\* What a longer sequence holds.
LEMMA RangeOfAppend ==
    ASSUME NEW T, NEW s \in Seq(T), NEW x \in T
    PROVE  Append(s, x) \in Seq(T) /\ Range(Append(s, x)) = Range(s) \cup {x}
<1>1. /\ Append(s, x) \in Seq(T) /\ DOMAIN s = 1..Len(s) /\ DOMAIN Append(s, x) = 1..(Len(s) + 1)
      /\ \A i \in 1..Len(s) : Append(s, x)[i] = s[i]
      /\ Append(s, x)[Len(s) + 1] = x /\ Len(s) \in Nat
  OBVIOUS
<1>2. \A i : i \in 1..(Len(s) + 1) <=> i \in 1..Len(s) \/ i = Len(s) + 1
  BY <1>1
<1>. QED  BY <1>1, <1>2 DEF Range

\* A sequence of one element.
LEMMA SingleSeq ==
    ASSUME NEW T, NEW x \in T
    PROVE  <<x>> \in Seq(T)
<1>1. DOMAIN <<x>> = 1..1 /\ <<x>>[1] = x
  OBVIOUS
<1>2. <<x>> = [i \in 1..1 |-> x]
  OBVIOUS
<1>3. [i \in 1..1 |-> x] \in Seq(T)
  OBVIOUS
<1>. QED  BY <1>2, <1>3

-----------------------------------------------------------------------------

\* FlattenSeq joins the sequences of a sequence one after the other.
Flattens(ss, T, scan) ==
    /\ scan[0] = <<>>
    /\ \A k \in 0..Len(ss) : scan[k] \in Seq(T)
    /\ \A k \in 1..Len(ss) : scan[k] = scan[k - 1] \o ss[k]
    /\ FlattenSeq(ss) = scan[Len(ss)]

\* FlattenSeq is such a reading.
LEMMA FlattenScans ==
    ASSUME NEW T, NEW ss \in Seq(Seq(T))
    PROVE  \E scan : Flattens(ss, T, scan)
<1>. DEFINE W == Seq(T)
            n == Len(ss)
            step == [k \in 1..n |-> [v \in W |-> v \o ss[k]]]
            Body(h) == h = [i \in 1..n |-> IF i = 1 THEN ss[i] ELSE h[i - 1] \o ss[i]]
            flat == CHOOSE h : Body(h)
<1>1. n \in Nat /\ DOMAIN ss = 1..n /\ \A k \in 1..n : ss[k] \in W
  OBVIOUS
<1>2. <<>> \in W
  OBVIOUS
<1>3. \A k \in 1..n, v \in W : step[k][v] = v \o ss[k] /\ v \o ss[k] \in W
  BY <1>1
<1>4. StepOn(n, W, <<>>, step)
  BY <1>1, <1>3 DEF StepOn
<1>5. \A v \in W : <<>> \o v = v
  OBVIOUS
<1>6. n # 0 => FlattenSeq(ss) = flat[n]
  BY DEF FlattenSeq
<1>7. n = 0 => FlattenSeq(ss) = <<>>
  BY DEF FlattenSeq
<1>. HIDE DEF W, step
<1>8. PICK scan : Scans(n, W, <<>>, step, scan)
  BY <1>4, ScanExists
<1>9. scan[0] = <<>> /\ \A k \in 0..n : scan[k] \in W
  BY <1>8 DEF Scans
<1>10. \A k \in 1..n : scan[k] = scan[k - 1] \o ss[k]
  <2>1. \A k \in 1..n : k - 1 \in 0..n
    BY <1>1
  <2>. QED  BY <1>3, <1>8, <1>9, <2>1 DEF Scans
<1>. HIDE DEF n
<1>11. Body([i \in 1..n |-> scan[i]])
  <2>1. ASSUME NEW i \in 1..n
        PROVE  scan[i] = IF i = 1 THEN ss[i] ELSE [j \in 1..n |-> scan[j]][i - 1] \o ss[i]
    <3>1. CASE i = 1
      <4>1. i - 1 = 0
        BY <3>1
      <4>. QED  BY <1>1, <1>5, <1>9, <1>10, <3>1, <4>1
    <3>2. CASE i # 1
      <4>1. i - 1 \in 1..n
        BY <1>1, <3>2
      <4>. QED  BY <1>10, <3>2, <4>1
    <3>. QED  BY <3>1, <3>2
  <2>. QED  BY <2>1
<1>12. Body(flat)
  BY <1>11
<1>13. \A i \in 1..n : flat[i] = IF i = 1 THEN ss[i] ELSE flat[i - 1] \o ss[i]
  BY <1>12
<1>. HIDE DEF flat
<1>. DEFINE S == {i \in 0..n : i > 0 => flat[i] = scan[i]}
<1>14. ASSUME NEW i \in 0..n, i > 0, i - 1 \in S
       PROVE  i \in S
  <2>1. i \in 1..n
    BY <1>1, <1>14
  <2>2. CASE i = 1
    <3>1. scan[i] = <<>> \o ss[i] /\ ss[i] \in W
      <4>1. i - 1 = 0
        BY <2>2
      <4>. QED  BY <1>1, <1>9, <1>10, <2>1, <4>1
    <3>2. flat[i] = scan[i]
      BY <1>5, <1>13, <2>1, <2>2, <3>1
    <3>. QED  BY <3>2
  <2>3. CASE i # 1
    <3>1. flat[i - 1] = scan[i - 1]
      <4>1. i - 1 > 0
        BY <1>1, <2>1, <2>3
      <4>. QED  BY <1>14, <4>1
    <3>2. flat[i] = scan[i]
      BY <1>10, <1>13, <2>1, <2>3, <3>1
    <3>. QED  BY <3>2
  <2>. QED  BY <2>2, <2>3
<1>15. 0..n \subseteq S
  <2>1. 0 \in S
    BY <1>1
  <2>. HIDE DEF S
  <2>. QED  BY <1>1, <1>14, <2>1, ByCounting
<1>16. FlattenSeq(ss) = scan[n]
  <2>1. n \in S
    BY <1>1, <1>15
  <2>. QED  BY <1>1, <1>6, <1>7, <1>9, <2>1
<1>. QED  BY <1>9, <1>10, <1>16 DEF Flattens, W, n

\* A flattened sequence holds what its sequences hold.
LEMMA FlattenFacts ==
    ASSUME NEW T, NEW ss \in Seq(Seq(T))
    PROVE  /\ FlattenSeq(ss) \in Seq(T)
           /\ Range(FlattenSeq(ss)) = UNION {Range(ss[k]) : k \in DOMAIN ss}
           /\ \A k \in DOMAIN ss : Range(ss[k]) \subseteq Range(FlattenSeq(ss))
<1>. DEFINE n == Len(ss)
<1>1. n \in Nat /\ DOMAIN ss = 1..n /\ \A k \in 1..n : ss[k] \in Seq(T)
  OBVIOUS
<1>2. PICK scan : Flattens(ss, T, scan)
  BY FlattenScans
<1>3. /\ scan[0] = <<>> /\ FlattenSeq(ss) = scan[n]
      /\ \A k \in 0..n : scan[k] \in Seq(T)
      /\ \A k \in 1..n : scan[k] = scan[k - 1] \o ss[k]
  BY <1>2 DEF Flattens
<1>. HIDE DEF n
<1>. DEFINE Held(k) == UNION {Range(ss[i]) : i \in 1..k}
            S == {k \in 0..n : Range(scan[k]) = Held(k)}
<1>4. 0 \in S
  <2>1. Range(<<>>) = {} /\ Held(0) = {}
    BY DEF Range
  <2>. QED  BY <1>1, <1>3, <2>1
<1>5. ASSUME NEW k \in 0..n, k > 0, k - 1 \in S
      PROVE  k \in S
  <2>1. k \in 1..n /\ k - 1 \in 0..n
    BY <1>1, <1>5
  <2>2. Range(scan[k - 1] \o ss[k]) = Range(scan[k - 1]) \cup Range(ss[k])
    <3>1. scan[k - 1] \in Seq(T) /\ ss[k] \in Seq(T)
      BY <1>1, <1>3, <2>1
    <3>. QED  BY <3>1, RangeOfConcat
  <2>3. 1..k = (1..(k - 1)) \cup {k}
    BY <2>1
  <2>4. Held(k) = Held(k - 1) \cup Range(ss[k])
    BY <2>3
  <2>. HIDE DEF Held
  <2>. QED  BY <1>3, <1>5, <2>1, <2>2, <2>4
<1>6. n \in S
  <2>. HIDE DEF S
  <2>1. 0..n \subseteq S
    BY <1>1, <1>4, <1>5, ByCounting
  <2>. QED  BY <1>1, <2>1
<1>7. Range(FlattenSeq(ss)) = UNION {Range(ss[k]) : k \in DOMAIN ss}
  BY <1>1, <1>3, <1>6
<1>8. FlattenSeq(ss) \in Seq(T)
  BY <1>1, <1>3
<1>. QED  BY <1>7, <1>8

\* A finite set as a sequence: each of its elements, once.
LEMMA SetToSeqFacts ==
    ASSUME NEW S, IsFiniteSet(S)
    PROVE  /\ SetToSeq(S) \in Seq(S) /\ Range(SetToSeq(S)) = S
           /\ \A i, j \in DOMAIN SetToSeq(S) : SetToSeq(S)[i] = SetToSeq(S)[j] => i = j
<1>. DEFINE n == Cardinality(S)
            f == SetToSeq(S)
<1>1. n \in Nat /\ ExistsBijection(1..n, S)
  BY FS_CardinalityType
<1>2. PICK g : g \in Bijection(1..n, S)
  BY <1>1 DEF ExistsBijection
<1>3. g \in [1..n -> S] /\ IsInjective(g)
  BY <1>2 DEF Bijection, Injection, IsInjective
<1>4. f \in [1..n -> S] /\ IsInjective(f)
  BY <1>3 DEF SetToSeq
<1>. HIDE DEF f
<1>5. f \in Injection(1..n, S)
  BY <1>4 DEF Injection, IsInjective
<1>6. IsFiniteSet(1..n) /\ Cardinality(1..n) = n
  BY <1>1, FS_Interval
<1>. HIDE DEF n
<1>7. f \in Surjection(1..n, S)
  BY <1>5, <1>6, FS_Injection DEF n
<1>8. f \in Seq(S)
  BY <1>1, <1>4
<1>9. Range(f) = S
  BY <1>4, <1>7 DEF Surjection, Range
<1>. QED  BY <1>4, <1>8, <1>9 DEF IsInjective, f
================================================================================
