-------------------- MODULE ProgressiveExtraction_proofs --------------------
(***************************************************************************)
(* The extraction pipeline, for any texts, chunk sizes, answers, costs and *)
(* budgets: the chunks cover the text, the budget guard of llm_client      *)
(* bounds what is spent, the reported costs are what was charged, and the  *)
(* candidates account for every event, with the types and names they are   *)
(* entitled to.                                                            *)
(***************************************************************************)
EXTENDS ProgressiveExtraction, Lists_proofs

-----------------------------------------------------------------------------
\* Sums(f, sums): sums[s] is the sum of f over s.
Sums(f, sums) ==
    sums = [s \in SUBSET DOMAIN f |->
              IF s = {} THEN 0
              ELSE f[CHOOSE x \in s : TRUE] + sums[s \ {CHOOSE x \in s : TRUE}]]

\* The sum of a function adds one element of its domain after the other.
LEMMA SumsExist ==
    ASSUME NEW S, IsFiniteSet(S), NEW f \in [S -> Nat]
    PROVE  \E sums \in [SUBSET S -> Nat] : Sums(f, sums) /\ Total(f) = sums[S]
<1>. DEFINE pick == [d \in SUBSET S |-> CHOOSE x \in d : TRUE]
            step == [x \in S |-> [v \in Nat |-> f[x] + v]]
<1>1. \A d \in SUBSET S : d # {} => pick[d] \in d
  OBVIOUS
<1>2. step \in [S -> [Nat -> Nat]]
  OBVIOUS
<1>3. PICK fold \in [SUBSET S -> Nat] : Folds(S, pick, 0, step, fold)
  <2>. HIDE DEF pick, step
  <2>. QED  BY <1>1, <1>2, FoldExists
<1>4. Sums(f, fold)
  <2>1. ASSUME NEW d \in SUBSET S
        PROVE  fold[d] = IF d = {} THEN 0 ELSE f[CHOOSE x \in d : TRUE] + fold[d \ {CHOOSE x \in d : TRUE}]
    <3>1. CASE d = {}
      BY <3>1, <1>3 DEF Folds
    <3>2. CASE d # {}
      <4>1. pick[d] \in S /\ fold[d \ {pick[d]}] \in Nat
        BY <3>2, <1>1, <1>3
      <4>2. step[pick[d]][fold[d \ {pick[d]}]] = f[pick[d]] + fold[d \ {pick[d]}]
        <5>1. \A x \in S, v \in Nat : step[x][v] = f[x] + v
          OBVIOUS
        <5>. HIDE DEF step, pick
        <5>. QED  BY <4>1, <5>1
      <4>3. fold[d] = step[pick[d]][fold[d \ {pick[d]}]]
        BY <3>2, <1>3 DEF Folds
      <4>. QED  BY <3>2, <4>2, <4>3
    <3>. QED  BY <3>1, <3>2
  <2>. QED  BY <2>1, <1>3 DEF Sums
<1>. DEFINE sums == CHOOSE h : Sums(f, h)
<1>5. Sums(f, sums)
  BY <1>4
<1>6. Total(f) = sums[S]
  BY DEF Total, FoldFunction, FoldFunctionOnSet, MapThenFoldSet, Sums
<1>7. sums = fold
  <2>. HIDE DEF sums
  <2>. DEFINE N == Cardinality(S)
              T == {m \in 0..N : \A d \in SUBSET S : Cardinality(d) <= m => sums[d] = fold[d]}
  <2>1. N \in Nat /\ \A d \in SUBSET S : IsFiniteSet(d) /\ Cardinality(d) \in 0..N
    BY FS_CardinalityType, FS_Subset
  <2>2. \A d \in SUBSET S : Cardinality(d) = 0 <=> d = {}
    BY <2>1, FS_EmptySet
  <2>3. \A d \in SUBSET S : d # {} => /\ d \ {CHOOSE x \in d : TRUE} \in SUBSET S
                                      /\ Cardinality(d \ {CHOOSE x \in d : TRUE}) = Cardinality(d) - 1
    BY <2>1, FS_RemoveElement
  <2>. HIDE DEF N
  <2>4. 0 \in T
    BY <2>1, <2>2, <1>4, <1>5 DEF Sums
  <2>5. ASSUME NEW m \in 0..N, m > 0, m - 1 \in T
        PROVE  m \in T
    <3>1. ASSUME NEW d \in SUBSET S, Cardinality(d) <= m
          PROVE  sums[d] = fold[d]
      <4>1. CASE d = {}
        BY <4>1, <1>4, <1>5 DEF Sums
      <4>2. CASE d # {}
        <5>1. sums[d \ {CHOOSE x \in d : TRUE}] = fold[d \ {CHOOSE x \in d : TRUE}]
          BY <4>2, <3>1, <2>1, <2>3, <2>5
        <5>2. /\ fold[d] = f[CHOOSE x \in d : TRUE] + fold[d \ {CHOOSE x \in d : TRUE}]
              /\ sums[d] = f[CHOOSE x \in d : TRUE] + sums[d \ {CHOOSE x \in d : TRUE}]
          BY <4>2, <1>4, <1>5 DEF Sums
        <5>. QED  BY <5>1, <5>2
      <4>. QED  BY <4>1, <4>2
    <3>. QED  BY <3>1, <2>5
  <2>6. N \in T
    <3>. HIDE DEF T
    <3>. QED  BY <2>1, <2>4, <2>5, ByCounting
  <2>7. \A d \in SUBSET S : sums[d] = fold[d]
    BY <2>1, <2>6
  <2>. QED  BY <2>7, <1>3, <1>4, <1>5 DEF Sums
<1>. QED  BY <1>3, <1>4, <1>6, <1>7

\* g is f with c added to its value at t.
IsCharge(S, f, t, c, g) ==
    IsFiniteSet(S) /\ f \in [S -> Nat] /\ t \in S /\ c \in Nat /\ g = [f EXCEPT ![t] = @ + c]

\* A sum goes up by what one of its terms goes up by.
LEMMA TotalOfCharge ==
    ASSUME NEW S, NEW f, NEW t, NEW c, NEW g, IsCharge(S, f, t, c, g)
    PROVE  Total(f) \in Nat /\ Total(g) = Total(f) + c
<1>. DEFINE N == Cardinality(S)
<1>0. IsFiniteSet(S) /\ f \in [S -> Nat] /\ t \in S /\ c \in Nat
  BY DEF IsCharge
<1>1. g \in [S -> Nat] /\ g[t] = f[t] + c /\ \A x \in S : x # t => g[x] = f[x]
  BY DEF IsCharge
<1>. USE <1>0
<1>2. PICK fs \in [SUBSET S -> Nat] : Sums(f, fs) /\ Total(f) = fs[S]
  BY SumsExist
<1>3. PICK gs \in [SUBSET S -> Nat] : Sums(g, gs) /\ Total(g) = gs[S]
  BY <1>1, SumsExist
<1>. DEFINE Extra(d) == IF t \in d THEN c ELSE 0
            T == {m \in 0..N : \A d \in SUBSET S : Cardinality(d) <= m => gs[d] = fs[d] + Extra(d)}
<1>4. N \in Nat /\ \A d \in SUBSET S : IsFiniteSet(d) /\ Cardinality(d) \in 0..N
  BY FS_CardinalityType, FS_Subset
<1>5. \A d \in SUBSET S : Cardinality(d) = 0 <=> d = {}
  BY <1>4, FS_EmptySet
<1>6. \A d \in SUBSET S : d # {} => /\ d \ {CHOOSE x \in d : TRUE} \in SUBSET S
                                    /\ Cardinality(d \ {CHOOSE x \in d : TRUE}) = Cardinality(d) - 1
  BY <1>4, FS_RemoveElement
<1>. HIDE DEF N
<1>7. fs[{}] = 0 /\ gs[{}] = 0
  BY <1>2, <1>3 DEF Sums
<1>8. 0 \in T
  <2>1. \A d \in SUBSET S : Cardinality(d) <= 0 => d = {}
    BY <1>4, <1>5
  <2>2. 0 \in 0..N
    BY <1>4
  <2>3. ASSUME NEW d \in SUBSET S, d = {}
        PROVE  gs[d] = fs[d] + Extra(d)
    <3>1. Extra(d) = 0
      BY <2>3
    <3>. HIDE DEF Extra
    <3>. QED  BY <2>3, <3>1, <1>7
  <2>. HIDE DEF Extra
  <2>. QED  BY <2>1, <2>2, <2>3
<1>9. ASSUME NEW m \in 0..N, m > 0, m - 1 \in T
      PROVE  m \in T
  <2>1. ASSUME NEW d \in SUBSET S, Cardinality(d) <= m
        PROVE  gs[d] = fs[d] + Extra(d)
    <3>1. CASE d = {}
      BY <3>1, <1>7
    <3>2. CASE d # {}
      <4>. DEFINE x == CHOOSE y \in d : TRUE
                  e == d \ {x}
      <4>1. x \in d /\ e \in SUBSET S /\ x \in S
        BY <3>2
      <4>2. gs[e] = fs[e] + Extra(e)
        BY <3>2, <2>1, <1>4, <1>6, <1>9
      <4>3. fs[d] = f[x] + fs[e] /\ gs[d] = g[x] + gs[e]
        BY <3>2, <1>1, <1>2, <1>3 DEF Sums
      <4>4. fs[e] \in Nat /\ f[x] \in Nat
        BY <4>1, <1>2
      <4>. HIDE DEF x
      <4>5. CASE x = t
        <5>1. Extra(e) = 0 /\ Extra(d) = c
          BY <4>1, <4>5
        <5>. QED  BY <4>2, <4>3, <4>4, <4>5, <5>1, <1>1
      <4>6. CASE x # t
        <5>1. Extra(e) = Extra(d) /\ Extra(d) \in Nat
          BY <4>6
        <5>. HIDE DEF Extra
        <5>. QED  BY <4>1, <4>2, <4>3, <4>4, <4>6, <5>1, <1>1
      <4>. QED  BY <4>5, <4>6
    <3>. QED  BY <3>1, <3>2
  <2>. QED  BY <2>1, <1>9
<1>10. N \in T
  <2>. HIDE DEF T
  <2>. QED  BY <1>4, <1>8, <1>9, ByCounting
<1>11. gs[S] = fs[S] + c
  BY <1>4, <1>10
<1>. QED  BY <1>2, <1>3, <1>11

\* Nothing charged adds up to nothing.
LEMMA TotalOfNothing ==
    ASSUME NEW S, IsFiniteSet(S)
    PROVE  Total([x \in S |-> 0]) = 0
<1>. DEFINE f == [x \in S |-> 0]
            N == Cardinality(S)
<1>1. PICK fs \in [SUBSET S -> Nat] : Sums(f, fs) /\ Total(f) = fs[S]
  BY SumsExist
<1>. DEFINE T == {m \in 0..N : \A d \in SUBSET S : Cardinality(d) <= m => fs[d] = 0}
<1>4. N \in Nat /\ \A d \in SUBSET S : IsFiniteSet(d) /\ Cardinality(d) \in 0..N
  BY FS_CardinalityType, FS_Subset
<1>5. \A d \in SUBSET S : Cardinality(d) = 0 <=> d = {}
  BY <1>4, FS_EmptySet
<1>6. \A d \in SUBSET S : d # {} => /\ d \ {CHOOSE x \in d : TRUE} \in SUBSET S
                                    /\ Cardinality(d \ {CHOOSE x \in d : TRUE}) = Cardinality(d) - 1
  BY <1>4, FS_RemoveElement
<1>. HIDE DEF N
<1>7. /\ fs[{}] = 0
      /\ \A d \in SUBSET S : d # {} => fs[d] = 0 + fs[d \ {CHOOSE x \in d : TRUE}]
  BY <1>1 DEF Sums
<1>. HIDE DEF f
<1>8. 0 \in T
  <2>1. \A d \in SUBSET S : Cardinality(d) <= 0 => d = {}
    BY <1>4, <1>5
  <2>2. 0 \in 0..N
    BY <1>4
  <2>. QED  BY <2>1, <2>2, <1>7
<1>9. ASSUME NEW m \in 0..N, m > 0, m - 1 \in T
      PROVE  m \in T
  <2>1. ASSUME NEW d \in SUBSET S, Cardinality(d) <= m
        PROVE  fs[d] = 0
    <3>1. CASE d = {}
      BY <3>1, <1>7
    <3>2. CASE d # {}
      <4>1. fs[d \ {CHOOSE y \in d : TRUE}] = 0
        BY <3>2, <2>1, <1>4, <1>6, <1>9
      <4>. QED  BY <3>2, <4>1, <1>7
    <3>. QED  BY <3>1, <3>2
  <2>. QED  BY <2>1, <1>9
<1>10. N \in T
  <2>. HIDE DEF T
  <2>. QED  BY <1>4, <1>8, <1>9, ByCounting
<1>. QED  BY <1>1, <1>4, <1>10 DEF f

LEMMA TargetSizes == TargetChars \in Nat /\ OverlapChars \in Nat
BY TextAssumption

\* What Chars adds up, paragraph by paragraph.
LEMMA CharsScans ==
    ASSUME NEW t \in Seq(Nat), NEW p \in Seq(DOMAIN t)
    PROVE  \E scan : /\ scan[0] = 0
                     /\ \A k \in 1..Len(p) : scan[k] = scan[k - 1] + t[p[k]]
                     /\ \A k \in 0..Len(p) : scan[k] \in Nat
                     /\ Chars(t, p) = scan[Len(p)]
<1>. DEFINE n == Len(p)
            step == [k \in 1..n |-> [v \in Nat |-> v + t[p[k]]]]
            Body(h) == h = [d \in SUBSET DOMAIN p |->
                              IF d = {} THEN 0 ELSE h[d \ {Max(d)}] + t[p[Max(d)]]]
            answer == CHOOSE h : Body(h)
<1>1. n \in Nat /\ DOMAIN p = 1..n /\ \A k \in 1..n : t[p[k]] \in Nat
  OBVIOUS
<1>2. Chars(t, p) = answer[DOMAIN p]
  BY DEF Chars, FoldLeft, MapThenFoldSet
<1>. HIDE DEF n
<1>3. \A k \in 1..n, v \in Nat : step[k][v] = v + t[p[k]]
  OBVIOUS
<1>4. StepOn(n, Nat, 0, step)
  BY <1>1 DEF StepOn
<1>. HIDE DEF step
<1>5. Body(answer)
  <2>1. PICK h : LastFold(n, Nat, 0, step, h)
    BY <1>4, LastFoldExists
  <2>2. \A d \in SUBSET (1..n) : h[d] = IF d = {} THEN 0 ELSE h[d \ {Max(d)}] + t[p[Max(d)]]
    BY <1>3, <2>1 DEF LastFold
  <2>3. Body(h)
    BY <1>1, <2>1, <2>2 DEF LastFold
  <2>. QED  BY <2>3
<1>6. /\ answer[{}] = 0
      /\ \A d \in SUBSET (1..n) : d # {} => answer[d] = answer[d \ {Max(d)}] + t[p[Max(d)]]
  BY <1>1, <1>5
<1>. HIDE DEF answer
<1>7. TakesLast(n, Nat, 0, step, answer)
  <2>1. \A d \in SUBSET (1..n) : d # {} => Max(d) \in 1..n
    BY <1>1, MaxIsLast
  <2>. QED  BY <1>3, <1>6, <2>1 DEF TakesLast
<1>. DEFINE scan == [k \in 0..n |-> answer[1..k]]
<1>8. Scans(n, Nat, 0, step, scan)
  BY <1>4, <1>7, FoldScans
<1>9. scan[n] = answer[1..n]
  BY <1>1
<1>. HIDE DEF scan
<1>10. \A k \in 1..n : scan[k] = scan[k - 1] + t[p[k]]
  <2>1. \A k \in 1..n : k - 1 \in 0..n
    BY <1>1
  <2>. QED  BY <1>3, <1>8, <2>1 DEF Scans
<1>11. scan[0] = 0 /\ \A k \in 0..n : scan[k] \in Nat
  BY <1>8 DEF Scans
<1>. QED  BY <1>1, <1>2, <1>9, <1>10, <1>11 DEF n

LEMMA CharsFacts ==
    ASSUME NEW t \in Seq(Nat), NEW p \in Seq(DOMAIN t)
    PROVE  /\ Chars(t, p) \in Nat
           /\ p = <<>> => Chars(t, p) = 0
           /\ \A k \in DOMAIN t : Chars(t, Append(p, k)) = Chars(t, p) + t[k]
<1>1. PICK scan : /\ scan[0] = 0
                  /\ \A k \in 1..Len(p) : scan[k] = scan[k - 1] + t[p[k]]
                  /\ \A k \in 0..Len(p) : scan[k] \in Nat
                  /\ Chars(t, p) = scan[Len(p)]
  BY CharsScans
<1>2. ASSUME NEW k \in DOMAIN t
      PROVE  Chars(t, Append(p, k)) = Chars(t, p) + t[k]
  <2>. DEFINE q == Append(p, k)
              n == Len(p)
  <2>1. q \in Seq(DOMAIN t) /\ Len(q) = n + 1 /\ q[n + 1] = k /\ \A j \in 1..n : q[j] = p[j]
    OBVIOUS
  <2>. HIDE DEF q
  <2>2. PICK longer : /\ longer[0] = 0
                      /\ \A j \in 1..Len(q) : longer[j] = longer[j - 1] + t[q[j]]
                      /\ \A j \in 0..Len(q) : longer[j] \in Nat
                      /\ Chars(t, q) = longer[Len(q)]
    BY <2>1, CharsScans
  <2>. DEFINE T == {j \in 0..n : longer[j] = scan[j]}
  <2>3. n \in Nat
    OBVIOUS
  <2>4. 0 \in T
    BY <1>1, <2>2
  <2>. HIDE DEF n
  <2>5. ASSUME NEW j \in 0..n, j > 0, j - 1 \in T
        PROVE  j \in T
    <3>1. j \in 1..n /\ j \in 1..Len(p) /\ j \in 1..Len(q) /\ longer[j - 1] = scan[j - 1]
      BY <2>1, <2>3, <2>5 DEF n
    <3>2. longer[j] = longer[j - 1] + t[q[j]] /\ scan[j] = scan[j - 1] + t[p[j]] /\ q[j] = p[j]
      BY <1>1, <2>1, <2>2, <3>1
    <3>. QED  BY <3>1, <3>2
  <2>6. n \in T
    <3>1. 0..n \subseteq T
      <4>. HIDE DEF T
      <4>. QED  BY <2>3, <2>4, <2>5, ByCounting
    <3>. QED  BY <2>3, <3>1
  <2>7. longer[n + 1] = longer[n] + t[q[n + 1]]
    <3>1. n + 1 \in 1..Len(q) /\ (n + 1) - 1 = n
      BY <2>1, <2>3
    <3>. QED  BY <2>2, <3>1
  <2>. QED  BY <1>1, <2>1, <2>2, <2>3, <2>6, <2>7 DEF q, n
<1>3. Chars(t, p) \in Nat /\ (p = <<>> => Chars(t, p) = 0)
  BY <1>1
<1>. QED  BY <1>2, <1>3

-----------------------------------------------------------------------------
\* Chunks are stretches of the text.
Stretch(a, b) == [k \in 1..(b - a + 1) |-> a + k - 1]

LEMMA StretchFacts ==
    ASSUME NEW a \in Nat \ {0}, NEW b \in Nat, a <= b + 1
    PROVE  /\ Stretch(a, b) \in Seq(a..b)
           /\ Len(Stretch(a, b)) = b - a + 1
           /\ Append(Stretch(a, b), b + 1) = Stretch(a, b + 1)
           /\ a = b + 1 => Stretch(a, b) = <<>>
           /\ a <= b => /\ Stretch(a, b) # <<>>
                        /\ Stretch(a, b)[1] = a /\ Last(Stretch(a, b)) = b
                        /\ Front(Stretch(a, b)) = Stretch(a, b - 1)
           /\ \A s \in 1..(b - a + 2) :
                 SubSeq(Stretch(a, b), s, Len(Stretch(a, b))) = Stretch(a + s - 1, b)
<1>. DEFINE n == b - a + 1
<1>1. n \in Nat /\ \A k \in 1..n : a + k - 1 \in a..b
  OBVIOUS
<1>2. Stretch(a, b) \in Seq(a..b) /\ Len(Stretch(a, b)) = n
  BY <1>1 DEF Stretch
<1>3. Append(Stretch(a, b), b + 1) = Stretch(a, b + 1)
  <2>1. (b + 1) - a + 1 = n + 1
    OBVIOUS
  <2>2. Append(Stretch(a, b), b + 1) = [k \in 1..(n + 1) |-> IF k = n + 1 THEN b + 1 ELSE Stretch(a, b)[k]]
    BY <1>2
  <2>3. \A k \in 1..(n + 1) : (IF k = n + 1 THEN b + 1 ELSE Stretch(a, b)[k]) = a + k - 1
    BY <1>1 DEF Stretch
  <2>4. Stretch(a, b + 1) = [k \in 1..(n + 1) |-> a + k - 1]
    BY <2>1 DEF Stretch
  <2>. HIDE DEF n
  <2>. QED  BY <2>2, <2>3, <2>4
<1>4. a = b + 1 => Stretch(a, b) = <<>>
  BY <1>2
<1>5. ASSUME a <= b
      PROVE  /\ Stretch(a, b) # <<>>
             /\ Stretch(a, b)[1] = a /\ Last(Stretch(a, b)) = b
             /\ Front(Stretch(a, b)) = Stretch(a, b - 1)
  <2>1. n \in 1..n /\ 1 \in 1..n /\ n # 0
    BY <1>1, <1>5
  <2>2. Stretch(a, b)[1] = a /\ Stretch(a, b)[n] = b
    BY <2>1 DEF Stretch
  <2>3. Front(Stretch(a, b)) = [k \in 1..(n - 1) |-> Stretch(a, b)[k]]
    BY <1>1, <1>2 DEF Front
  <2>4. \A k \in 1..(n - 1) : Stretch(a, b)[k] = a + k - 1
    BY <1>1 DEF Stretch
  <2>5. Stretch(a, b - 1) = [k \in 1..(n - 1) |-> a + k - 1]
    <3>1. (b - 1) - a + 1 = n - 1
      OBVIOUS
    <3>. QED  BY <3>1 DEF Stretch
  <2>6. Len(Stretch(a, b)) # 0
    BY <1>2, <2>1
  <2>. HIDE DEF n
  <2>7. Front(Stretch(a, b)) = Stretch(a, b - 1)
    BY <2>3, <2>4, <2>5
  <2>8. Stretch(a, b) # <<>>
    BY <2>6
  <2>9. Last(Stretch(a, b)) = b
    BY <1>2, <2>2 DEF Last
  <2>. QED  BY <2>2, <2>7, <2>8, <2>9
<1>6. ASSUME NEW s \in 1..(b - a + 2)
      PROVE  SubSeq(Stretch(a, b), s, Len(Stretch(a, b))) = Stretch(a + s - 1, b)
  <2>1. SubSeq(Stretch(a, b), s, n) = [k \in 1..(n - s + 1) |-> Stretch(a, b)[k + s - 1]]
    BY <1>1, <1>2
  <2>2. \A k \in 1..(n - s + 1) : k + s - 1 \in 1..n /\ Stretch(a, b)[k + s - 1] = (a + s - 1) + k - 1
    BY <1>1 DEF Stretch
  <2>3. b - (a + s - 1) + 1 = n - s + 1
    OBVIOUS
  <2>4. Stretch(a + s - 1, b) = [k \in 1..(n - s + 1) |-> (a + s - 1) + k - 1]
    BY <2>3 DEF Stretch
  <2>. HIDE DEF n
  <2>. QED  BY <1>2, <2>1, <2>2, <2>4
<1>. HIDE DEF n
<1>7. b - a + 1 = n
  BY DEF n
<1>. QED  BY <1>2, <1>3, <1>4, <1>5, <1>6, <1>7

LEMMA AppendFacts ==
    ASSUME NEW T, NEW s \in Seq(T), NEW x \in T
    PROVE  /\ Append(s, x) \in Seq(T) \ {<<>>}
           /\ Len(s) \in Nat /\ Len(Append(s, x)) = Len(s) + 1
           /\ Append(s, x)[Len(s) + 1] = x
           /\ \A i \in 1..Len(s) : Append(s, x)[i] = s[i]
OBVIOUS

\* What of a full chunk opens the next one is a short end of it.
LEMMA OverlapFacts ==
    ASSUME NEW t \in Seq(Nat), NEW chunk \in Seq(DOMAIN t)
    PROVE  \E s \in 1..(Len(chunk) + 1) :
              /\ Overlap(t, chunk) = SubSeq(chunk, s, Len(chunk))
              /\ Chars(t, SubSeq(chunk, s, Len(chunk))) <= OverlapChars
<1>. DEFINE short == {s \in 1..(Len(chunk) + 1) : Chars(t, SubSeq(chunk, s, Len(chunk))) <= OverlapChars}
            first == CHOOSE s \in short : \A r \in short : s <= r
<1>1. Len(chunk) + 1 \in short
  <2>1. SubSeq(chunk, Len(chunk) + 1, Len(chunk)) = <<>>
    OBVIOUS
  <2>2. Chars(t, <<>>) = 0
    <3>1. <<>> \in Seq(DOMAIN t)
      OBVIOUS
    <3>. QED  BY <3>1, CharsFacts
  <2>3. Len(chunk) + 1 \in 1..(Len(chunk) + 1)
    OBVIOUS
  <2>4. Chars(t, SubSeq(chunk, Len(chunk) + 1, Len(chunk))) <= OverlapChars
    <3>. DEFINE end == SubSeq(chunk, Len(chunk) + 1, Len(chunk))
    <3>1. end = <<>>
      BY <2>1
    <3>. HIDE DEF end
    <3>2. Chars(t, end) <= OverlapChars
      BY <2>2, <3>1, TargetSizes
    <3>. QED  BY <3>2 DEF end
  <2>. QED  BY <2>3, <2>4
<1>2. short \in SUBSET Nat
  OBVIOUS
<1>3. Overlap(t, chunk) = SubSeq(chunk, first, Len(chunk))
  BY DEF Overlap
<1>4. \A s \in short : s \in 1..(Len(chunk) + 1) /\ Chars(t, SubSeq(chunk, s, Len(chunk))) <= OverlapChars
  OBVIOUS
<1>. HIDE DEF short
<1>5. first \in short
  <2>1. \E s \in short : \A r \in short : s <= r
    BY <1>1, <1>2, LeastNatural
  <2>. QED  BY <2>1
<1>. HIDE DEF first
<1>. QED  BY <1>3, <1>4, <1>5

LEMMA OverlapIsEnd ==
    ASSUME NEW t \in Seq(Nat), NEW a \in DOMAIN t, NEW b \in DOMAIN t, a <= b
    PROVE  \E c \in a..(b + 1) : /\ Overlap(t, Stretch(a, b)) = Stretch(c, b)
                                 /\ Chars(t, Stretch(c, b)) <= OverlapChars
<1>. DEFINE chunk == Stretch(a, b)
<1>1. a \in Nat \ {0} /\ b \in Nat /\ a <= b + 1 /\ a..b \subseteq DOMAIN t
  OBVIOUS
<1>2. /\ chunk \in Seq(a..b) /\ Len(chunk) = b - a + 1
      /\ \A s \in 1..(b - a + 2) : SubSeq(chunk, s, Len(chunk)) = Stretch(a + s - 1, b)
  BY <1>1, StretchFacts
<1>. HIDE DEF chunk
<1>3. chunk \in Seq(DOMAIN t)
  BY <1>1, <1>2
<1>4. PICK s \in 1..(Len(chunk) + 1) : /\ Overlap(t, chunk) = SubSeq(chunk, s, Len(chunk))
                                       /\ Chars(t, SubSeq(chunk, s, Len(chunk))) <= OverlapChars
  BY <1>3, OverlapFacts
<1>5. s \in 1..(b - a + 2)
  <2>1. Len(chunk) = b - a + 1
    BY <1>2
  <2>2. \A x, y \in Nat : y - x + 1 + 1 = y - x + 2
    OBVIOUS
  <2>. QED  BY <1>1, <2>1, <2>2
<1>6. SubSeq(chunk, s, Len(chunk)) = Stretch(a + s - 1, b)
  BY <1>2, <1>5
<1>7. a + s - 1 \in a..(b + 1)
  <2>1. \A x, y \in Nat : \A r \in 1..(y - x + 2) : x + r - 1 \in x..(y + 1)
    OBVIOUS
  <2>. QED  BY <1>1, <1>5, <2>1
<1>. QED  BY <1>4, <1>6, <1>7 DEF chunk

\* A chunk keeps to the target, or is an overlap and one paragraph.
FitsIn(t, c) == Chars(t, c) <= TargetChars \/ Chars(t, Front(c)) <= OverlapChars

IsStretch(t, c) == \E a \in DOMAIN t, b \in DOMAIN t : a <= b /\ c = Stretch(a, b)

\* The chunks cs read the first k paragraphs of t.
Covers(t, cs, k) ==
    /\ cs \in Seq(Seq(DOMAIN t)) \ {<<>>}
    /\ \A c \in 1..Len(cs) : IsStretch(t, cs[c]) /\ FitsIn(t, cs[c])
    /\ cs[1][1] = 1 /\ Last(cs[Len(cs)]) = k
    /\ \A c \in 2..Len(cs) : cs[c][1] <= Last(cs[c - 1]) + 1 /\ Last(cs[c - 1]) < Last(cs[c])

LEMMA StretchOfText ==
    ASSUME NEW t \in Seq(Nat), NEW a \in DOMAIN t, NEW b \in DOMAIN t, a <= b
    PROVE  Stretch(a, b) \in Seq(DOMAIN t) /\ Stretch(a, b)[1] = a /\ Last(Stretch(a, b)) = b
<1>1. a \in Nat \ {0} /\ b \in Nat /\ a <= b + 1 /\ a..b \subseteq DOMAIN t
  OBVIOUS
<1>2. Stretch(a, b) \in Seq(a..b) /\ Stretch(a, b)[1] = a /\ Last(Stretch(a, b)) = b
  BY <1>1, StretchFacts
<1>. QED  BY <1>1, <1>2

\* The chunks cs and the chunk c read the first k paragraphs.
LEMMA CoverStep ==
    ASSUME NEW t \in Seq(Nat), NEW k \in DOMAIN t, NEW cs \in Seq(Seq(DOMAIN t)),
           NEW b \in 1..k, FitsIn(t, Stretch(b, k)),
           \A i \in 1..Len(cs) : IsStretch(t, cs[i]) /\ FitsIn(t, cs[i]),
           cs = <<>> => b = 1,
           cs # <<>> => cs[1][1] = 1 /\ b <= Last(cs[Len(cs)]) + 1 /\ Last(cs[Len(cs)]) < k,
           \A i \in 2..Len(cs) : cs[i][1] <= Last(cs[i - 1]) + 1 /\ Last(cs[i - 1]) < Last(cs[i])
    PROVE  Covers(t, Append(cs, Stretch(b, k)), k)
<1>. DEFINE c == Stretch(b, k)
            more == Append(cs, c)
            n == Len(cs)
            Chunks == Seq(DOMAIN t)
<1>1. b \in DOMAIN t /\ b <= k
  OBVIOUS
<1>2. c \in Chunks /\ c[1] = b /\ Last(c) = k /\ IsStretch(t, c)
  BY <1>1, StretchOfText DEF IsStretch
<1>. HIDE DEF c
<1>3. cs \in Seq(Chunks) /\ (n = 0 <=> cs = <<>>)
  OBVIOUS
<1>. HIDE DEF Chunks
<1>4. /\ more \in Seq(Chunks) \ {<<>>} /\ Len(more) = n + 1 /\ more[n + 1] = c
      /\ n \in Nat /\ \A i \in 1..n : more[i] = cs[i]
  <2>. HIDE DEF n
  <2>1. n = Len(cs)
    BY DEF n
  <2>. QED  BY <1>2, <1>3, <2>1, AppendFacts
<1>. HIDE DEF more, n
<1>5. ASSUME NEW i \in 1..(n + 1)
      PROVE  IsStretch(t, more[i]) /\ FitsIn(t, more[i])
  <2>1. i = n + 1 \/ i \in 1..n
    BY <1>4
  <2>. QED  BY <1>2, <1>4, <2>1 DEF n, c
<1>6. more[1][1] = 1 /\ Last(more[n + 1]) = k
  <2>1. CASE n = 0
    BY <1>2, <1>3, <1>4, <2>1
  <2>2. CASE n # 0
    <3>1. 1 \in 1..n
      BY <1>4, <2>2
    <3>. QED  BY <1>2, <1>3, <1>4, <2>2, <3>1
  <2>. QED  BY <2>1, <2>2
<1>7. ASSUME NEW i \in 2..(n + 1)
      PROVE  more[i][1] <= Last(more[i - 1]) + 1 /\ Last(more[i - 1]) < Last(more[i])
  <2>0. i - 1 \in 1..n
    BY <1>4
  <2>1. CASE i = n + 1
    <3>1. more[i - 1] = cs[n] /\ more[i] = c /\ n # 0
      BY <1>4, <2>0, <2>1
    <3>. QED  BY <1>2, <1>3, <3>1 DEF n
  <2>2. CASE i # n + 1
    <3>1. i \in 2..n /\ i \in 1..n /\ more[i] = cs[i] /\ more[i - 1] = cs[i - 1]
      BY <1>4, <2>0, <2>2
    <3>. QED  BY <3>1 DEF n
  <2>. QED  BY <2>1, <2>2
<1>. QED  BY <1>4, <1>5, <1>6, <1>7 DEF Covers, more, c, Chunks

\* Another chunk goes on where the last one ended, or before.
LEMMA CoverByOneMore ==
    ASSUME NEW t \in Seq(Nat), NEW k \in DOMAIN t, NEW cs, Covers(t, cs, k - 1),
           NEW b \in 1..k, FitsIn(t, Stretch(b, k))
    PROVE  Covers(t, Append(cs, Stretch(b, k)), k)
<1>1. cs \in Seq(Seq(DOMAIN t)) /\ cs # <<>>
  BY DEF Covers
<1>2. cs[1][1] = 1 /\ b <= Last(cs[Len(cs)]) + 1 /\ Last(cs[Len(cs)]) < k
  BY DEF Covers
<1>3. /\ \A i \in 1..Len(cs) : IsStretch(t, cs[i]) /\ FitsIn(t, cs[i])
      /\ \A i \in 2..Len(cs) : cs[i][1] <= Last(cs[i - 1]) + 1 /\ Last(cs[i - 1]) < Last(cs[i])
  BY DEF Covers
<1>. QED  BY <1>1, <1>2, <1>3, CoverStep

\* The last chunk goes on by one paragraph.
LEMMA CoverByLonger ==
    ASSUME NEW t \in Seq(Nat), NEW k \in DOMAIN t, k > 1, NEW full \in Seq(Seq(DOMAIN t)),
           NEW a \in 1..(k - 1), Covers(t, Append(full, Stretch(a, k - 1)), k - 1),
           FitsIn(t, Stretch(a, k))
    PROVE  Covers(t, Append(full, Stretch(a, k)), k)
<1>. DEFINE o == Stretch(a, k - 1)
            cs == Append(full, o)
            n == Len(full)
            Chunks == Seq(DOMAIN t)
<1>1. a \in DOMAIN t /\ k - 1 \in DOMAIN t /\ a <= k - 1 /\ a \in 1..k
  OBVIOUS
<1>2. o \in Chunks /\ o[1] = a /\ Last(o) = k - 1
  BY <1>1, StretchOfText
<1>3. Covers(t, cs, k - 1)
  OBVIOUS
<1>. HIDE DEF o
<1>4. full \in Seq(Chunks) /\ (n = 0 <=> full = <<>>)
  OBVIOUS
<1>. HIDE DEF Chunks
<1>5. Len(cs) = n + 1 /\ cs[n + 1] = o /\ n \in Nat /\ \A i \in 1..n : cs[i] = full[i]
  BY <1>2, <1>4, AppendFacts
<1>. HIDE DEF cs, n
<1>6. /\ \A i \in 1..(n + 1) : IsStretch(t, cs[i]) /\ FitsIn(t, cs[i])
      /\ cs[1][1] = 1
      /\ \A i \in 2..(n + 1) : cs[i][1] <= Last(cs[i - 1]) + 1 /\ Last(cs[i - 1]) < Last(cs[i])
  BY <1>3, <1>5 DEF Covers
<1>7. ASSUME NEW i \in 1..n
      PROVE  i \in 1..(n + 1) /\ full[i] = cs[i] /\ (i # 1 => i - 1 \in 1..n /\ full[i - 1] = cs[i - 1])
  BY <1>5
<1>8. full = <<>> => a = 1
  BY <1>2, <1>4, <1>5, <1>6
<1>9. ASSUME full # <<>>
      PROVE  full[1][1] = 1 /\ a <= Last(full[n]) + 1 /\ Last(full[n]) < k
  <2>1. 1 \in 1..n /\ n \in 1..n /\ n + 1 \in 2..(n + 1) /\ (n + 1) - 1 = n
    BY <1>4, <1>5, <1>9
  <2>2. IsStretch(t, cs[n]) /\ cs[n + 1][1] <= Last(cs[n]) + 1 /\ Last(cs[n]) < Last(cs[n + 1])
    BY <1>6, <1>7, <2>1
  <2>3. Last(cs[n]) \in Nat
    <3>1. PICK x \in DOMAIN t, y \in DOMAIN t : x <= y /\ cs[n] = Stretch(x, y)
      BY <2>2 DEF IsStretch
    <3>. QED  BY <3>1, StretchOfText
  <2>4. full[1] = cs[1] /\ full[n] = cs[n]
    BY <1>7, <2>1
  <2>. QED  BY <1>2, <1>5, <1>6, <2>2, <2>3, <2>4, SMTT(30)
<1>10. \A i \in 1..n : IsStretch(t, full[i]) /\ FitsIn(t, full[i])
  BY <1>6, <1>7
<1>11. ASSUME NEW i \in 2..n
       PROVE  full[i][1] <= Last(full[i - 1]) + 1 /\ Last(full[i - 1]) < Last(full[i])
  <2>1. i \in 1..n /\ i # 1 /\ i \in 2..(n + 1)
    BY <1>5
  <2>. QED  BY <1>6, <1>7, <2>1
<1>. QED  BY <1>1, <1>8, <1>9, <1>10, <1>11, CoverStep DEF n

\* A paragraph more: what ChunkText's Add does.
AddTo(t, acc, k) ==
    IF acc.current # <<>> /\ acc.size + t[k] + 2 > TargetChars
    THEN [full    |-> Append(acc.full, acc.current),
          current |-> Append(Overlap(t, acc.current), k),
          size    |-> Chars(t, Overlap(t, acc.current)) + t[k] + 2]
    ELSE [acc EXCEPT !.current = Append(@, k), !.size = @ + t[k] + 2]

NoChunk == [full |-> <<>>, current |-> <<>>, size |-> 0]
Chunkings(t) == [full : Seq(Seq(DOMAIN t)), current : Seq(DOMAIN t), size : Nat]

LEMMA AddToType ==
    ASSUME NEW t \in Seq(Nat), NEW acc \in Chunkings(t), NEW k \in DOMAIN t
    PROVE  AddTo(t, acc, k) \in Chunkings(t)
<1>. DEFINE Chunk == Seq(DOMAIN t)
            tail == Overlap(t, acc.current)
<1>1. t[k] \in Nat
  OBVIOUS
<1>2. tail \in Chunk
  <2>1. acc.current \in Chunk
    BY DEF Chunkings
  <2>2. PICK s \in 1..(Len(acc.current) + 1) : tail = SubSeq(acc.current, s, Len(acc.current))
    BY <2>1, OverlapFacts
  <2>. QED  BY <2>1, <2>2, SMTT(30)
<1>3. Chars(t, tail) \in Nat
  BY <1>2, CharsFacts
<1>. HIDE DEF tail
<1>4. acc.full \in Seq(Chunk) /\ acc.current \in Chunk /\ acc.size \in Nat
  BY DEF Chunkings
<1>5. Append(tail, k) \in Chunk /\ Append(acc.current, k) \in Chunk
  BY <1>2, <1>4
<1>. HIDE DEF Chunk
<1>6. Append(acc.full, acc.current) \in Seq(Chunk)
  BY <1>4, AppendFacts
<1>7. [full    |-> Append(acc.full, acc.current),
       current |-> Append(tail, k),
       size    |-> Chars(t, tail) + t[k] + 2] \in [full : Seq(Chunk), current : Chunk, size : Nat]
  BY <1>1, <1>3, <1>5, <1>6
<1>8. [acc EXCEPT !.current = Append(@, k), !.size = @ + t[k] + 2]
          \in [full : Seq(Chunk), current : Chunk, size : Nat]
  <2>1. acc \in [full : Seq(Chunk), current : Chunk, size : Nat]
    BY DEF Chunkings, Chunk
  <2>2. acc.size + t[k] + 2 \in Nat
    BY <1>1, <1>4
  <2>. QED  BY <1>5, <2>1, <2>2
<1>. QED  BY <1>7, <1>8 DEF AddTo, Chunkings, Chunk, tail

\* How far ChunkText is after k paragraphs.
ChunkedUpto(t, acc, k) ==
    /\ acc \in Chunkings(t)
    /\ k = 0 => acc = NoChunk
    /\ k > 0 => /\ \E a \in 1..k : acc.current = Stretch(a, k)
                /\ Chars(t, acc.current) <= acc.size
                /\ Covers(t, Append(acc.full, acc.current), k)

LEMMA AddToCovers ==
    ASSUME NEW t \in Seq(Nat), NEW k \in DOMAIN t, NEW acc, ChunkedUpto(t, acc, k - 1)
    PROVE  ChunkedUpto(t, AddTo(t, acc, k), k)
<1>. DEFINE next == AddTo(t, acc, k)
            Chunk == Seq(DOMAIN t)
<1>1. k \in Nat /\ k > 0 /\ t[k] \in Nat /\ acc \in Chunkings(t)
  BY DEF ChunkedUpto
<1>2. next \in Chunkings(t)
  BY <1>1, AddToType
<1>3. acc.full \in Seq(Chunk) /\ acc.current \in Chunk /\ acc.size \in Nat
  BY <1>1 DEF Chunkings
<1>4. /\ \E a \in 1..k : next.current = Stretch(a, k)
      /\ Chars(t, next.current) <= next.size
      /\ Covers(t, Append(next.full, next.current), k)
  <2>1. CASE k = 1
    <3>1. acc = NoChunk
      BY <2>1 DEF ChunkedUpto
    <3>2. next = [NoChunk EXCEPT !.current = Append(@, k), !.size = @ + t[k] + 2]
      BY <3>1 DEF AddTo, NoChunk
    <3>3. next.full = <<>> /\ next.current = Append(<<>>, 1) /\ next.size = 0 + t[1] + 2
      BY <2>1, <3>2 DEF NoChunk
    <3>4. Append(<<>>, 1) = Stretch(1, 1) /\ Front(Stretch(1, 1)) = <<>>
      <4>1. 1 \in Nat \ {0} /\ 0 \in Nat /\ 1 <= 0 + 1 /\ 1 = 0 + 1 /\ 1 <= 1 /\ 1 <= 1 + 1
            /\ 1 - 1 = 0
        OBVIOUS
      <4>2. Stretch(1, 0) = <<>> /\ Append(Stretch(1, 0), 0 + 1) = Stretch(1, 0 + 1)
        BY <4>1, StretchFacts
      <4>3. Front(Stretch(1, 1)) = Stretch(1, 1 - 1)
        BY <4>1, StretchFacts
      <4>. QED  BY <4>1, <4>2, <4>3
    <3>5. <<>> \in Chunk /\ Chars(t, <<>>) = 0 /\ Chars(t, Append(<<>>, 1)) = 0 + t[1]
      <4>1. <<>> \in Chunk /\ 1 \in DOMAIN t
        BY <2>1
      <4>. QED  BY <4>1, CharsFacts
    <3>6. FitsIn(t, Stretch(1, 1))
      BY <3>4, <3>5, TargetSizes DEF FitsIn
    <3>7. Covers(t, Append(<<>>, Stretch(1, 1)), 1)
      <4>1. 1 \in DOMAIN t /\ 1 \in 1..1 /\ <<>> \in Seq(Seq(DOMAIN t)) /\ Len(<<>>) = 0
        BY <2>1
      <4>2. 1..0 = {} /\ 2..0 = {}
        OBVIOUS
      <4>. QED  BY <3>6, <4>1, <4>2, CoverStep
    <3>8. Chars(t, next.current) <= next.size
      BY <1>1, <2>1, <3>3, <3>5
    <3>9. 1 \in 1..k /\ next.current = Stretch(1, k)
      BY <2>1, <3>3, <3>4
    <3>10. Covers(t, Append(next.full, next.current), k)
      BY <2>1, <3>3, <3>4, <3>7
    <3>. HIDE DEF next
    <3>. QED  BY <3>8, <3>9, <3>10
  <2>2. CASE k > 1
    <3>1. PICK a \in 1..(k - 1) : acc.current = Stretch(a, k - 1)
      BY <1>1, <2>2 DEF ChunkedUpto
    <3>2. Chars(t, acc.current) <= acc.size /\ Covers(t, Append(acc.full, acc.current), k - 1)
      BY <1>1, <2>2 DEF ChunkedUpto
    <3>3. /\ a \in DOMAIN t /\ k - 1 \in DOMAIN t /\ a <= k - 1
          /\ a \in Nat \ {0} /\ k - 1 \in Nat /\ (k - 1) + 1 = k /\ k \in DOMAIN t
      BY <1>1
    <3>4. acc.current # <<>> /\ Append(acc.current, k) = Stretch(a, k)
      <4>1. a <= (k - 1) + 1
        BY <3>3
      <4>2. Stretch(a, k - 1) # <<>>
        BY <3>3, <4>1, StretchFacts
      <4>3. Append(Stretch(a, k - 1), (k - 1) + 1) = Stretch(a, (k - 1) + 1)
        BY <3>3, <4>1, StretchFacts
      <4>. QED  BY <3>1, <3>3, <4>2, <4>3
    <3>5. /\ Chars(t, acc.current) \in Nat
          /\ Chars(t, Append(acc.current, k)) = Chars(t, acc.current) + t[k]
      BY <1>3, CharsFacts
    <3>6. CASE acc.size + t[k] + 2 > TargetChars
      <4>1. PICK c \in a..k : /\ Overlap(t, acc.current) = Stretch(c, k - 1)
                              /\ Chars(t, Stretch(c, k - 1)) <= OverlapChars
        BY <3>1, <3>3, OverlapIsEnd
      <4>2. c \in 1..k /\ c \in Nat \ {0} /\ c <= (k - 1) + 1
        BY <1>1, <3>3
      <4>3. /\ Append(Stretch(c, k - 1), k) = Stretch(c, k)
            /\ Front(Stretch(c, k)) = Stretch(c, k - 1)
        <5>1. Append(Stretch(c, k - 1), (k - 1) + 1) = Stretch(c, (k - 1) + 1)
          BY <3>3, <4>2, StretchFacts
        <5>2. c <= k /\ c <= k + 1
          BY <4>2, <3>3
        <5>3. Front(Stretch(c, k)) = Stretch(c, k - 1)
          BY <1>1, <4>2, <5>2, StretchFacts
        <5>. QED  BY <3>3, <5>1, <5>3
      <4>4. /\ next.full = Append(acc.full, acc.current) /\ next.current = Stretch(c, k)
            /\ next.size = Chars(t, Stretch(c, k - 1)) + t[k] + 2
        BY <3>4, <3>6, <4>1, <4>3 DEF AddTo
      <4>5. /\ Stretch(c, k - 1) \in Chunk /\ Chars(t, Stretch(c, k - 1)) \in Nat
            /\ Chars(t, Stretch(c, k)) = Chars(t, Stretch(c, k - 1)) + t[k]
        <5>1. Stretch(c, k - 1) \in Seq(c..(k - 1))
          BY <3>3, <4>2, StretchFacts
        <5>2. c..(k - 1) \subseteq DOMAIN t
          BY <3>3, <4>2
        <5>3. Stretch(c, k - 1) \in Chunk
          BY <5>1, <5>2
        <5>. QED  BY <4>3, <5>3, CharsFacts
      <4>6. FitsIn(t, Stretch(c, k))
        BY <4>1, <4>3 DEF FitsIn
      <4>7. Covers(t, Append(next.full, next.current), k)
        BY <3>2, <4>2, <4>4, <4>6, CoverByOneMore
      <4>8. Chars(t, next.current) <= next.size
        BY <1>1, <4>4, <4>5
      <4>. QED  BY <4>2, <4>4, <4>7, <4>8
    <3>7. CASE acc.size + t[k] + 2 <= TargetChars
      <4>1. next = [acc EXCEPT !.current = Append(@, k), !.size = @ + t[k] + 2]
        <5>1. ~(acc.size + t[k] + 2 > TargetChars)
          BY <1>1, <1>3, <3>7, TargetSizes, SMTT(30)
        <5>. QED  BY <5>1 DEF AddTo
      <4>2. next.full = acc.full /\ next.current = Stretch(a, k) /\ next.size = acc.size + t[k] + 2
        BY <1>1, <3>4, <4>1 DEF Chunkings
      <4>3. Chars(t, Stretch(a, k)) <= acc.size + t[k] + 2 /\ Chars(t, Stretch(a, k)) <= TargetChars
        <5>1. acc.size \in Nat
          BY <1>3
        <5>2. Chars(t, acc.current) <= acc.size
          BY <3>2
        <5>. HIDE DEF Chunk
        <5>. QED  BY <1>1, <3>4, <3>5, <3>7, <5>1, <5>2, TargetSizes, SMTT(30)
      <4>4. FitsIn(t, Stretch(a, k))
        BY <4>3 DEF FitsIn
      <4>5. Covers(t, Append(next.full, next.current), k)
        BY <1>3, <2>2, <3>1, <3>2, <4>2, <4>4, CoverByLonger
      <4>6. a \in 1..k
        BY <3>3
      <4>7. Chars(t, next.current) <= next.size
        BY <4>2, <4>3
      <4>. QED  BY <4>2, <4>5, <4>6, <4>7
    <3>8. acc.size + t[k] + 2 > TargetChars \/ acc.size + t[k] + 2 <= TargetChars
      <4>1. acc.size \in Nat
        BY <1>3
      <4>. HIDE DEF Chunk
      <4>. QED  BY <1>1, <4>1, TargetSizes
    <3>. QED  BY <3>6, <3>7, <3>8
  <2>. QED  BY <1>1, <2>1, <2>2
<1>. QED  BY <1>1, <1>2, <1>4 DEF ChunkedUpto

\* ChunkText reads the whole text (chunk_text of progressive_extractor.py).
LEMMA ChunkTextCovers ==
    ASSUME NEW t \in Seq(Nat), t # <<>>
    PROVE  Covers(t, ChunkText(t), Len(t))
<1>. DEFINE n == Len(t)
            all == [k \in DOMAIN t |-> k]
            step == [k \in 1..n |-> [acc \in Chunkings(t) |-> AddTo(t, acc, k)]]
            Body(h) == h = [d \in SUBSET DOMAIN all |->
                              IF d = {} THEN NoChunk ELSE AddTo(t, h[d \ {Max(d)}], all[Max(d)])]
            answer == CHOOSE h : Body(h)
            result == answer[DOMAIN all]
<1>1. n \in Nat \ {0} /\ DOMAIN t = 1..n /\ DOMAIN all = 1..n /\ \A k \in 1..n : all[k] = k
  OBVIOUS
<1>2. ChunkText(t) = IF Chars(t, all) + 2 * (Len(t) - 1) <= TargetChars
                     THEN <<all>> ELSE Append(result.full, result.current)
  BY DEF ChunkText, FoldLeft, MapThenFoldSet, AddTo, NoChunk
<1>. HIDE DEF n
<1>3. \A k \in 1..n, acc \in Chunkings(t) : step[k][acc] = AddTo(t, acc, k)
  OBVIOUS
<1>4. StepOn(n, Chunkings(t), NoChunk, step)
  <2>1. NoChunk \in Chunkings(t)
    BY DEF NoChunk, Chunkings
  <2>2. \A k \in 1..n, acc \in Chunkings(t) : AddTo(t, acc, k) \in Chunkings(t)
    BY <1>1, AddToType
  <2>3. step \in [1..n -> [Chunkings(t) -> Chunkings(t)]]
    BY <2>2
  <2>. QED  BY <1>1, <2>1, <2>3 DEF StepOn
<1>. HIDE DEF step
<1>5. \A d \in SUBSET (1..n) : d # {} => Max(d) \in 1..n
  BY <1>1, MaxIsLast
<1>6. Body(answer)
  <2>1. PICK h : LastFold(n, Chunkings(t), NoChunk, step, h)
    BY <1>4, LastFoldExists
  <2>2. \A d \in SUBSET (1..n) : h[d] = IF d = {} THEN NoChunk ELSE AddTo(t, h[d \ {Max(d)}], all[Max(d)])
    <3>. HIDE DEF all
    <3>. QED  BY <1>1, <1>3, <1>5, <2>1 DEF LastFold
  <2>3. Body(h)
    <3>1. h \in [SUBSET (1..n) -> Chunkings(t)]
      BY <2>1 DEF LastFold
    <3>. HIDE DEF all
    <3>. QED  BY <1>1, <2>2, <3>1
  <2>. QED  BY <2>3
<1>. HIDE DEF all
<1>7. /\ answer[{}] = NoChunk
      /\ \A d \in SUBSET (1..n) : d # {} => answer[d] = AddTo(t, answer[d \ {Max(d)}], all[Max(d)])
  BY <1>1, <1>6
<1>. HIDE DEF answer
<1>8. TakesLast(n, Chunkings(t), NoChunk, step, answer)
  <2>1. \A d \in SUBSET (1..n) : d # {} => answer[d] = AddTo(t, answer[d \ {Max(d)}], Max(d))
    BY <1>1, <1>5, <1>7
  <2>. QED  BY <1>3, <1>5, <1>7, <2>1 DEF TakesLast
<1>. DEFINE scan == [k \in 0..n |-> answer[1..k]]
<1>9. Scans(n, Chunkings(t), NoChunk, step, scan)
  BY <1>4, <1>8, FoldScans
<1>10. scan[n] = answer[1..n]
  BY <1>1
<1>. HIDE DEF scan
<1>. DEFINE T == {k \in 0..n : ChunkedUpto(t, scan[k], k)}
<1>11. 0 \in T
  BY <1>1, <1>9 DEF Scans, ChunkedUpto
<1>12. ASSUME NEW k \in 0..n, k > 0, k - 1 \in T
       PROVE  k \in T
  <2>1. k \in DOMAIN t /\ k \in 1..n /\ k - 1 \in 0..n
    BY <1>1, <1>12
  <2>2. scan[k] = AddTo(t, scan[k - 1], k)
    BY <1>3, <1>9, <2>1 DEF Scans
  <2>. QED  BY <1>12, <2>1, <2>2, AddToCovers
<1>13. n \in T
  <2>1. 0..n \subseteq T
    <3>. HIDE DEF T
    <3>. QED  BY <1>1, <1>11, <1>12, ByCounting
  <2>. QED  BY <1>1, <2>1
<1>14. Covers(t, Append(result.full, result.current), n)
  BY <1>1, <1>10, <1>13 DEF ChunkedUpto
<1>15. ASSUME Chars(t, all) + 2 * (Len(t) - 1) <= TargetChars
       PROVE  Covers(t, <<all>>, n)
  <2>1. all = Stretch(1, n)
    <3>1. n - 1 + 1 = n /\ \A k \in 1..n : 1 + k - 1 = k
      BY <1>1
    <3>. QED  BY <1>1, <3>1 DEF all, Stretch
  <2>2. 1 \in DOMAIN t /\ n \in DOMAIN t /\ 1 <= n /\ 1 \in 1..n
    BY <1>1
  <2>3. all \in Seq(DOMAIN t)
    BY <2>1, <2>2, StretchOfText
  <2>4. FitsIn(t, Stretch(1, n))
    <3>1. Chars(t, all) \in Nat
      BY <2>3, CharsFacts
    <3>. QED  BY <1>1, <1>15, <2>1, <3>1, TargetSizes DEF FitsIn, n
  <2>5. Covers(t, Append(<<>>, Stretch(1, n)), n)
    <3>1. <<>> \in Seq(Seq(DOMAIN t)) /\ Len(<<>>) = 0 /\ 1..0 = {} /\ 2..0 = {}
      OBVIOUS
    <3>. QED  BY <2>2, <2>4, <3>1, CoverStep
  <2>. QED  BY <2>1, <2>5
<1>. QED  BY <1>2, <1>14, <1>15 DEF n

-----------------------------------------------------------------------------
\* The chunks are those of the text for as long as the run lasts.
ChunksRead == text \in Seq(Nat) \ {<<>>} /\ Covers(text, chunks, Len(text))

LEMMA ChunksInit == Init => ChunksRead
<1>. SUFFICES ASSUME Init PROVE ChunksRead
  OBVIOUS
<1>1. text \in Seq(Nat) \ {<<>>} /\ chunks = ChunkText(text)
  BY TextAssumption DEF Init
<1>. QED  BY <1>1, ChunkTextCovers DEF ChunksRead

LEMMA ChunksNext == ChunksRead /\ [Next]_vars => ChunksRead'
<1>1. [Next]_vars => UNCHANGED <<text, chunks>>
  BY DEF vars, Next, ReadChunk, MergeChunks, MapEvent, EndPass2, RefineEntity, NextAssertion,
         EndPass3, PassRaises, ResolveAnaphors, MergeBatch, ApplyNormalization, LosePass4,
         BeginSubmit, SubmitCandidate, EndSubmit
<1>. QED  BY <1>1 DEF ChunksRead

LEMMA CoversAll == ChunksRead => ChunksCoverText
<1>. SUFFICES ASSUME ChunksRead PROVE ChunksCoverText
  OBVIOUS
<1>1. /\ Covers(text, chunks, Len(text)) /\ text \in Seq(Nat)
      /\ chunks \in Seq(Seq(DOMAIN text)) /\ Len(chunks) \in Nat \ {0} /\ DOMAIN chunks = 1..Len(chunks)
  BY DEF ChunksRead, Covers
<1>2. chunks[1][1] = 1 /\ Last(chunks[Len(chunks)]) = Len(text)
  BY <1>1 DEF Covers
<1>3. ASSUME NEW c \in DOMAIN chunks
      PROVE  /\ chunks[c] = [k \in 1..Len(chunks[c]) |-> chunks[c][1] + k - 1]
             /\ FitsIn(text, chunks[c])
  <2>1. PICK a \in DOMAIN text, b \in DOMAIN text : a <= b /\ chunks[c] = Stretch(a, b)
    BY <1>1 DEF Covers, IsStretch
  <2>2. a \in Nat \ {0} /\ b \in Nat /\ a <= b + 1
    BY <1>1, <2>1
  <2>3. Len(Stretch(a, b)) = b - a + 1 /\ Stretch(a, b)[1] = a
    BY <2>1, <2>2, StretchFacts
  <2>4. FitsIn(text, chunks[c])
    BY <1>1 DEF Covers
  <2>. QED  BY <2>1, <2>3, <2>4 DEF Stretch
<1>4. \A c \in 2..Len(chunks) : /\ chunks[c][1] <= Last(chunks[c - 1]) + 1
                                /\ Last(chunks[c - 1]) < Last(chunks[c])
  BY <1>1 DEF Covers
<1>. QED  BY <1>2, <1>3, <1>4 DEF ChunksCoverText, FitsIn

\* Every paragraph is read, and no chunk is larger than its overlap and one
\* paragraph make it (chunk_text of progressive_extractor.py).
THEOREM TextIsCovered == Spec => []ChunksCoverText
BY ChunksInit, ChunksNext, CoversAll, PTL DEF Spec

-----------------------------------------------------------------------------
\* Types of the accounts: charges per trace and costs per pass.
Accounts ==
    /\ chunks \in Seq(Seq(Nat)) \ {<<>>}
    /\ spent \in [Traces -> Nat]
    /\ cost \in [1..4 -> Nat]

\* Pass 4 has returned only once the report is there.
KeptInReport == kept => phase \in {"report", "submit", "done"}

\* The inductive invariant: types, the bound of every trace, Pass 4's report.
SpendInv == Accounts /\ SpendWithinBudget /\ Pass4CostReported /\ KeptInReport

\* What a step does to the accounts when it calls an LLM, pass by pass: the
\* budget given is that of one pass charged to the trace, or less.
Call(trace, pass) ==
    \E share \in Shares(trace), less \in Nat : Answered(trace, share - less, pass)

\* The budget shares are integers and the traces the ones listed.
LEMMA SharesAreNumbers ==
    ASSUME Accounts, NEW t \in Traces
    PROVE  Shares(t) \subseteq Nat
<1>1. Budget[1] \div Len(chunks) \in Nat
  <2>1. Len(chunks) \in Nat \ {0}
    BY DEF Accounts
  <2>2. Budget[1] \in Nat
    BY CostAssumption
  <2>. QED  BY <2>1, <2>2
<1>2. {Budget[2], Budget[3], Budget[4]} \subseteq Nat
  BY CostAssumption
<1>. QED  BY <1>1, <1>2 DEF Shares

\* One call keeps the types of the accounts and the bound of every trace.
LEMMA CallKeepsBound ==
    ASSUME Accounts, SpendWithinBudget, UNCHANGED chunks,
           NEW t \in Traces, NEW pass \in 1..4, Call(t, pass)
    PROVE  Accounts' /\ SpendWithinBudget'
<1>1. PICK share \in Shares(t), less \in Nat : Answered(t, share - less, pass)
  BY DEF Call
<1>2. PICK c \in Costs : /\ Charged(t, share - less, c)
                         /\ cost' = [cost EXCEPT ![pass] = @ + c]
  BY <1>1 DEF Answered, Bill
<1>3. c \in Nat /\ share \in Nat
  BY CostAssumption, SharesAreNumbers
<1>4. Traces' = Traces /\ \A u : Shares(u)' = Shares(u)
  BY DEF Traces, Shares
<1>5. Accounts'
  <2>1. spent' \in [Traces -> Nat]
    BY <1>2, <1>3 DEF Charged, Accounts
  <2>2. cost' \in [1..4 -> Nat]
    <3>1. cost \in [1..4 -> Nat]
      BY DEF Accounts
    <3>2. \A x \in Nat : x + c \in Nat
      BY <1>3
    <3>. QED  BY <1>2, <3>1, <3>2
  <2>. QED  BY <1>4, <2>1, <2>2 DEF Accounts
<1>6. spent'[t] < share + c
  BY <1>2, <1>3 DEF Charged, Accounts
<1>7. \A u \in Traces : u # t => spent'[u] = spent[u]
  BY <1>2 DEF Charged, Accounts
<1>8. ASSUME NEW u \in Traces
      PROVE  spent'[u] = 0 \/ \E d \in Costs, s \in Shares(u) : spent'[u] < s + d
  <2>1. CASE u = t
    BY <2>1, <1>6
  <2>2. CASE u # t
    BY <2>2, <1>7 DEF SpendWithinBudget
  <2>. QED  BY <2>1, <2>2
<1>. QED  BY <1>4, <1>5, <1>8 DEF SpendWithinBudget

\* A step that makes no call keeps both.
LEMMA QuietKeepsBound ==
    ASSUME Accounts, SpendWithinBudget, UNCHANGED <<chunks, spent>>, cost' \in [1..4 -> Nat]
    PROVE  Accounts' /\ SpendWithinBudget'
BY DEF Accounts, SpendWithinBudget, Traces, Shares

\* A call of an earlier pass leaves Pass 4's account as it is; one of Pass 4
\* adds the same to both.
LEMMA CallReported ==
    ASSUME Accounts, NEW t \in Traces, NEW pass \in 1..4, Call(t, pass),
           (t = Pass4Trace) <=> (pass = 4), cost[4] = spent[Pass4Trace]
    PROVE  cost'[4] = spent'[Pass4Trace]
<1>1. PICK c \in Costs : spent' = [spent EXCEPT ![t] = @ + c] /\ cost' = [cost EXCEPT ![pass] = @ + c]
  BY DEF Call, Answered, Charged, Bill
<1>2. Pass4Trace \in Traces
  BY DEF Traces
<1>3. CASE pass = 4
  BY <1>1, <1>2, <1>3 DEF Accounts
<1>4. CASE pass # 4
  BY <1>1, <1>2, <1>4 DEF Accounts
<1>. QED  BY <1>3, <1>4

\* How a step may touch the accounts.  Passes 1 to 3 call on their traces, Pass
\* 4 on its own; only a lost Pass 4 takes back what it reports.
Touches ==
    \/ UNCHANGED <<spent, cost>>
    \/ \E t \in Traces \ {Pass4Trace}, pass \in 1..3 : Call(t, pass) /\ phase \in {"read", "map", "refine"}
    \/ Call(Pass4Trace, 4) /\ phase \in {"resolve", "merge"}
    \/ LosePass4

LEMMA StepTouches ==
    ASSUME Accounts, Next
    PROVE  UNCHANGED chunks /\ Touches
<1>. USE DEF Failed, PassBudget
<1>a. /\ Base \in Traces \ {Pass4Trace} /\ Pass4Trace \in Traces
      /\ \A k \in DOMAIN chunks : ChunkTrace(k) \in Traces \ {Pass4Trace}
  BY DEF Traces, ChunkTrace, Base, Pass4Trace
<1>b. /\ {Budget[2], Budget[3]} \subseteq Shares(Base)
      /\ Shares(Pass4Trace) = {Budget[4]}
      /\ \A k \in DOMAIN chunks : ChunkBudget \in Shares(ChunkTrace(k))
  BY DEF Shares, ChunkTrace, Base, Pass4Trace, ChunkBudget, PassBudget
<1>c. ChunkBudget \in Nat /\ \A k \in 1..4 : Budget[k] \in Nat /\ cost[k] \in Nat
  <2>1. Len(chunks) \in Nat \ {0}
    BY DEF Accounts
  <2>2. \A k \in 1..4 : Budget[k] \in Nat /\ cost[k] \in Nat
    BY CostAssumption DEF Accounts
  <2>3. Budget[1] \in Nat
    BY <2>2
  <2>4. ChunkBudget \in Nat
    BY <2>1, <2>3 DEF ChunkBudget, PassBudget
  <2>. QED  BY <2>2, <2>4
<1>d. ASSUME NEW t, NEW share \in Shares(t), share \in Nat, NEW pass, Answered(t, share, pass)
      PROVE  Call(t, pass)
  <2>1. share - 0 = share
    BY <1>d
  <2>. QED  BY <1>d, <2>1 DEF Call
<1>1. CASE ReadChunk
  <2>1. UNCHANGED chunks
    BY <1>1 DEF ReadChunk
  <2>2. CASE UNCHANGED <<spent, cost>>
    BY <2>1, <2>2 DEF Touches
  <2>3. CASE Answered(ChunkTrace(at), ChunkBudget, 1) /\ at \in DOMAIN chunks /\ phase = "read"
    <3>1. Call(ChunkTrace(at), 1)
      BY <2>3, <1>b, <1>c, <1>d
    <3>. QED  BY <3>1, <2>1, <2>3, <1>a DEF Touches
  <2>. QED  BY <1>1, <2>2, <2>3 DEF ReadChunk
<1>2. CASE MapEvent
  <2>1. UNCHANGED chunks /\ phase = "map"
    BY <1>2 DEF MapEvent
  <2>2. CASE UNCHANGED <<spent, cost>>
    BY <2>1, <2>2 DEF Touches
  <2>3. CASE Answered(Base, Budget[2], 2)
    <3>1. Call(Base, 2)
      BY <2>3, <1>b, <1>c, <1>d
    <3>. QED  BY <3>1, <2>1, <1>a DEF Touches
  <2>. QED  BY <1>2, <2>2, <2>3 DEF MapEvent
<1>3. CASE RefineEntity
  <2>1. UNCHANGED chunks /\ phase = "refine"
    BY <1>3 DEF RefineEntity
  <2>2. CASE UNCHANGED <<spent, cost>>
    BY <2>1, <2>2 DEF Touches
  <2>3. CASE Answered(Base, Budget[3], 3)
    <3>1. Call(Base, 3)
      BY <2>3, <1>b, <1>c, <1>d
    <3>. QED  BY <3>1, <2>1, <1>a DEF Touches
  <2>. QED  BY <1>3, <2>2, <2>3 DEF RefineEntity
<1>4. CASE PassRaises
  <2>1. UNCHANGED chunks /\ phase \in {"map", "refine"}
    BY <1>4 DEF PassRaises
  <2>2. CASE UNCHANGED <<spent, cost>>
    BY <2>1, <2>2 DEF Touches
  <2>3. CASE \E pass \in {2, 3} : Answered(Base, Budget[pass], pass)
    <3>1. PICK pass \in {2, 3} : Answered(Base, Budget[pass], pass)
      BY <2>3
    <3>2. Call(Base, pass)
      BY <3>1, <1>b, <1>c, <1>d
    <3>. QED  BY <3>2, <2>1, <1>a DEF Touches
  <2>4. UNCHANGED <<spent, cost>> \/ \E pass \in {2, 3} : Answered(Base, Budget[pass], pass)
    <3>1. CASE phase = "map"
      BY <1>4, <3>1 DEF PassRaises
    <3>2. CASE phase = "refine"
      BY <1>4, <3>2 DEF PassRaises
    <3>. QED  BY <2>1, <3>1, <3>2
  <2>. QED  BY <2>2, <2>3, <2>4
<1>5. CASE ResolveAnaphors
  <2>1. UNCHANGED chunks /\ phase = "resolve"
    BY <1>5 DEF ResolveAnaphors
  <2>2. CASE UNCHANGED <<spent, cost>>
    BY <2>1, <2>2 DEF Touches
  <2>3. CASE Answered(Pass4Trace, Budget[4], 4)
    <3>1. Call(Pass4Trace, 4)
      BY <2>3, <1>b, <1>c, <1>d
    <3>. QED  BY <3>1, <2>1 DEF Touches
  <2>. QED  BY <1>5, <2>2, <2>3 DEF ResolveAnaphors
<1>6. CASE MergeBatch
  <2>1. UNCHANGED chunks /\ phase = "merge"
    BY <1>6 DEF MergeBatch
  <2>2. CASE UNCHANGED <<spent, cost>>
    BY <2>1, <2>2 DEF Touches
  <2>3. CASE Answered(Pass4Trace, Budget[4] - cost[4], 4)
    <3>1. Call(Pass4Trace, 4)
      BY <2>3, <1>b, <1>c DEF Call
    <3>. QED  BY <3>1, <2>1 DEF Touches
  <2>. QED  BY <1>6, <2>2, <2>3 DEF MergeBatch
<1>7. CASE LosePass4
  BY <1>7 DEF LosePass4, Touches
<1>8. CASE \/ MergeChunks \/ EndPass2 \/ NextAssertion \/ EndPass3 \/ ApplyNormalization
           \/ BeginSubmit \/ SubmitCandidate \/ EndSubmit
  BY <1>8 DEF MergeChunks, EndPass2, NextAssertion, EndPass3, ApplyNormalization,
              BeginSubmit, SubmitCandidate, EndSubmit, Touches
<1>. QED  BY <1>1, <1>2, <1>3, <1>4, <1>5, <1>6, <1>7, <1>8 DEF Next

\* A run whose Pass 4 was lost stays so: nothing later brings its result back.
LEMMA LostStaysLost ==
    ASSUME Next, ~kept, phase \in {"report", "submit", "done"}
    PROVE  ~kept' /\ phase' \in {"report", "submit", "done"} /\ UNCHANGED <<spent, cost>>
<1>1. BeginSubmit \/ SubmitCandidate \/ EndSubmit
  BY DEF Next, ReadChunk, MergeChunks, MapEvent, EndPass2, RefineEntity, NextAssertion, EndPass3,
         PassRaises, ResolveAnaphors, MergeBatch, ApplyNormalization, LosePass4
<1>. QED  BY <1>1 DEF BeginSubmit, SubmitCandidate, EndSubmit

\* Only ApplyNormalization keeps a Pass 4, and writes the report with it.
LEMMA KeptStays == KeptInReport /\ Next => KeptInReport'
BY DEF KeptInReport, Next, ReadChunk, MergeChunks, MapEvent, EndPass2, RefineEntity, NextAssertion,
       EndPass3, PassRaises, ResolveAnaphors, MergeBatch, ApplyNormalization, LosePass4, Report,
       BeginSubmit, SubmitCandidate, EndSubmit

LEMMA SpendInit == Init => SpendInv
<1>. SUFFICES ASSUME Init PROVE SpendInv
  OBVIOUS
<1>1. chunks \in Seq(Seq(Nat)) \ {<<>>}
  <2>1. ChunksRead
    BY ChunksInit
  <2>2. chunks \in Seq(Seq(DOMAIN text)) /\ chunks # <<>> /\ text \in Seq(Nat)
    BY <2>1 DEF ChunksRead, Covers
  <2>3. DOMAIN text \subseteq Nat
    BY <2>2
  <2>4. \A c \in Seq(DOMAIN text) : c \in Seq(Nat)
    BY <2>3
  <2>. QED  BY <2>2, <2>4
<1>2. Pass4Trace \in Traces /\ \A t \in Traces : spent[t] = 0
  BY DEF Init, Traces
<1>3. spent \in [Traces -> Nat] /\ cost \in [1..4 -> Nat] /\ cost[4] = 0 /\ kept = FALSE
  BY DEF Init
<1>. QED  BY <1>1, <1>2, <1>3 DEF SpendInv, Accounts, SpendWithinBudget, Pass4CostReported, KeptInReport

LEMMA SpendNext == SpendInv /\ [Next]_vars => SpendInv'
<1>. SUFFICES ASSUME SpendInv, [Next]_vars PROVE SpendInv'
  OBVIOUS
<1>1. CASE Next
  <2>1. UNCHANGED chunks /\ Touches
    BY <1>1, StepTouches DEF SpendInv
  <2>2. Accounts' /\ SpendWithinBudget'
    <3>1. CASE UNCHANGED <<spent, cost>>
      BY <2>1, <3>1, QuietKeepsBound DEF SpendInv, Accounts
    <3>2. CASE LosePass4
      <4>1. cost' \in [1..4 -> Nat] /\ UNCHANGED spent
        BY <3>2 DEF LosePass4, SpendInv, Accounts
      <4>. QED  BY <2>1, <4>1, QuietKeepsBound DEF SpendInv
    <3>3. CASE \E t \in Traces, pass \in 1..4 : Call(t, pass)
      BY <2>1, <3>3, CallKeepsBound DEF SpendInv
    <3>4. Pass4Trace \in Traces
      BY DEF Traces
    <3>. QED  BY <2>1, <3>1, <3>2, <3>3, <3>4 DEF Touches
  <2>3. Pass4CostReported'
    <3>1. CASE ~kept /\ phase \in {"report", "submit", "done"}
      BY <1>1, <3>1, LostStaysLost DEF Pass4CostReported
    <3>2. CASE cost[4] = spent[Pass4Trace] /\ ~(~kept /\ phase \in {"report", "submit", "done"})
      <4>1. CASE UNCHANGED <<spent, cost>>
        BY <3>2, <4>1 DEF Pass4CostReported
      <4>2. CASE LosePass4
        <5>1. ~kept
          BY <4>2 DEF LosePass4, SpendInv, KeptInReport
        <5>. QED  BY <4>2, <5>1 DEF LosePass4, Report, Pass4CostReported
      <4>3. CASE \E t \in Traces \ {Pass4Trace}, pass \in 1..3 : Call(t, pass)
        <5>1. PICK t \in Traces \ {Pass4Trace}, pass \in 1..3 : Call(t, pass)
          BY <4>3
        <5>. QED  BY <5>1, <3>2, CallReported DEF SpendInv, Pass4CostReported
      <4>4. CASE Call(Pass4Trace, 4)
        <5>1. Pass4Trace \in Traces
          BY DEF Traces
        <5>. QED  BY <4>4, <5>1, <3>2, CallReported DEF SpendInv, Pass4CostReported
      <4>. QED  BY <2>1, <4>1, <4>2, <4>3, <4>4 DEF Touches
    <3>. QED  BY <3>1, <3>2 DEF SpendInv, Pass4CostReported
  <2>4. KeptInReport'
    BY <1>1, KeptStays DEF SpendInv
  <2>. QED  BY <2>2, <2>3, <2>4 DEF SpendInv
<1>2. CASE UNCHANGED vars
  BY <1>2 DEF vars, SpendInv, Accounts, SpendWithinBudget, Pass4CostReported, KeptInReport, Traces, Shares
<1>. QED  BY <1>1, <1>2

\* Every trace stays within one call of a budget that pays from it
\* (run_progressive_extraction gives each pass its share of max_budget).
THEOREM SpendIsBounded == Spec => []SpendWithinBudget
<1>1. SpendInv => SpendWithinBudget
  BY DEF SpendInv
<1>. QED  BY SpendInit, SpendNext, <1>1, PTL DEF Spec

\* Pass 4 reports what it was charged, or the report has lost it
\* (run_progressive_extraction, the handler around run_pass4_normalization).
THEOREM Pass4ReportsItsCost == Spec => []Pass4CostReported
<1>1. SpendInv => Pass4CostReported
  BY DEF SpendInv
<1>. QED  BY SpendInit, SpendNext, <1>1, PTL DEF Spec

\* The traces are finitely many: one per chunk and two of the run's own.
LEMMA TracesFinite ==
    ASSUME Accounts
    PROVE  IsFiniteSet(Traces) /\ Pass4Trace \in Traces
<1>1. DOMAIN chunks = 1..Len(chunks) /\ Len(chunks) \in Nat
  BY DEF Accounts
<1>2. IsFiniteSet({<<"chunk", k>> : k \in 1..Len(chunks)})
  <2>1. IsFiniteSet(1..Len(chunks))
    BY <1>1, FS_Interval
  <2>. DEFINE Trace == [k \in 1..Len(chunks) |-> <<"chunk", k>>]
  <2>2. Trace \in Surjection(1..Len(chunks), {<<"chunk", k>> : k \in 1..Len(chunks)})
    BY DEF Surjection
  <2>. HIDE DEF Trace
  <2>. QED  BY <2>1, <2>2, FS_Surjection
<1>3. IsFiniteSet({Base, Pass4Trace})
  <2>1. IsFiniteSet({Base}) /\ {Base, Pass4Trace} = {Base} \cup {Pass4Trace}
    BY FS_Singleton
  <2>. QED  BY <2>1, FS_AddElement
<1>. QED  BY <1>1, <1>2, <1>3, FS_Union DEF Traces

\* The first three passes report together what all traces but Pass 4's were
\* charged.
PassesReported == cost[1] + cost[2] + cost[3] = Total(spent) - spent[Pass4Trace]

CostInv == SpendInv /\ PassesReported

LEMMA CostInit == Init => CostInv
<1>. SUFFICES ASSUME Init PROVE CostInv
  OBVIOUS
<1>1. SpendInv
  BY SpendInit
<1>2. IsFiniteSet(Traces) /\ Pass4Trace \in Traces
  BY <1>1, TracesFinite DEF SpendInv
<1>3. Total([t \in Traces |-> 0]) = 0
  BY <1>2, TotalOfNothing
<1>4. spent = [t \in Traces |-> 0] /\ cost[1] = 0 /\ cost[2] = 0 /\ cost[3] = 0
  BY DEF Init
<1>. QED  BY <1>1, <1>2, <1>3, <1>4 DEF CostInv, PassesReported

LEMMA CostNext == CostInv /\ [Next]_vars => CostInv'
<1>. SUFFICES ASSUME CostInv, [Next]_vars PROVE CostInv'
  OBVIOUS
<1>1. SpendInv'
  BY SpendNext DEF CostInv
<1>2. PassesReported'
  <2>1. CASE UNCHANGED <<chunks, spent, cost>>
    BY <2>1 DEF CostInv, PassesReported
  <2>2. CASE Next
    <3>1. UNCHANGED chunks /\ Touches
      BY <2>2, StepTouches DEF CostInv, SpendInv
    <3>2. IsFiniteSet(Traces) /\ Pass4Trace \in Traces
      BY TracesFinite DEF CostInv, SpendInv
    <3>3. CASE UNCHANGED <<spent, cost>>
      BY <3>3 DEF CostInv, PassesReported
    <3>4. CASE LosePass4
      BY <3>4 DEF LosePass4, CostInv, SpendInv, Accounts, PassesReported
    <3>5. ASSUME NEW t \in Traces, NEW pass \in 1..4, Call(t, pass), (t = Pass4Trace) <=> (pass = 4)
          PROVE  PassesReported'
      <4>1. PICK c \in Costs : /\ spent' = [spent EXCEPT ![t] = @ + c]
                               /\ cost' = [cost EXCEPT ![pass] = @ + c]
        BY <3>5 DEF Call, Answered, Charged, Bill
      <4>2. c \in Nat /\ spent \in [Traces -> Nat] /\ cost \in [1..4 -> Nat]
        BY CostAssumption DEF CostInv, SpendInv, Accounts
      <4>3. Total(spent) \in Nat /\ Total(spent') = Total(spent) + c
        <5>1. IsCharge(Traces, spent, t, c, spent')
          BY <3>2, <4>1, <4>2 DEF IsCharge
        <5>2. Total(spent) \in Nat
          BY <5>1, TotalOfCharge
        <5>3. Total(spent') = Total(spent) + c
          BY <5>1, TotalOfCharge
        <5>. QED  BY <5>2, <5>3
      <4>4. /\ \A k \in 1..4 : cost[k] \in Nat /\ cost'[k] = IF k = pass THEN cost[k] + c ELSE cost[k]
            /\ spent[Pass4Trace] \in Nat
            /\ spent'[Pass4Trace] = IF t = Pass4Trace THEN spent[Pass4Trace] + c ELSE spent[Pass4Trace]
        BY <3>2, <4>1, <4>2
      <4>5. cost[1] + cost[2] + cost[3] = Total(spent) - spent[Pass4Trace]
        BY DEF CostInv, PassesReported
      <4>6. /\ {cost[1], cost[2], cost[3]} \subseteq Nat
            /\ cost'[1] = IF pass = 1 THEN cost[1] + c ELSE cost[1]
            /\ cost'[2] = IF pass = 2 THEN cost[2] + c ELSE cost[2]
            /\ cost'[3] = IF pass = 3 THEN cost[3] + c ELSE cost[3]
        BY <4>4
      <4>7. cost'[1] + cost'[2] + cost'[3] = Total(spent') - spent'[Pass4Trace]
        <5>1. CASE pass = 4
          BY <3>5, <4>2, <4>3, <4>4, <4>5, <4>6, <5>1
        <5>2. CASE pass = 1
          BY <3>5, <4>2, <4>3, <4>4, <4>5, <4>6, <5>2
        <5>3. CASE pass = 2
          BY <3>5, <4>2, <4>3, <4>4, <4>5, <4>6, <5>3
        <5>4. CASE pass = 3
          BY <3>5, <4>2, <4>3, <4>4, <4>5, <4>6, <5>4
        <5>. QED  BY <3>5, <5>1, <5>2, <5>3, <5>4
      <4>. QED  BY <4>7 DEF PassesReported, Pass4Trace
    <3>6. CASE \E t \in Traces \ {Pass4Trace}, pass \in 1..3 : Call(t, pass)
      BY <3>5, <3>6
    <3>7. CASE Call(Pass4Trace, 4)
      BY <3>2, <3>5, <3>7
    <3>. QED  BY <3>1, <3>3, <3>4, <3>6, <3>7 DEF Touches
  <2>. QED  BY <2>1, <2>2 DEF vars
<1>. QED  BY <1>1, <1>2 DEF CostInv

\* What the run reports to have cost is what llm_client was charged, but for
\* a Pass 4 that raised (run_progressive_extraction adds the passes' costs up).
THEOREM CostsAreReported == Spec => []CostReported
<1>1. CostInv => CostReported
  BY DEF CostInv, SpendInv, PassesReported, CostReported
<1>. QED  BY CostInit, CostNext, <1>1, PTL DEF Spec

-----------------------------------------------------------------------------
(***************************************************************************)
(* From the events to the candidates.  Up to Pass 4 mapped and unresolved  *)
(* events carry the participants Pass 1 found; what is reported was        *)
(* renamed by one map, and nothing touches it afterwards.                  *)
(***************************************************************************)
Kinds == STRING \cup {Entity} \cup Types
Parts == [proto : STRING, name : Names, coarse : STRING]
Events == [verb : STRING, parts : Seq(Parts)]
Roles == [role : STRING, name : Names \cup {Blank}]
Refs == [name : Names, coarse : STRING \cup {Entity}, type : Kinds]
Mapped == [of : Nat, pred : Sensed, roles : Seq(Roles), parts : Seq(Parts), refs : Seq(Refs)]
Unmapped == [of : Nat, parts : Seq(Parts)]
Infos == [name : Names, type : Kinds]

\* A slot is nothing or one of the labels of the predicate.
LEMMA SlotFacts ==
    ASSUME NEW proto, NEW labels \in Seq(STRING), NEW taken
    PROVE  Slot(proto, labels, taken) \in Seq(STRING)
<1>. DEFINE free == Only(labels, LAMBDA l : l \notin taken)
            family == Only(free, LAMBDA l : l \in Family[proto] \cup {proto})
<1>1. free \in Seq(STRING)
  BY ThinFacts DEF Only
<1>. HIDE DEF free
<1>2. family \in Seq(STRING)
  BY <1>1, ThinFacts DEF Only
<1>. HIDE DEF family
<1>3. \A s \in Seq(STRING) : s # <<>> => s[1] \in STRING
  OBVIOUS
<1>4. \A l \in STRING : <<l>> \in Seq(STRING)
  BY SingleSeq
<1>5. Slot(proto, labels, taken) =
        IF family # <<>> THEN <<family[1]>> ELSE IF free = <<>> THEN <<>> ELSE <<free[1]>>
  BY DEF Slot, free, family
<1>. QED  BY <1>1, <1>2, <1>3, <1>4, <1>5

\* The roles of the participants read so far, and those of one more.
TakeSlot(pred, roles, p) ==
    roles \o [s \in DOMAIN Slot(p.proto, Slots[pred], {r.role : r \in Range(roles)}) |->
                [role |-> Slot(p.proto, Slots[pred], {r.role : r \in Range(roles)})[s],
                 name |-> p.name]]

\* The roles of an assertion have labels and the names of participants.
LEMMA AssignSlotsFacts ==
    ASSUME NEW parts \in Seq(Parts), NEW pred, Slots[pred] \in Seq(STRING)
    PROVE  AssignSlots(parts, pred) \in Seq(Roles)
<1>. DEFINE n == Len(parts)
            W == Seq(Roles)
            step == [k \in 1..n |-> [v \in W |-> TakeSlot(pred, v, parts[k])]]
            Body(h) == h = [d \in SUBSET DOMAIN parts |->
                              IF d = {} THEN <<>> ELSE TakeSlot(pred, h[d \ {Max(d)}], parts[Max(d)])]
            answer == CHOOSE h : Body(h)
<1>1. n \in Nat /\ DOMAIN parts = 1..n /\ \A k \in 1..n : parts[k] \in Parts
  OBVIOUS
<1>2. AssignSlots(parts, pred) = answer[DOMAIN parts]
  BY DEF AssignSlots, FoldLeft, MapThenFoldSet, TakeSlot
<1>3. ASSUME NEW v \in W, NEW p \in Parts
      PROVE  TakeSlot(pred, v, p) \in W
  <2>. DEFINE slot == Slot(p.proto, Slots[pred], {r.role : r \in Range(v)})
              more == [s \in DOMAIN slot |-> [role |-> slot[s], name |-> p.name]]
  <2>1. slot \in Seq(STRING)
    BY SlotFacts
  <2>. HIDE DEF slot
  <2>2. p.name \in Names
    BY DEF Parts
  <2>3. more \in Seq(Roles)
    <3>1. \A s \in 1..Len(slot) : [role |-> slot[s], name |-> p.name] \in Roles
      BY <2>1, <2>2 DEF Roles
    <3>2. Len(slot) \in Nat /\ DOMAIN slot = 1..Len(slot)
      BY <2>1
    <3>. HIDE DEF Roles
    <3>. QED  BY <3>1, <3>2
  <2>4. TakeSlot(pred, v, p) = v \o more
    BY DEF TakeSlot, slot
  <2>. HIDE DEF more
  <2>. QED  BY <2>3, <2>4
<1>4. <<>> \in W
  OBVIOUS
<1>. HIDE DEF n, W
<1>5. \A k \in 1..n, v \in W : step[k][v] = TakeSlot(pred, v, parts[k])
  OBVIOUS
<1>6. StepOn(n, W, <<>>, step)
  BY <1>1, <1>3, <1>4 DEF StepOn
<1>. HIDE DEF step
<1>7. Body(answer)
  <2>1. PICK h : LastFold(n, W, <<>>, step, h)
    BY <1>6, LastFoldExists
  <2>2. \A d \in SUBSET (1..n) :
          h[d] = IF d = {} THEN <<>> ELSE TakeSlot(pred, h[d \ {Max(d)}], parts[Max(d)])
    BY <1>5, <2>1 DEF LastFold
  <2>3. Body(h)
    BY <1>1, <2>1, <2>2 DEF LastFold
  <2>. QED  BY <2>3
<1>8. /\ answer[{}] = <<>>
      /\ \A d \in SUBSET (1..n) :
            d # {} => answer[d] = TakeSlot(pred, answer[d \ {Max(d)}], parts[Max(d)])
  BY <1>1, <1>7
<1>. HIDE DEF answer
<1>9. TakesLast(n, W, <<>>, step, answer)
  <2>1. \A d \in SUBSET (1..n) : d # {} => Max(d) \in 1..n
    BY <1>1, MaxIsLast
  <2>. QED  BY <1>5, <1>8, <2>1 DEF TakesLast
<1>10. Scans(n, W, <<>>, step, [k \in 0..n |-> answer[1..k]])
  BY <1>6, <1>9, FoldScans
<1>11. answer[1..n] \in W
  BY <1>1, <1>10 DEF Scans
<1>. QED  BY <1>1, <1>2, <1>11 DEF W

\* The first one of each name.
AddInfo(infos, i) ==
    IF \E k \in DOMAIN infos : infos[k].name = i.name THEN infos ELSE Append(infos, i)

\* Of each name the first one is kept.
LEMMA FirstInfos ==
    ASSUME NEW seen \in Seq(Infos)
    PROVE  LET infos == FoldLeft(AddInfo, <<>>, seen)
           IN  /\ infos \in Seq(Infos)
               /\ \A s \in Range(seen) : \E i \in Range(infos) : i.name = s.name
<1>. DEFINE n == Len(seen)
            W == Seq(Infos)
            step == [k \in 1..n |-> [v \in W |-> AddInfo(v, seen[k])]]
            Body(h) == h = [d \in SUBSET DOMAIN seen |->
                              IF d = {} THEN <<>> ELSE AddInfo(h[d \ {Max(d)}], seen[Max(d)])]
            answer == CHOOSE h : Body(h)
            infos == FoldLeft(AddInfo, <<>>, seen)
            NamesOf(v) == {i.name : i \in Range(v)}
<1>1. n \in Nat /\ DOMAIN seen = 1..n /\ \A k \in 1..n : seen[k] \in Infos
  OBVIOUS
<1>2. infos = answer[DOMAIN seen]
  BY DEF FoldLeft, MapThenFoldSet
<1>3. ASSUME NEW v \in W, NEW i \in Infos
      PROVE  AddInfo(v, i) \in W /\ NamesOf(AddInfo(v, i)) = NamesOf(v) \cup {i.name}
  <2>1. CASE \E k \in DOMAIN v : v[k].name = i.name
    BY <2>1 DEF AddInfo, Range
  <2>2. CASE ~\E k \in DOMAIN v : v[k].name = i.name
    <3>1. AddInfo(v, i) = Append(v, i)
      BY <2>2 DEF AddInfo
    <3>2. Append(v, i) \in W /\ Range(Append(v, i)) = Range(v) \cup {i}
      BY RangeOfAppend
    <3>. HIDE DEF W
    <3>. QED  BY <3>1, <3>2
  <2>. QED  BY <2>1, <2>2
<1>4. <<>> \in W
  OBVIOUS
<1>. HIDE DEF n, W
<1>5. \A k \in 1..n, v \in W : step[k][v] = AddInfo(v, seen[k])
  OBVIOUS
<1>6. StepOn(n, W, <<>>, step)
  BY <1>1, <1>3, <1>4 DEF StepOn
<1>. HIDE DEF step
<1>7. Body(answer)
  <2>1. PICK h : LastFold(n, W, <<>>, step, h)
    BY <1>6, LastFoldExists
  <2>2. \A d \in SUBSET (1..n) :
          h[d] = IF d = {} THEN <<>> ELSE AddInfo(h[d \ {Max(d)}], seen[Max(d)])
    BY <1>5, <2>1 DEF LastFold
  <2>3. Body(h)
    BY <1>1, <2>1, <2>2 DEF LastFold
  <2>. QED  BY <2>3
<1>8. /\ answer[{}] = <<>>
      /\ \A d \in SUBSET (1..n) : d # {} => answer[d] = AddInfo(answer[d \ {Max(d)}], seen[Max(d)])
  BY <1>1, <1>7
<1>. HIDE DEF answer, infos
<1>9. TakesLast(n, W, <<>>, step, answer)
  <2>1. \A d \in SUBSET (1..n) : d # {} => Max(d) \in 1..n
    BY <1>1, MaxIsLast
  <2>. QED  BY <1>5, <1>8, <2>1 DEF TakesLast
<1>. DEFINE scan == [k \in 0..n |-> answer[1..k]]
<1>10. Scans(n, W, <<>>, step, scan)
  BY <1>6, <1>9, FoldScans
<1>11. scan[n] = infos
  BY <1>1, <1>2
<1>. HIDE DEF scan
<1>. DEFINE S == {k \in 0..n : \A j \in 1..k : seen[j].name \in NamesOf(scan[k])}
<1>12. 0 \in S
  BY <1>1
<1>13. ASSUME NEW k \in 0..n, k > 0, k - 1 \in S
       PROVE  k \in S
  <2>1. k \in 1..n /\ scan[k] = step[k][scan[k - 1]] /\ scan[k - 1] \in W
    BY <1>1, <1>10, <1>13 DEF Scans
  <2>2. NamesOf(scan[k]) = NamesOf(scan[k - 1]) \cup {seen[k].name}
    BY <1>1, <1>3, <1>5, <2>1
  <2>3. \A j \in 1..k : j = k \/ j \in 1..(k - 1)
    BY <2>1
  <2>. HIDE DEF NamesOf
  <2>. QED  BY <1>13, <2>2, <2>3
<1>14. n \in S
  <2>. HIDE DEF S
  <2>1. 0..n \subseteq S
    BY <1>1, <1>12, <1>13, ByCounting
  <2>. QED  BY <1>1, <2>1
<1>15. infos \in W
  BY <1>1, <1>10, <1>11 DEF Scans
<1>16. \A s \in Range(seen) : \E i \in Range(infos) : i.name = s.name
  BY <1>1, <1>11, <1>14 DEF Range
<1>. QED  BY <1>15, <1>16 DEF W, infos

\* What is left of list, renamed.
RenamedBy(m, list, out) ==
    /\ Len(out) \in Nat /\ DOMAIN out = 1..Len(out) /\ out \in Seq(Range(out))
    /\ \A y \in Range(out) : \E x \in Range(list) :
          Renamed(m, x.name) # None /\ y = [x EXCEPT !.name = Renamed(m, x.name)]
    /\ \A x \in Range(list) :
          Renamed(m, x.name) # None => [x EXCEPT !.name = Renamed(m, x.name)] \in Range(out)

\* Rename is a renaming.
LEMMA RenameFacts ==
    ASSUME NEW T, NEW m, NEW list \in Seq(T)
    PROVE  RenamedBy(m, list, Rename(m, list))
<1>. DEFINE keep == {k \in DOMAIN list : Renamed(m, list[k].name) # None}
            left == Thin(list, keep)
            out == Rename(m, list)
            New(x) == [x EXCEPT !.name = Renamed(m, x.name)]
<1>1. out = [k \in DOMAIN left |-> New(left[k])]
  BY DEF Rename, Only
<1>2. keep \in SUBSET DOMAIN list
  OBVIOUS
<1>3. PICK place : Thinned(list, keep, left, place)
  BY <1>2, ThinFacts
<1>4. \A k \in keep : list[k] \in Range(list) /\ Renamed(m, list[k].name) # None
  BY DEF Range
<1>5. \A x \in Range(list) : Renamed(m, x.name) # None => \E k \in keep : list[k] = x
  BY DEF Range
<1>. HIDE DEF keep, left, out, New
<1>. DEFINE n == Cardinality(keep)
<1>6. /\ n \in Nat /\ DOMAIN left = 1..n /\ place \in [1..n -> keep]
      /\ \A k \in keep : \E j \in 1..n : place[j] = k
      /\ \A j \in 1..n : left[j] = list[place[j]]
  BY <1>3 DEF Thinned
<1>. HIDE DEF n
<1>7. DOMAIN out = 1..n /\ \A j \in 1..n : out[j] = New(list[place[j]])
  BY <1>1, <1>6
<1>8. Len(out) = n /\ out \in Seq(Range(out))
  <2>1. out = [j \in 1..n |-> out[j]]
    BY <1>1, <1>6
  <2>. QED  BY <1>6, <2>1, FunctionIsSeq
<1>9. ASSUME NEW y \in Range(out)
      PROVE  \E x \in Range(list) : Renamed(m, x.name) # None /\ y = New(x)
  <2>1. PICK j \in 1..n : y = out[j]
    BY <1>7 DEF Range
  <2>2. place[j] \in keep /\ y = New(list[place[j]])
    BY <1>6, <1>7, <2>1
  <2>. QED  BY <1>4, <2>2
<1>10. ASSUME NEW x \in Range(list), Renamed(m, x.name) # None
       PROVE  New(x) \in Range(out)
  <2>1. PICK k \in keep : list[k] = x
    BY <1>5, <1>10
  <2>2. PICK j \in 1..n : place[j] = k
    BY <1>6
  <2>3. out[j] = New(x)
    BY <1>7, <2>1, <2>2
  <2>. QED  BY <1>7, <2>3 DEF Range
<1>. QED  BY <1>6, <1>7, <1>8, <1>9, <1>10 DEF RenamedBy, New, out

\* Every participant of an assertion is among those Pass 4 looks at.
LEMMA InfosFacts ==
    ASSUME mapped \in Seq(Mapped)
    PROVE  /\ EntityInfos \in Seq(Infos)
           /\ \A a \in Range(mapped) : \A p \in Range(a.parts) :
                 \E i \in Range(EntityInfos) : i.name = p.name
<1>. DEFINE Info(a, p) ==
              LET refs == Only(a.refs, LAMBDA r : r.name = p.name)
              IN  [name |-> p.name, type |-> IF refs = <<>> THEN p.coarse ELSE refs[1].type]
            row(a) == [j \in DOMAIN a.parts |-> Info(a, a.parts[j])]
            rows == [k \in DOMAIN mapped |-> row(mapped[k])]
            seen == FlattenSeq(rows)
<1>1. EntityInfos = FoldLeft(AddInfo, <<>>, seen)
  BY DEF EntityInfos, AddInfo
<1>2. ASSUME NEW a \in Mapped, NEW p \in Parts
      PROVE  Info(a, p) \in Infos /\ Info(a, p).name = p.name
  <2>. DEFINE refs == Only(a.refs, LAMBDA r : r.name = p.name)
  <2>1. refs \in Seq(Refs)
    <3>1. a.refs \in Seq(Refs)
      BY DEF Mapped
    <3>. QED  BY <3>1, ThinFacts DEF Only
  <2>2. Info(a, p) = [name |-> p.name, type |-> IF refs = <<>> THEN p.coarse ELSE refs[1].type]
    OBVIOUS
  <2>. HIDE DEF refs, Info
  <2>3. refs # <<>> => refs[1] \in Refs
    <3>. HIDE DEF Refs
    <3>. QED  BY <2>1
  <2>4. p.name \in Names /\ p.coarse \in Kinds
    BY DEF Parts, Kinds
  <2>5. refs # <<>> => refs[1].type \in Kinds
    BY <2>3 DEF Refs
  <2>. QED  BY <2>2, <2>4, <2>5 DEF Infos
<1>. HIDE DEF Info
<1>3. ASSUME NEW a \in Mapped
      PROVE  row(a) \in Seq(Infos) /\ \A p \in Range(a.parts) : Info(a, p) \in Range(row(a))
  <2>1. a.parts \in Seq(Parts)
    BY DEF Mapped
  <2>2. DOMAIN a.parts = 1..Len(a.parts) /\ Len(a.parts) \in Nat
        /\ \A j \in DOMAIN a.parts : a.parts[j] \in Parts
    <3>. HIDE DEF Parts
    <3>. QED  BY <2>1
  <2>3. \A j \in 1..Len(a.parts) : Info(a, a.parts[j]) \in Infos
    BY <1>2, <2>2
  <2>4. row(a) \in Seq(Infos)
    <3>. HIDE DEF Infos
    <3>. QED  BY <2>2, <2>3
  <2>. QED  BY <2>4 DEF Range
<1>4. DOMAIN mapped = 1..Len(mapped) /\ Len(mapped) \in Nat /\ \A k \in DOMAIN mapped : mapped[k] \in Mapped
  <2>. HIDE DEF Mapped
  <2>. QED  OBVIOUS
<1>. HIDE DEF row
<1>5. rows \in Seq(Seq(Infos)) /\ \A k \in DOMAIN mapped : k \in DOMAIN rows /\ rows[k] = row(mapped[k])
  <2>1. \A k \in 1..Len(mapped) : row(mapped[k]) \in Seq(Infos)
    BY <1>3, <1>4
  <2>. DEFINE W == Seq(Infos)
  <2>. HIDE DEF W
  <2>2. \A k \in 1..Len(mapped) : row(mapped[k]) \in W
    BY <2>1 DEF W
  <2>3. rows \in Seq(W)
    BY <1>4, <2>2
  <2>. QED  BY <2>3 DEF W
<1>. HIDE DEF rows
<1>6. seen \in Seq(Infos) /\ \A k \in DOMAIN rows : Range(rows[k]) \subseteq Range(seen)
  BY <1>5, FlattenFacts
<1>. HIDE DEF seen
<1>7. /\ EntityInfos \in Seq(Infos)
      /\ \A s \in Range(seen) : \E i \in Range(EntityInfos) : i.name = s.name
  BY <1>1, <1>6, FirstInfos
<1>8. ASSUME NEW a \in Range(mapped), NEW p \in Range(a.parts)
      PROVE  \E i \in Range(EntityInfos) : i.name = p.name
  <2>1. PICK k \in DOMAIN mapped : a = mapped[k]
    BY DEF Range
  <2>2. a \in Mapped /\ p \in Parts
    <3>1. a \in Mapped
      BY <1>4, <2>1
    <3>2. a.parts \in Seq(Parts)
      BY <3>1 DEF Mapped
    <3>. HIDE DEF Parts, Mapped
    <3>. QED  BY <3>1, <3>2 DEF Range
  <2>3. Info(a, p) \in Range(seen)
    BY <1>3, <1>5, <1>6, <2>1, <2>2
  <2>4. Info(a, p).name = p.name
    BY <1>2, <2>2
  <2>. QED  BY <1>7, <2>3, <2>4
<1>. QED  BY <1>7, <1>8

-----------------------------------------------------------------------------
(***************************************************************************)
(* What Pass 4 decides: the merges and the anaphors.                       *)
(***************************************************************************)
Decisions == [name : Names, to : Names \cup {Blank, None}]
PairSets == {s \in SUBSET Names : IsFiniteSet(s)}

LEMMA ConcatType ==
    ASSUME NEW T, NEW a \in Seq(T), NEW b \in Seq(T)
    PROVE  a \o b \in Seq(T)
OBVIOUS

\* The pairs put to the LLM are finite sets of names.
LEMMA PairsFacts ==
    ASSUME mapped \in Seq(Mapped)
    PROVE  DuplicatePairs \in Seq(PairSets)
<1>. DEFINE D == Infos \X Infos
            named == Only(EntityInfos, LAMBDA i : /\ Shape[i.name] = {}
                                                  /\ \A d \in Range(AliasPairs) : d[1] # i.name)
            row(i) == [k \in 1..(Len(named) - i) |-> <<named[i], named[i + k]>>]
            rows == [i \in DOMAIN named |-> row(i)]
            both == FlattenSeq(rows)
            match == Only(both, LAMBDA d : TypesCompatible(d[1].type, d[2].type))
            alike == Only(match, LAMBDA d : {d[1].name, d[2].name} \in LookAlike)
            shaped == Only(match, LAMBDA d : /\ {d[1].name, d[2].name} \notin LookAlike
                                             /\ StructuralDuplicate(d[1].name, d[2].name))
            asked == alike \o shaped
<1>1. DuplicatePairs = [k \in DOMAIN asked |-> {asked[k][1].name, asked[k][2].name}]
  BY DEF DuplicatePairs
<1>2. EntityInfos \in Seq(Infos)
  BY InfosFacts
<1>3. named \in Seq(Infos)
  BY <1>2, ThinFacts DEF Only
<1>. HIDE DEF named
<1>4. /\ Len(named) \in Nat /\ DOMAIN named = 1..Len(named)
      /\ \A i \in 1..Len(named) : named[i] \in Infos
  <2>. HIDE DEF Infos
  <2>. QED  BY <1>3
<1>5. rows \in Seq(Seq(D))
  <2>1. ASSUME NEW i \in 1..Len(named)
        PROVE  row(i) \in Seq(D)
    <3>1. \A k \in 1..(Len(named) - i) : i + k \in 1..Len(named)
      BY <1>4
    <3>2. Len(named) - i \in Nat
      BY <1>4
    <3>3. \A k \in 1..(Len(named) - i) : <<named[i], named[i + k]>> \in D
      BY <1>4, <3>1
    <3>. HIDE DEF D
    <3>. QED  BY <3>2, <3>3
  <2>. DEFINE W == Seq(D)
  <2>. HIDE DEF W, row
  <2>2. rows \in Seq(W)
    BY <1>4, <2>1 DEF W
  <2>. QED  BY <2>2 DEF W
<1>. HIDE DEF rows
<1>6. both \in Seq(D)
  BY <1>5, FlattenFacts
<1>. HIDE DEF both
<1>7. match \in Seq(D)
  BY <1>6, ThinFacts DEF Only
<1>. HIDE DEF match
<1>8. alike \in Seq(D) /\ shaped \in Seq(D)
  BY <1>7, ThinFacts DEF Only
<1>. HIDE DEF alike, shaped
<1>9. asked \in Seq(D)
  BY <1>8, ConcatType
<1>. HIDE DEF asked
<1>10. ASSUME NEW d \in D
       PROVE  {d[1].name, d[2].name} \in PairSets
  <2>1. d[1] \in Infos /\ d[2] \in Infos
    OBVIOUS
  <2>2. d[1].name \in Names /\ d[2].name \in Names
    BY <2>1 DEF Infos
  <2>3. IsFiniteSet({d[1].name, d[2].name})
    <3>1. IsFiniteSet({d[1].name})
      BY FS_Singleton
    <3>2. IsFiniteSet({d[1].name} \cup {d[2].name})
      BY <3>1, FS_AddElement
    <3>3. {d[1].name, d[2].name} = {d[1].name} \cup {d[2].name}
      OBVIOUS
    <3>. QED  BY <3>2, <3>3
  <2>. QED  BY <2>2, <2>3 DEF PairSets
<1>11. \A k \in 1..Len(asked) : asked[k] \in D
  <2>. HIDE DEF D
  <2>. QED  BY <1>9
<1>12. Len(asked) \in Nat /\ DOMAIN asked = 1..Len(asked)
  BY <1>9
<1>13. \A k \in 1..Len(asked) : {asked[k][1].name, asked[k][2].name} \in PairSets
  BY <1>10, <1>11
<1>. HIDE DEF PairSets
<1>. QED  BY <1>1, <1>12, <1>13

\* The certain anaphors Pass 4 drops are those of all assertions.
LEMMA AnaphorFacts ==
    ASSUME mapped \in Seq(Mapped)
    PROVE  /\ CertainNames \in Seq(Names) /\ FlaggedNames \in Seq(Names)
           /\ \A a \in Range(mapped) : \A p \in Range(a.parts) :
                 Certain(p.name) => p.name \in Range(CertainNames)
<1>. DEFINE names == [k \in DOMAIN EntityInfos |-> EntityInfos[k].name]
            keep == {k \in DOMAIN names : Certain(names[k])}
<1>1. /\ EntityInfos \in Seq(Infos)
      /\ \A a \in Range(mapped) : \A p \in Range(a.parts) :
            \E i \in Range(EntityInfos) : i.name = p.name
  BY InfosFacts
<1>2. names \in Seq(Names) /\ DOMAIN names = DOMAIN EntityInfos
  <2>1. \A k \in DOMAIN EntityInfos : EntityInfos[k] \in Infos
    <3>. HIDE DEF Infos
    <3>. QED  BY <1>1
  <2>2. \A k \in DOMAIN EntityInfos : EntityInfos[k].name \in Names
    BY <2>1 DEF Infos
  <2>3. DOMAIN EntityInfos = 1..Len(EntityInfos) /\ Len(EntityInfos) \in Nat
    BY <1>1
  <2>. QED  BY <2>2, <2>3
<1>3. CertainNames = Thin(names, keep)
  BY DEF CertainNames, Only
<1>4. FlaggedNames \in Seq(Names)
  <2>. HIDE DEF names
  <2>1. \A s : s = names => Only(s, Flagged) \in Seq(Names)
    BY <1>2, ThinFacts DEF Only
  <2>. QED  BY <2>1 DEF FlaggedNames, names
<1>5. keep \in SUBSET DOMAIN names
  OBVIOUS
<1>6. CertainNames \in Seq(Names) /\ \E place : Thinned(names, keep, CertainNames, place)
  <2>. HIDE DEF names, keep
  <2>. QED  BY <1>2, <1>3, <1>5, ThinFacts
<1>7. ASSUME NEW a \in Range(mapped), NEW p \in Range(a.parts), Certain(p.name)
      PROVE  p.name \in Range(CertainNames)
  <2>1. PICK k \in DOMAIN EntityInfos : EntityInfos[k].name = p.name
    BY <1>1 DEF Range
  <2>2. k \in keep /\ names[k] = p.name
    BY <1>2, <1>7, <2>1
  <2>. HIDE DEF names, keep
  <2>3. PICK place : Thinned(names, keep, CertainNames, place)
    BY <1>6
  <2>4. \E j \in DOMAIN CertainNames : CertainNames[j] = p.name
    BY <2>2, <2>3 DEF Thinned
  <2>. QED  BY <2>4 DEF Range
<1>. QED  BY <1>4, <1>6, <1>7

\* What Pass 4 has decided when it starts to merge.
LEMMA ResolveDecides ==
    ASSUME mapped \in Seq(Mapped), ResolveAnaphors,
           decisions = [merges |-> <<>>, anaphors |-> <<>>]
    PROVE  /\ decisions' = [merges |-> <<>>, anaphors |-> decisions'.anaphors]
           /\ decisions'.anaphors \in Seq(Decisions)
           /\ \A n \in Range(CertainNames) : \E d \in Range(decisions'.anaphors) : d.name = n
<1>. DEFINE dropped == [k \in DOMAIN CertainNames |-> Decision(CertainNames[k], None)]
<1>1. CertainNames \in Seq(Names) /\ FlaggedNames \in Seq(Names)
  BY AnaphorFacts
<1>2. dropped \in Seq(Decisions)
  <2>1. \A n \in Names : Decision(n, None) \in Decisions
    BY DEF Decision, Decisions
  <2>2. DOMAIN CertainNames = 1..Len(CertainNames) /\ Len(CertainNames) \in Nat
        /\ \A k \in DOMAIN CertainNames : CertainNames[k] \in Names
    BY <1>1
  <2>. HIDE DEF Decision, Decisions
  <2>. QED  BY <2>1, <2>2
<1>3. \A n \in Range(CertainNames) : \E d \in Range(dropped) : d.name = n
  <2>1. ASSUME NEW k \in DOMAIN CertainNames
        PROVE  \E d \in Range(dropped) : d.name = CertainNames[k]
    <3>1. dropped[k] \in Range(dropped)
      BY DEF Range
    <3>2. dropped[k].name = CertainNames[k]
      BY DEF Decision
    <3>. QED  BY <3>1, <3>2
  <2>. QED  BY <2>1 DEF Range
<1>4. CASE decisions' = [decisions EXCEPT !.anaphors = dropped]
  <2>. HIDE DEF dropped
  <2>. QED  BY <1>2, <1>3, <1>4
<1>5. ASSUME NEW told \in SUBSET Range(FlaggedNames),
             NEW answer \in [told -> Names \cup {Blank, None}],
             NEW heard, heard = Only(FlaggedNames, LAMBDA n : n \in told),
             decisions' = [decisions EXCEPT !.anaphors =
                             dropped \o [k \in DOMAIN heard |-> Decision(heard[k], answer[heard[k]])]]
      PROVE  /\ decisions' = [merges |-> <<>>, anaphors |-> decisions'.anaphors]
             /\ decisions'.anaphors \in Seq(Decisions)
             /\ \A n \in Range(CertainNames) : \E d \in Range(decisions'.anaphors) : d.name = n
  <2>. DEFINE keep == {k \in DOMAIN FlaggedNames : FlaggedNames[k] \in told}
              more == [k \in DOMAIN heard |-> Decision(heard[k], answer[heard[k]])]
  <2>1. heard = Thin(FlaggedNames, keep)
    BY <1>5 DEF Only
  <2>2. keep \in SUBSET DOMAIN FlaggedNames
    OBVIOUS
  <2>3. \A k \in keep : FlaggedNames[k] \in told /\ FlaggedNames[k] \in Names
    BY <1>1
  <2>. HIDE DEF keep
  <2>4. heard \in Seq(Names) /\ \E place : Thinned(FlaggedNames, keep, heard, place)
    BY <1>1, <2>1, <2>2, ThinFacts
  <2>5. DOMAIN heard = 1..Len(heard) /\ Len(heard) \in Nat
        /\ \A j \in 1..Len(heard) : heard[j] \in told /\ heard[j] \in Names
    BY <2>3, <2>4 DEF Thinned
  <2>6. \A j \in 1..Len(heard) : Decision(heard[j], answer[heard[j]]) \in Decisions
    BY <2>5 DEF Decision, Decisions
  <2>7. more \in Seq(Decisions)
    <3>. HIDE DEF Decision, Decisions
    <3>. QED  BY <2>5, <2>6
  <2>. HIDE DEF more, dropped
  <2>8. decisions' = [merges |-> <<>>, anaphors |-> dropped \o more]
    BY <1>5 DEF more, dropped
  <2>9. dropped \o more \in Seq(Decisions) /\ Range(dropped \o more) = Range(dropped) \cup Range(more)
    BY <1>2, <2>7, RangeOfConcat
  <2>10. decisions'.anaphors = dropped \o more
    BY <2>8
  <2>. QED  BY <1>3, <2>8, <2>9, <2>10
<1>6. \/ decisions' = [decisions EXCEPT !.anaphors = dropped]
      \/ \E told \in SUBSET Range(FlaggedNames) :
           \E answer \in [told -> Names \cup {Blank, None}] :
             LET heard == Only(FlaggedNames, LAMBDA n : n \in told)
             IN  decisions' = [decisions EXCEPT !.anaphors =
                    dropped \o [k \in DOMAIN heard |-> Decision(heard[k], answer[heard[k]])]]
  BY DEF ResolveAnaphors
<1>. HIDE DEF dropped
<1>7. CASE \E told \in SUBSET Range(FlaggedNames) :
           \E answer \in [told -> Names \cup {Blank, None}] :
             LET heard == Only(FlaggedNames, LAMBDA n : n \in told)
             IN  decisions' = [decisions EXCEPT !.anaphors =
                    dropped \o [k \in DOMAIN heard |-> Decision(heard[k], answer[heard[k]])]]
  <2>0. PICK told \in SUBSET Range(FlaggedNames) :
           \E answer \in [told -> Names \cup {Blank, None}] :
             LET heard == Only(FlaggedNames, LAMBDA n : n \in told)
             IN  decisions' = [decisions EXCEPT !.anaphors =
                    dropped \o [k \in DOMAIN heard |-> Decision(heard[k], answer[heard[k]])]]
    BY <1>7
  <2>1. PICK answer \in [told -> Names \cup {Blank, None}] :
             LET heard == Only(FlaggedNames, LAMBDA n : n \in told)
             IN  decisions' = [decisions EXCEPT !.anaphors =
                    dropped \o [k \in DOMAIN heard |-> Decision(heard[k], answer[heard[k]])]]
    BY <2>0
  <2>. DEFINE heard == Only(FlaggedNames, LAMBDA n : n \in told)
  <2>2. decisions' = [decisions EXCEPT !.anaphors =
                    dropped \o [k \in DOMAIN heard |-> Decision(heard[k], answer[heard[k]])]]
    BY <2>1
  <2>3. heard = Only(FlaggedNames, LAMBDA n : n \in told)
    OBVIOUS
  <2>. HIDE DEF heard
  <2>. QED  BY <1>5, <2>2, <2>3
<1>. QED  BY <1>4, <1>6, <1>7

\* A finite set as a sequence.
LEMMA ListFacts ==
    ASSUME NEW S, IsFiniteSet(S)
    PROVE  SetToSeq(S) \in Seq(S)
<1>. DEFINE n == Cardinality(S)
<1>1. n \in Nat /\ ExistsBijection(1..n, S)
  BY FS_CardinalityType
<1>2. \E f \in [1..n -> S] : IsInjective(f)
  <2>1. PICK f : f \in Bijection(1..n, S)
    BY <1>1 DEF ExistsBijection
  <2>2. f \in [1..n -> S] /\ \A a, b \in 1..n : f[a] = f[b] => a = b
    BY <2>1 DEF Bijection, Injection, IsInjective
  <2>. QED  BY <2>2 DEF IsInjective
<1>3. SetToSeq(S) \in [1..n -> S]
  BY <1>2 DEF SetToSeq
<1>. HIDE DEF n
<1>. QED  BY <1>1, <1>3

Deciding == decisions \in [merges : Seq(Decisions), anaphors : Seq(Decisions)]

\* A batch adds decisions on merges and leaves the others alone.
LEMMA MergeDecides ==
    ASSUME pairs \in Seq(PairSets), at \in Nat \ {0}, Deciding, MergeBatch
    PROVE  /\ Deciding' /\ decisions'.anaphors = decisions.anaphors
           /\ at' \in Nat \ {0} /\ pairs' = pairs
<1>. DEFINE end == Min({at + BatchSize - 1, Len(pairs)})
            batch == SubSeq(pairs, at, end)
            Aliases(k, canonical) == SetToSeq(batch[k] \ {canonical})
            row(k, to) == IF to = None THEN <<>>
                          ELSE [j \in DOMAIN Aliases(k, to) |-> Decision(Aliases(k, to)[j], to)]
<1>1. BatchSize \in Nat \ {0}
  BY CostAssumption
<1>2. at \in 1..Len(pairs) /\ Len(pairs) \in Nat /\ at' = at + BatchSize /\ pairs' = pairs
  BY DEF MergeBatch
<1>3. at' \in Nat \ {0}
  BY <1>1, <1>2
<1>4. end \in at..Len(pairs)
  <2>. DEFINE S == {at + BatchSize - 1, Len(pairs)}
  <2>1. \A x \in S : x \in Nat /\ x >= at
    BY <1>1, <1>2
  <2>2. \E x \in S : \A y \in S : x <= y
    BY <1>1, <1>2
  <2>3. end \in S /\ \A y \in S : end <= y
    BY <2>2 DEF Min
  <2>4. end <= Len(pairs)
    BY <2>3
  <2>. HIDE DEF S, end
  <2>. QED  BY <1>2, <2>1, <2>3, <2>4
<1>. HIDE DEF end
<1>5. batch \in Seq(PairSets)
  <2>1. \A i \in at..end : pairs[i] \in PairSets
    <3>. HIDE DEF PairSets
    <3>. QED  BY <1>2, <1>4
  <2>. HIDE DEF PairSets
  <2>. QED  BY <1>2, <1>4, <2>1
<1>. HIDE DEF batch
<1>6. ASSUME NEW k \in DOMAIN batch, NEW to \in Names \cup {None}
      PROVE  row(k, to) \in Seq(Decisions)
  <2>1. CASE to = None
    BY <2>1
  <2>2. CASE to # None
    <3>. DEFINE S == batch[k] \ {to}
                list == SetToSeq(S)
    <3>1. batch[k] \in PairSets
      <4>. HIDE DEF PairSets
      <4>. QED  BY <1>5
    <3>2. batch[k] \subseteq Names /\ IsFiniteSet(batch[k])
      BY <3>1 DEF PairSets
    <3>3. S \subseteq Names /\ IsFiniteSet(S)
      BY <3>2, FS_Subset
    <3>4. list \in Seq(S)
      BY <3>3, ListFacts
    <3>. HIDE DEF list
    <3>5. DOMAIN list = 1..Len(list) /\ Len(list) \in Nat /\ \A j \in 1..Len(list) : list[j] \in S
      <4>. HIDE DEF S
      <4>. QED  BY <3>4
    <3>6. \A j \in 1..Len(list) : Decision(list[j], to) \in Decisions
      BY <2>2, <3>3, <3>5 DEF Decision, Decisions
    <3>7. row(k, to) = [j \in DOMAIN list |-> Decision(list[j], to)]
      BY <2>2 DEF list
    <3>. HIDE DEF Decision, Decisions, row
    <3>. QED  BY <3>5, <3>6, <3>7
  <2>. QED  BY <2>1, <2>2
<1>7. CASE UNCHANGED decisions
  BY <1>2, <1>3, <1>7 DEF Deciding
<1>8. ASSUME NEW verdict \in [DOMAIN batch -> Names \cup {None}],
             decisions' = [decisions EXCEPT !.merges = @ \o FlattenSeq([k \in DOMAIN batch |-> row(k, verdict[k])])]
      PROVE  Deciding' /\ decisions'.anaphors = decisions.anaphors
  <2>. DEFINE rows == [k \in DOMAIN batch |-> row(k, verdict[k])]
  <2>1. \A k \in DOMAIN batch : row(k, verdict[k]) \in Seq(Decisions)
    BY <1>6, <1>8
  <2>. HIDE DEF row
  <2>2. rows \in Seq(Seq(Decisions))
    <3>. DEFINE W == Seq(Decisions)
    <3>1. \A k \in DOMAIN batch : row(k, verdict[k]) \in W
      BY <2>1
    <3>2. DOMAIN batch = 1..Len(batch) /\ Len(batch) \in Nat
      BY <1>5
    <3>. HIDE DEF W
    <3>3. rows \in Seq(W)
      BY <3>1, <3>2
    <3>. QED  BY <3>3 DEF W
  <2>. HIDE DEF rows
  <2>3. FlattenSeq(rows) \in Seq(Decisions)
    BY <2>2, FlattenFacts
  <2>4. decisions.merges \in Seq(Decisions) /\ decisions.anaphors \in Seq(Decisions)
    BY DEF Deciding
  <2>5. decisions.merges \o FlattenSeq(rows) \in Seq(Decisions)
    BY <2>3, <2>4, ConcatType
  <2>6. decisions' = [decisions EXCEPT !.merges = @ \o FlattenSeq(rows)]
    BY <1>8 DEF rows
  <2>7. decisions' = [merges |-> decisions.merges \o FlattenSeq(rows), anaphors |-> decisions.anaphors]
    BY <2>6 DEF Deciding
  <2>. QED  BY <2>4, <2>5, <2>7 DEF Deciding
<1>9. \/ UNCHANGED decisions
      \/ \E verdict \in [DOMAIN batch -> Names \cup {None}] :
            decisions' = [decisions EXCEPT !.merges = @ \o FlattenSeq([k \in DOMAIN batch |-> row(k, verdict[k])])]
  BY DEF MergeBatch, batch, end
<1>. HIDE DEF row
<1>. QED  BY <1>2, <1>3, <1>7, <1>8, <1>9

\* Whoever a decision is about is in the map.
LEMMA MapCovers ==
    ASSUME Deciding
    PROVE  \A d \in Range(decisions.anaphors) : d.name \in DOMAIN NormalizationMap
<1>. DEFINE decided == decisions.merges \o decisions.anaphors
            aliases == [k \in DOMAIN AliasPairs |-> Decision(AliasPairs[k][1], AliasPairs[k][2])]
<1>1. DOMAIN NormalizationMap = {d.name : d \in Range(decided \o aliases)}
  BY DEF NormalizationMap
<1>2. AliasPairs \in Seq(Names \X Names)
  BY LexiconAssumption, ThinFacts DEF AliasPairs, Only
<1>3. aliases \in Seq(Decisions)
  <2>1. \A p \in Names \X Names : Decision(p[1], p[2]) \in Decisions
    BY DEF Decision, Decisions
  <2>2. DOMAIN AliasPairs = 1..Len(AliasPairs) /\ Len(AliasPairs) \in Nat
        /\ \A k \in 1..Len(AliasPairs) : AliasPairs[k] \in Names \X Names
    BY <1>2
  <2>3. \A k \in 1..Len(AliasPairs) : Decision(AliasPairs[k][1], AliasPairs[k][2]) \in Decisions
    BY <2>1, <2>2
  <2>. HIDE DEF Decision, Decisions
  <2>. QED  BY <2>2, <2>3
<1>. HIDE DEF aliases
<1>4. decided \in Seq(Decisions) /\ Range(decisions.anaphors) \subseteq Range(decided)
  <2>1. decisions.merges \in Seq(Decisions) /\ decisions.anaphors \in Seq(Decisions)
    BY DEF Deciding
  <2>. QED  BY <2>1, RangeOfConcat
<1>. HIDE DEF decided
<1>5. Range(decided) \subseteq Range(decided \o aliases)
  BY <1>3, <1>4, RangeOfConcat
<1>. QED  BY <1>1, <1>4, <1>5

EventsRead ==
    /\ events \in Seq(Events)
    /\ \A k \in DOMAIN events : events[k].parts # <<>>

RawParts == [proto : STRING, name : Names \cup {Blank}, coarse : STRING]
RawEvents == [verb : STRING, parts : Seq(RawParts)]

\* What Pass 1 keeps of an answer.
LEMMA ParsedFacts ==
    ASSUME NEW draft \in Drafts
    PROVE  /\ ParseEvents(draft) \in Seq(Events)
           /\ \A k \in DOMAIN ParseEvents(draft) : ParseEvents(draft)[k].parts # <<>>
<1>. DEFINE coerced == [k \in DOMAIN draft |-> CoerceEvent(draft[k])]
            keep == {k \in DOMAIN coerced : coerced[k].verb # NoVerb /\ coerced[k].parts # <<>>}
<1>1. draft \in Seq(RawEvents)
  BY AnswerAssumption DEF RawEvents, RawParts
<1>2. ASSUME NEW raw \in RawEvents
      PROVE  CoerceEvent(raw) \in Events
  <2>. DEFINE named == {k \in DOMAIN raw.parts : raw.parts[k].name # Blank}
              left == Thin(raw.parts, named)
  <2>1. raw.parts \in Seq(RawParts) /\ raw.verb \in STRING
    BY DEF RawEvents
  <2>2. CoerceEvent(raw) = [raw EXCEPT !.parts = left]
    BY DEF CoerceEvent, Only
  <2>3. \A k \in DOMAIN raw.parts : raw.parts[k] \in RawParts
    <3>. HIDE DEF RawParts
    <3>. QED  BY <2>1
  <2>4. \A k \in named : raw.parts[k] \in Parts
    BY <2>3 DEF RawParts, Parts
  <2>5. named \in SUBSET DOMAIN raw.parts
    OBVIOUS
  <2>. HIDE DEF named
  <2>6. left \in Seq({raw.parts[k] : k \in named})
    <3>. HIDE DEF RawParts
    <3>. QED  BY <2>1, <2>5, ThinRange
  <2>7. left \in Seq(Parts)
    <3>. DEFINE T == {raw.parts[k] : k \in named}
    <3>1. T \subseteq Parts
      BY <2>4
    <3>. HIDE DEF T, left, Parts
    <3>2. left \in Seq(T)
      BY <2>6 DEF T
    <3>. QED  BY <3>1, <3>2
  <2>. HIDE DEF left
  <2>. QED  BY <2>1, <2>2, <2>7 DEF RawEvents, Events
<1>3. coerced \in Seq(Events) /\ DOMAIN coerced = DOMAIN draft
  <2>1. DOMAIN draft = 1..Len(draft) /\ Len(draft) \in Nat /\ \A k \in DOMAIN draft : draft[k] \in RawEvents
    <3>. HIDE DEF RawEvents
    <3>. QED  BY <1>1
  <2>2. \A k \in 1..Len(draft) : CoerceEvent(draft[k]) \in Events
    BY <1>2, <2>1
  <2>. HIDE DEF Events, CoerceEvent
  <2>. QED  BY <2>1, <2>2
<1>4. ParseEvents(draft) = Thin(coerced, keep)
  BY DEF ParseEvents, Only
<1>5. keep \in SUBSET DOMAIN coerced /\ \A k \in keep : coerced[k].parts # <<>>
  OBVIOUS
<1>. HIDE DEF keep, coerced
<1>6. ParseEvents(draft) \in Seq(Events) /\ Range(ParseEvents(draft)) = {coerced[k] : k \in keep}
  <2>. HIDE DEF Events
  <2>1. Thin(coerced, keep) \in Seq(Events)
    BY <1>3, <1>5, ThinFacts
  <2>2. Range(Thin(coerced, keep)) = {coerced[k] : k \in keep}
    BY <1>3, <1>5, ThinRange
  <2>. QED  BY <1>4, <2>1, <2>2
<1>. QED  BY <1>5, <1>6 DEF Range

\* Extracted events keep their shape.
LEMMA EventsKept ==
    ASSUME EventsRead, [Next]_vars
    PROVE  EventsRead'
<1>1. ASSUME NEW draft \in Drafts, events' = events \o ParseEvents(draft)
      PROVE  EventsRead'
  <2>1. /\ ParseEvents(draft) \in Seq(Events)
        /\ \A e \in Range(ParseEvents(draft)) : e.parts # <<>>
    BY ParsedFacts DEF Range
  <2>2. events \in Seq(Events) /\ \A e \in Range(events) : e.parts # <<>>
    BY DEF EventsRead, Range
  <2>3. events' \in Seq(Events) /\ Range(events') = Range(events) \cup Range(ParseEvents(draft))
    <3>. HIDE DEF Events
    <3>. QED  BY <1>1, <2>1, <2>2, RangeOfConcat
  <2>4. \A e \in Range(events') : e.parts # <<>>
    BY <2>1, <2>2, <2>3
  <2>. QED  BY <2>3, <2>4 DEF EventsRead, Range
<1>2. CASE events' = <<>>
  BY <1>2 DEF EventsRead
<1>3. CASE UNCHANGED events
  BY <1>3 DEF EventsRead
<1>4. ReadChunk => \/ UNCHANGED events
                   \/ \E draft \in Drafts : events' = events \o ParseEvents(draft)
  BY DEF ReadChunk
<1>5. Next => ReadChunk \/ events' = <<>> \/ UNCHANGED events
  BY DEF Next, MergeChunks, MapEvent, EndPass2, RefineEntity, NextAssertion, EndPass3, PassRaises,
         ResolveAnaphors, MergeBatch, ApplyNormalization, LosePass4, BeginSubmit, SubmitCandidate, EndSubmit
<1>. QED  BY <1>1, <1>2, <1>3, <1>4, <1>5 DEF vars

-----------------------------------------------------------------------------
(***************************************************************************)
(* The work of Passes 2 and 3: mapped and unresolved hold each event taken *)
(* up once, as Pass 1 found it, and refinements stay below their types.    *)
(***************************************************************************)
Working == phase \in {"map", "refine", "resolve", "merge"}

NothingYet ==
    /\ phase = "read" => mapped = <<>> /\ unresolved = <<>> /\ cache = {}
    /\ (phase = "read" \/ Working) =>
          norm = <<>> /\ kept = FALSE /\ candidates = <<>> /\ attempt = 0
    /\ (phase = "read" \/ (Working /\ phase # "merge")) =>
          decisions = [merges |-> <<>>, anaphors |-> <<>>]

Ofs(list) == {a.of : a \in Range(list)}
EachOnce(list) == \A i, j \in DOMAIN list : list[i].of = list[j].of => i = j

\* The events taken up so far.
TakenUp == IF phase = "map" THEN 1..(at - 1) ELSE DOMAIN events

\* A refinement keeps below the coarse type it started from.
Earned(r) == r.type \in {r.coarse} \cup Subtypes(r.coarse)
RefsEarned(parts, refs) ==
    \A r \in Range(refs) : r.coarse = CoarseType(parts, r.name) /\ Earned(r)

\* Each event taken up has become one assertion or was left, as it was.
WorkedOn ==
    /\ mapped \in Seq(Mapped) /\ unresolved \in Seq(Unmapped)
    /\ phase = "map" => at \in 1..(Len(events) + 1)
    /\ EachOnce(mapped) /\ EachOnce(unresolved)
    /\ Ofs(mapped) \cap Ofs(unresolved) = {} /\ Ofs(mapped) \cup Ofs(unresolved) = TakenUp
    /\ \A a \in Range(mapped) : a.parts = events[a.of].parts /\ RefsEarned(a.parts, a.refs)
    /\ \A u \in Range(unresolved) : u.parts = events[u.of].parts
    /\ cache \subseteq Refs /\ \A r \in cache : Earned(r)

\* Appending what is of another event keeps the events apart.
LEMMA AppendOf ==
    ASSUME NEW T, NEW list \in Seq(T), NEW x \in T, EachOnce(list), x.of \notin Ofs(list)
    PROVE  LET longer == Append(list, x)
           IN  /\ longer \in Seq(T) /\ Range(longer) = Range(list) \cup {x}
               /\ EachOnce(longer) /\ Ofs(longer) = Ofs(list) \cup {x.of}
<1>. DEFINE longer == Append(list, x)
<1>1. longer \in Seq(T) /\ Range(longer) = Range(list) \cup {x}
  BY RangeOfAppend
<1>2. /\ DOMAIN list = 1..Len(list) /\ DOMAIN longer = 1..(Len(list) + 1) /\ Len(list) \in Nat
      /\ \A i \in 1..Len(list) : longer[i] = list[i]
      /\ longer[Len(list) + 1] = x
  OBVIOUS
<1>. HIDE DEF longer
<1>3. Ofs(longer) = Ofs(list) \cup {x.of}
  BY <1>1 DEF Ofs
<1>4. \A i \in 1..Len(list) : list[i].of \in Ofs(list)
  BY <1>2 DEF Ofs, Range
<1>5. EachOnce(longer)
  <2>1. ASSUME NEW i \in DOMAIN longer, NEW j \in DOMAIN longer, longer[i].of = longer[j].of
        PROVE  i = j
    <3>1. (i \in 1..Len(list) \/ i = Len(list) + 1) /\ (j \in 1..Len(list) \/ j = Len(list) + 1)
      BY <1>2
    <3>2. CASE i \in 1..Len(list) /\ j \in 1..Len(list)
      BY <1>2, <2>1, <3>2 DEF EachOnce
    <3>3. CASE i \in 1..Len(list) /\ j = Len(list) + 1
      BY <1>2, <1>4, <2>1, <3>3
    <3>4. CASE i = Len(list) + 1 /\ j \in 1..Len(list)
      BY <1>2, <1>4, <2>1, <3>4
    <3>. QED  BY <3>1, <3>2, <3>3, <3>4
  <2>. QED  BY <2>1 DEF EachOnce
<1>. QED  BY <1>1, <1>3, <1>5 DEF longer

\* An event becomes one assertion, or is left: never both, never twice.
LEMMA MapKeepsWork ==
    ASSUME EventsRead, WorkedOn, MapEvent
    PROVE  WorkedOn'
<1>. DEFINE e == events[at]
            left == [of |-> at, parts |-> e.parts]
<1>1. /\ phase = "map" /\ phase' = "map" /\ at' = at + 1 /\ events' = events /\ cache' = cache
      /\ at \in 1..Len(events) /\ Len(events) \in Nat /\ DOMAIN events = 1..Len(events)
  BY DEF MapEvent, EventsRead
<1>2. e \in Events
  <2>. HIDE DEF Events
  <2>. QED  BY <1>1 DEF EventsRead
<1>3. e.parts \in Seq(Parts)
  BY <1>2 DEF Events
<1>4. /\ at' \in 1..(Len(events') + 1)
      /\ TakenUp' = TakenUp \cup {at} /\ at \notin TakenUp
  BY <1>1 DEF TakenUp
<1>5. /\ mapped \in Seq(Mapped) /\ unresolved \in Seq(Unmapped)
      /\ EachOnce(mapped) /\ EachOnce(unresolved)
      /\ Ofs(mapped) \cap Ofs(unresolved) = {} /\ Ofs(mapped) \cup Ofs(unresolved) = TakenUp
      /\ \A a \in Range(mapped) : a.parts = events[a.of].parts /\ RefsEarned(a.parts, a.refs)
      /\ \A u \in Range(unresolved) : u.parts = events[u.of].parts
      /\ cache \subseteq Refs /\ \A r \in cache : Earned(r)
  BY DEF WorkedOn
<1>6. at \notin Ofs(mapped) /\ at \notin Ofs(unresolved)
  BY <1>4, <1>5
<1>7. CASE unresolved' = Append(unresolved, left) /\ mapped' = mapped
  <2>1. left \in Unmapped /\ left.of = at /\ left.parts = events[left.of].parts
    BY <1>1, <1>3 DEF Unmapped
  <2>. HIDE DEF left
  <2>2. /\ unresolved' \in Seq(Unmapped) /\ Range(unresolved') = Range(unresolved) \cup {left}
        /\ EachOnce(unresolved') /\ Ofs(unresolved') = Ofs(unresolved) \cup {at}
    <3>. HIDE DEF Unmapped
    <3>. QED  BY <1>5, <1>6, <1>7, <2>1, AppendOf
  <2>3. Ofs(mapped') \cap Ofs(unresolved') = {} /\ Ofs(mapped') \cup Ofs(unresolved') = TakenUp'
    BY <1>4, <1>5, <1>6, <1>7, <2>2
  <2>. QED  BY <1>1, <1>4, <1>5, <1>7, <2>1, <2>2, <2>3 DEF WorkedOn
<1>8. ASSUME NEW pred \in Sensed, NEW roles \in Seq(Roles),
             mapped' = Append(mapped, Assertion(at, pred, roles)), unresolved' = unresolved
      PROVE  WorkedOn'
  <2>. DEFINE new == Assertion(at, pred, roles)
  <2>1. new \in Mapped /\ new.of = at /\ new.parts = events[new.of].parts /\ new.refs = <<>>
    BY <1>1, <1>3 DEF Mapped, Assertion
  <2>. HIDE DEF new
  <2>2. RefsEarned(new.parts, new.refs)
    BY <2>1 DEF RefsEarned, Range
  <2>3. /\ mapped' \in Seq(Mapped) /\ Range(mapped') = Range(mapped) \cup {new}
        /\ EachOnce(mapped') /\ Ofs(mapped') = Ofs(mapped) \cup {at}
    <3>1. mapped' = Append(mapped, new)
      BY <1>8 DEF new
    <3>. HIDE DEF Mapped
    <3>. QED  BY <1>5, <1>6, <2>1, <3>1, AppendOf
  <2>4. Ofs(mapped') \cap Ofs(unresolved') = {} /\ Ofs(mapped') \cup Ofs(unresolved') = TakenUp'
    BY <1>4, <1>5, <1>6, <1>8, <2>3
  <2>5. \A a \in Range(mapped') : a.parts = events'[a.of].parts /\ RefsEarned(a.parts, a.refs)
    BY <1>1, <1>5, <2>1, <2>2, <2>3
  <2>. QED  BY <1>1, <1>4, <1>5, <1>8, <2>3, <2>4, <2>5 DEF WorkedOn
<1>9. \/ unresolved' = Append(unresolved, left) /\ mapped' = mapped
      \/ \E pred \in Sensed, roles \in Seq(Roles) :
            mapped' = Append(mapped, Assertion(at, pred, roles)) /\ unresolved' = unresolved
  <2>1. RoleMaps \subseteq Seq(Roles)
    BY AnswerAssumption DEF Roles
  <2>2. \A pred \in Sensed : AssignSlots(e.parts, pred) \in Seq(Roles)
    BY <1>3, LexiconAssumption, AssignSlotsFacts
  <2>. DEFINE senses == LookupLemma(e.verb)
              Some(pred, roles) == pred \in Sensed /\ mapped' = Append(mapped, Assertion(at, pred, roles))
  <2>3. \/ LeaveUnresolved
        \/ Map(senses[1], AssignSlots(e.parts, senses[1])) /\ unresolved' = unresolved
        \/ (\E pred \in Range(senses), roles \in RoleMaps : Map(pred, roles)) /\ unresolved' = unresolved
    BY DEF MapEvent
  <2>4. \A pred, roles : Map(pred, roles) => Some(pred, roles)
    BY DEF Map
  <2>5. LeaveUnresolved => unresolved' = Append(unresolved, left) /\ mapped' = mapped
    BY DEF LeaveUnresolved
  <2>. HIDE DEF senses, e, left, Roles
  <2>. QED  BY <2>1, <2>2, <2>3, <2>4, <2>5
<1>. QED  BY <1>7, <1>8, <1>9

\* Narrowing stays in the subtree of the coarse type.
LEMMA NarrowedFacts ==
    ASSUME NEW coarse, NEW pred, NEW role
    PROVE  Narrowed(coarse, pred, role) \subseteq {coarse} \cup Subtypes(coarse)
BY DEF Narrowed

\* A coarse type is a participant's, or Entity when nobody bears the name.
LEMMA CoarseFacts ==
    ASSUME NEW T, NEW parts \in Seq(T), NEW n
    PROVE  \/ CoarseType(parts, n) = Entity /\ ~\E p \in Range(parts) : p.name = n
           \/ \E p \in Range(parts) : p.name = n /\ CoarseType(parts, n) = p.coarse
<1>. DEFINE keep == {k \in DOMAIN parts : parts[k].name = n}
            named == Thin(parts, keep)
<1>1. CoarseType(parts, n) = IF named = <<>> THEN Entity ELSE Last(named).coarse
  BY DEF CoarseType, Only
<1>2. keep \in SUBSET DOMAIN parts
  OBVIOUS
<1>3. /\ named \in Seq({parts[k] : k \in keep}) /\ Range(named) = {parts[k] : k \in keep}
  <2>. HIDE DEF keep
  <2>. QED  BY <1>2, ThinRange
<1>4. \A x \in {parts[k] : k \in keep} : x \in Range(parts) /\ x.name = n
  BY DEF Range
<1>5. \A p \in Range(parts) : p.name = n => p \in {parts[k] : k \in keep}
  BY DEF Range
<1>. DEFINE S == {parts[k] : k \in keep}
<1>. HIDE DEF S, named
<1>6. named \in Seq(S) /\ Range(named) = S
  BY <1>3 DEF S
<1>7. CASE named = <<>>
  <2>1. S = {}
    BY <1>6, <1>7 DEF Range
  <2>. QED  BY <1>1, <1>5, <1>7, <2>1 DEF S
<1>8. CASE named # <<>>
  <2>1. Last(named) \in S
    BY <1>6, <1>8 DEF Last
  <2>. QED  BY <1>1, <1>4, <1>8, <2>1 DEF S
<1>. QED  BY <1>7, <1>8

LEMMA CoarseIsKind ==
    ASSUME NEW parts \in Seq(Parts), NEW n
    PROVE  CoarseType(parts, n) \in STRING \cup {Entity}
<1>1. \A p \in Range(parts) : p \in Parts
  <2>. HIDE DEF Parts
  <2>. QED  BY DEF Range
<1>2. \A p \in Range(parts) : p.coarse \in STRING
  BY <1>1 DEF Parts
<1>3. \/ CoarseType(parts, n) = Entity
      \/ \E p \in Range(parts) : CoarseType(parts, n) = p.coarse
  <2>. HIDE DEF Parts
  <2>. QED  BY CoarseFacts
<1>. QED  BY <1>2, <1>3

\* What RefineEntity notes down is earned.
LEMMA RefineNotes ==
    ASSUME WorkedOn, RefineEntity
    PROVE  \E r \in Refs : /\ cache' = cache \cup {r}
                           /\ mapped' = [mapped EXCEPT ![at].refs = Append(@, r)]
                           /\ r.coarse = CoarseType(mapped[at].parts, r.name) /\ Earned(r)
<1>. DEFINE a == mapped[at]
            name == NextRole(a).name
            coarse == CoarseType(a.parts, name)
            known == Known(name, coarse)
            options == Narrowed(coarse, a.pred, NextRole(a).role)
            R(t) == [name |-> name, coarse |-> coarse, type |-> t]
            Note(t) == /\ cache' = cache \cup {R(t)}
                       /\ mapped' = [mapped EXCEPT ![at].refs = Append(@, R(t))]
<1>1. \/ Note(IF known # {} THEN (CHOOSE r \in known : TRUE).type ELSE coarse)
      \/ Note(coarse)
      \/ \E t \in options \cup {coarse} : Note(t)
  BY DEF RefineEntity
<1>2. a \in Mapped /\ at \in DOMAIN mapped
  <2>. HIDE DEF Mapped
  <2>. QED  BY DEF WorkedOn, RefineEntity
<1>3. a.roles \in Seq(Roles) /\ a.refs \in Seq(Refs) /\ a.parts \in Seq(Parts)
  BY <1>2 DEF Mapped
<1>4. name \in Names
  <2>1. Len(a.refs) < Len(a.roles) /\ name # Blank
    BY DEF RefineEntity
  <2>2. Len(a.refs) + 1 \in DOMAIN a.roles
    <3>1. Len(a.refs) \in Nat /\ Len(a.roles) \in Nat /\ DOMAIN a.roles = 1..Len(a.roles)
      BY <1>3
    <3>. QED  BY <2>1, <3>1
  <2>3. NextRole(a) \in Roles
    <3>. HIDE DEF Roles, a
    <3>. QED  BY <1>3, <2>2 DEF NextRole
  <2>4. name \in Names \cup {Blank}
    BY <2>3 DEF Roles
  <2>. HIDE DEF name
  <2>. QED  BY <2>1, <2>4
<1>5. coarse \in STRING \cup {Entity}
  BY <1>3, CoarseIsKind
<1>6. options \subseteq {coarse} \cup Subtypes(coarse)
  BY NarrowedFacts
<1>7. \A t \in {coarse} \cup Subtypes(coarse) : t \in Kinds
  BY <1>5 DEF Subtypes, Kinds
<1>8. known # {} => (CHOOSE r \in known : TRUE).type \in {coarse} \cup Subtypes(coarse)
  <2>1. \A r \in known : r \in cache /\ r.coarse = coarse
    BY DEF Known
  <2>2. \A r \in cache : r.type \in {r.coarse} \cup Subtypes(r.coarse)
    BY DEF WorkedOn, Earned
  <2>. HIDE DEF known, coarse
  <2>. QED  BY <2>1, <2>2
<1>9. ASSUME NEW t \in {coarse} \cup Subtypes(coarse), Note(t)
      PROVE  \E r \in Refs : /\ cache' = cache \cup {r}
                             /\ mapped' = [mapped EXCEPT ![at].refs = Append(@, r)]
                             /\ r.coarse = CoarseType(mapped[at].parts, r.name) /\ Earned(r)
  <2>1. R(t) \in Refs
    BY <1>4, <1>5, <1>7 DEF Refs
  <2>2. R(t).coarse = CoarseType(mapped[at].parts, R(t).name) /\ Earned(R(t))
    BY DEF Earned
  <2>3. cache' = cache \cup {R(t)} /\ mapped' = [mapped EXCEPT ![at].refs = Append(@, R(t))]
    BY <1>9
  <2>. QED  BY <2>1, <2>2, <2>3
<1>10. \E t \in {coarse} \cup Subtypes(coarse) : Note(t)
  <2>. HIDE DEF Note, known, options, coarse
  <2>. QED  BY <1>1, <1>6, <1>8
<1>. HIDE DEF Note, coarse
<1>. QED  BY <1>9, <1>10

\* A refinement touches nothing but the assertion it is added to.
LEMMA RefineKeepsWork ==
    ASSUME EventsRead, WorkedOn, RefineEntity
    PROVE  WorkedOn'
<1>. DEFINE a == mapped[at]
<1>1. PICK r \in Refs : /\ cache' = cache \cup {r}
                        /\ mapped' = [mapped EXCEPT ![at].refs = Append(@, r)]
                        /\ r.coarse = CoarseType(a.parts, r.name) /\ Earned(r)
  BY RefineNotes
<1>. DEFINE b == [a EXCEPT !.refs = Append(@, r)]
<1>2. /\ phase = "refine" /\ phase' = "refine" /\ at \in DOMAIN mapped
      /\ UNCHANGED <<at, events, unresolved>>
  BY DEF RefineEntity
<1>3. /\ mapped \in Seq(Mapped) /\ unresolved \in Seq(Unmapped)
      /\ EachOnce(mapped) /\ EachOnce(unresolved)
      /\ Ofs(mapped) \cap Ofs(unresolved) = {} /\ Ofs(mapped) \cup Ofs(unresolved) = TakenUp
      /\ \A x \in Range(mapped) : x.parts = events[x.of].parts /\ RefsEarned(x.parts, x.refs)
      /\ \A u \in Range(unresolved) : u.parts = events[u.of].parts
      /\ cache \subseteq Refs /\ \A x \in cache : Earned(x)
  BY DEF WorkedOn
<1>4. a \in Mapped
  <2>. HIDE DEF Mapped
  <2>. QED  BY <1>2, <1>3
<1>5. a.refs \in Seq(Refs) /\ Append(a.refs, r) \in Seq(Refs) /\ Range(Append(a.refs, r)) = Range(a.refs) \cup {r}
  <2>1. a.refs \in Seq(Refs)
    BY <1>4 DEF Mapped
  <2>. HIDE DEF Refs, a
  <2>. QED  BY <2>1, RangeOfAppend
<1>6. b \in Mapped /\ b.of = a.of /\ b.parts = a.parts /\ b.refs = Append(a.refs, r)
  <2>. HIDE DEF a
  <2>. QED  BY <1>4, <1>5 DEF Mapped
<1>7. mapped' = [mapped EXCEPT ![at] = b]
  BY <1>1
<1>8. RefsEarned(b.parts, b.refs)
  <2>1. RefsEarned(a.parts, a.refs)
    BY <1>2, <1>3 DEF Range
  <2>. HIDE DEF a, b
  <2>. QED  BY <1>1, <1>5, <1>6, <2>1 DEF RefsEarned
<1>. HIDE DEF a, b
<1>9. mapped' \in Seq(Mapped) /\ DOMAIN mapped' = DOMAIN mapped
  <2>. HIDE DEF Mapped
  <2>. QED  BY <1>2, <1>3, <1>6, <1>7
<1>10. \A k \in DOMAIN mapped : mapped'[k] = IF k = at THEN b ELSE mapped[k]
  <2>. HIDE DEF Mapped
  <2>. QED  BY <1>2, <1>3, <1>7
<1>11. \A k \in DOMAIN mapped : mapped'[k].of = mapped[k].of
  BY <1>6, <1>10 DEF a
<1>12. EachOnce(mapped')
  BY <1>3, <1>9, <1>11 DEF EachOnce
<1>13. Ofs(mapped') = Ofs(mapped)
  BY <1>9, <1>11 DEF Ofs, Range
<1>14. \A x \in Range(mapped') : x.parts = events[x.of].parts /\ RefsEarned(x.parts, x.refs)
  <2>1. ASSUME NEW k \in DOMAIN mapped
        PROVE  mapped'[k].parts = events[mapped'[k].of].parts /\ RefsEarned(mapped'[k].parts, mapped'[k].refs)
    <3>1. mapped[k] \in Range(mapped)
      BY DEF Range
    <3>2. mapped[k].parts = events[mapped[k].of].parts /\ RefsEarned(mapped[k].parts, mapped[k].refs)
      BY <1>3, <3>1
    <3>3. CASE k = at
      <4>1. mapped'[k] = b /\ mapped[k] = a
        BY <1>10, <3>3 DEF a
      <4>. QED  BY <1>6, <1>8, <3>2, <4>1
    <3>4. CASE k # at
      BY <1>10, <3>2, <3>4
    <3>. QED  BY <3>3, <3>4
  <2>. QED  BY <1>9, <2>1 DEF Range
<1>15. cache' \subseteq Refs /\ \A x \in cache' : Earned(x)
  BY <1>1, <1>3
<1>16. TakenUp' = TakenUp
  BY <1>2 DEF TakenUp
<1>. QED  BY <1>2, <1>3, <1>9, <1>12, <1>13, <1>14, <1>15, <1>16 DEF WorkedOn

\* The steps between the passes leave the work as it is.
LEMMA QuietKeepsWork ==
    ASSUME EventsRead, WorkedOn, UNCHANGED <<events, mapped, unresolved>>,
           cache' = cache \/ cache' = {}, phase' # "map",
           phase = "map" => at > Len(events)
    PROVE  WorkedOn'
<1>1. TakenUp' = TakenUp
  <2>1. CASE phase = "map"
    <3>1. at = Len(events) + 1 /\ DOMAIN events = 1..Len(events) /\ Len(events) \in Nat
      BY <2>1 DEF WorkedOn, EventsRead
    <3>2. 1..(at - 1) = DOMAIN events
      BY <3>1
    <3>. QED  BY <2>1, <3>2 DEF TakenUp
  <2>2. CASE phase # "map"
    BY <2>2 DEF TakenUp
  <2>. QED  BY <2>1, <2>2
<1>. QED  BY <1>1 DEF WorkedOn

WorkInv == EventsRead /\ NothingYet /\ (Working => WorkedOn)

LEMMA WorkInit == Init => WorkInv
BY DEF Init, WorkInv, EventsRead, NothingYet, Working

LEMMA WorkNext == WorkInv /\ [Next]_vars => WorkInv'
<1>. SUFFICES ASSUME WorkInv, [Next]_vars PROVE WorkInv'
  OBVIOUS
<1>. USE DEF WorkInv
<1>1. EventsRead'
  BY EventsKept
<1>2. NothingYet'
  <2>1. CASE UNCHANGED vars
    BY <2>1 DEF NothingYet, Working, vars
  <2>2. CASE ReadChunk \/ MergeChunks \/ MapEvent \/ EndPass2 \/ RefineEntity \/ NextAssertion
    BY <2>2 DEF NothingYet, Working, ReadChunk, MergeChunks, MapEvent, EndPass2, RefineEntity, NextAssertion
  <2>3. CASE EndPass3 \/ PassRaises \/ ResolveAnaphors \/ MergeBatch
    BY <2>3 DEF NothingYet, Working, EndPass3, PassRaises, ResolveAnaphors, MergeBatch
  <2>4. CASE ApplyNormalization \/ LosePass4 \/ BeginSubmit \/ SubmitCandidate \/ EndSubmit
    BY <2>4 DEF NothingYet, Working, ApplyNormalization, LosePass4, BeginSubmit, SubmitCandidate, EndSubmit, Report
  <2>. QED  BY <2>1, <2>2, <2>3, <2>4 DEF Next
<1>3. Working' => WorkedOn'
  <2>1. CASE UNCHANGED vars
    BY <2>1 DEF WorkedOn, TakenUp, Working, vars
  <2>2. CASE ReadChunk
    BY <2>2 DEF ReadChunk, Working
  <2>3. CASE MergeChunks
    <3>1. CASE phase' = "map"
      <4>1. /\ mapped' = <<>> /\ unresolved' = <<>> /\ cache' = {} /\ at' = 1 /\ events' = events
        BY <2>3 DEF MergeChunks, NothingYet
      <4>2. Len(events) \in Nat
        BY DEF EventsRead
      <4>3. TakenUp' = {}
        BY <3>1, <4>1 DEF TakenUp
      <4>. QED  BY <4>1, <4>2, <4>3 DEF WorkedOn, EachOnce, Ofs, Range
    <3>2. CASE phase' # "map"
      BY <2>3, <3>2 DEF MergeChunks, Working
    <3>. QED  BY <3>1, <3>2
  <2>4. CASE MapEvent
    BY <2>4, MapKeepsWork DEF Working, MapEvent
  <2>5. CASE RefineEntity
    BY <2>5, RefineKeepsWork DEF Working, RefineEntity
  <2>6. CASE EndPass2 \/ NextAssertion \/ EndPass3 \/ ResolveAnaphors \/ MergeBatch
    <3>1. /\ Working /\ UNCHANGED <<events, mapped, unresolved>>
          /\ (cache' = cache \/ cache' = {}) /\ phase' # "map"
          /\ phase = "map" => at > Len(events)
      BY <2>6 DEF Working, EndPass2, NextAssertion, EndPass3, ResolveAnaphors, MergeBatch
    <3>. QED  BY <3>1, QuietKeepsWork
  <2>7. CASE PassRaises \/ ApplyNormalization \/ LosePass4 \/ BeginSubmit \/ SubmitCandidate \/ EndSubmit
    BY <2>7 DEF Working, PassRaises, ApplyNormalization, LosePass4, BeginSubmit, SubmitCandidate, EndSubmit, Report
  <2>. QED  BY <2>1, <2>2, <2>3, <2>4, <2>5, <2>6, <2>7 DEF Next
<1>. QED  BY <1>1, <1>2, <1>3

\* Pass 4 decides of every certain anaphor that takes part in an assertion.
AnaphorsDecided ==
    phase = "merge" =>
        /\ Deciding /\ pairs \in Seq(PairSets) /\ at \in Nat \ {0}
        /\ \A a \in Range(mapped) : \A p \in Range(a.parts) :
              Certain(p.name) => \E d \in Range(decisions.anaphors) : d.name = p.name

\* Every step keeps the anaphors decided.
LEMMA AnaphorsNext ==
    ASSUME WorkInv, AnaphorsDecided, [Next]_vars
    PROVE  AnaphorsDecided'
<1>1. CASE ResolveAnaphors
  <2>1. phase = "resolve" /\ Working /\ mapped' = mapped /\ at' = 1 /\ pairs' = DuplicatePairs
    BY <1>1 DEF ResolveAnaphors, Working
  <2>2. mapped \in Seq(Mapped) /\ decisions = [merges |-> <<>>, anaphors |-> <<>>]
    BY <2>1 DEF WorkInv, WorkedOn, NothingYet
  <2>3. /\ decisions' = [merges |-> <<>>, anaphors |-> decisions'.anaphors]
        /\ decisions'.anaphors \in Seq(Decisions)
        /\ \A n \in Range(CertainNames) : \E d \in Range(decisions'.anaphors) : d.name = n
    BY <1>1, <2>2, ResolveDecides
  <2>4. \A a \in Range(mapped) : \A p \in Range(a.parts) :
           Certain(p.name) => p.name \in Range(CertainNames)
    BY <2>2, AnaphorFacts
  <2>5. DuplicatePairs \in Seq(PairSets)
    BY <2>2, PairsFacts
  <2>6. Deciding'
    <3>1. decisions' \in [merges : Seq(Decisions), anaphors : Seq(Decisions)]
      <4>. DEFINE W == Seq(Decisions)
      <4>1. <<>> \in W /\ decisions'.anaphors \in W
        BY <2>3
      <4>. HIDE DEF W
      <4>2. \A x \in W, y \in W : [merges |-> x, anaphors |-> y] \in [merges : W, anaphors : W]
        OBVIOUS
      <4>3. [merges |-> <<>>, anaphors |-> decisions'.anaphors] \in [merges : W, anaphors : W]
        BY <4>1, <4>2
      <4>. QED  BY <2>3, <4>3 DEF W
    <3>. QED  BY <3>1 DEF Deciding
  <2>. QED  BY <2>1, <2>3, <2>4, <2>5, <2>6 DEF AnaphorsDecided, Certain
<1>2. CASE MergeBatch
  <2>1. phase = "merge" /\ mapped' = mapped
    BY <1>2 DEF MergeBatch
  <2>2. Deciding /\ pairs \in Seq(PairSets) /\ at \in Nat \ {0}
    BY <2>1 DEF AnaphorsDecided
  <2>3. Deciding' /\ decisions'.anaphors = decisions.anaphors /\ at' \in Nat \ {0} /\ pairs' = pairs
    BY <1>2, <2>2, MergeDecides
  <2>. QED  BY <2>1, <2>2, <2>3 DEF AnaphorsDecided, Certain
<1>3. CASE UNCHANGED vars
  BY <1>3 DEF AnaphorsDecided, Deciding, Certain, vars
<1>4. CASE ~ResolveAnaphors /\ ~MergeBatch /\ Next
  <2>1. phase' # "merge"
    BY <1>4 DEF Next, ReadChunk, MergeChunks, MapEvent, EndPass2, RefineEntity, NextAssertion, EndPass3,
                PassRaises, ApplyNormalization, LosePass4, Report, BeginSubmit, SubmitCandidate, EndSubmit
  <2>. QED  BY <2>1 DEF AnaphorsDecided
<1>. QED  BY <1>1, <1>2, <1>3, <1>4

-----------------------------------------------------------------------------
(***************************************************************************)
(* The report: one map, the normalization map of Pass 4 or the empty one,  *)
(* renamed all of it.                                                      *)
(***************************************************************************)
Reported == phase \in {"report", "submit", "done"}

\* Pass 4 removed every participant of the event.
Wholly(k) == kept /\ \A p \in Range(events[k].parts) : Gone(p.name)
Shown == {k \in DOMAIN events : ~Wholly(k)}

\* What is reported of an event: its participants and some roles, renamed by
\* the map, and the refinements under their old names.
TypedFrom(a) ==
    /\ a.of \in DOMAIN events
    /\ a.refs \in Seq(Refs) /\ RefsEarned(events[a.of].parts, a.refs)
    /\ RenamedBy(norm, events[a.of].parts, a.parts)
    /\ \E roles \in Seq(Roles) : RenamedBy(norm, roles, a.roles)

LeftFrom(u) ==
    /\ u.of \in DOMAIN events /\ u.parts \in Seq(Range(u.parts))
    /\ \A p \in Range(u.parts) : \E q \in Range(events[u.of].parts) :
          p.coarse = q.coarse /\ (p.name = q.name \/ p.name = Renamed(norm, q.name))

ReportRight ==
    Reported =>
        /\ mapped \in Seq(Range(mapped)) /\ unresolved \in Seq(Range(unresolved))
        /\ EachOnce(mapped) /\ EachOnce(unresolved) /\ Ofs(mapped) \cap Ofs(unresolved) = {}
        /\ Ofs(mapped) \cup Ofs(unresolved) = Shown
        /\ \A a \in Range(mapped) : TypedFrom(a)
        /\ \A u \in Range(unresolved) : LeftFrom(u)

\* Thinning keeps the events apart.
LEMMA ThinOnce ==
    ASSUME NEW T, NEW s \in Seq(T), NEW keep \in SUBSET DOMAIN s, EachOnce(s)
    PROVE  /\ Thin(s, keep) \in Seq(Range(Thin(s, keep))) /\ EachOnce(Thin(s, keep))
           /\ Range(Thin(s, keep)) = {s[k] : k \in keep}
           /\ Ofs(Thin(s, keep)) = {s[k].of : k \in keep}
<1>. DEFINE thin == Thin(s, keep)
<1>1. PICK place : Thinned(s, keep, thin, place)
  BY ThinFacts
<1>2. Range(thin) = {s[k] : k \in keep} /\ thin \in Seq({s[k] : k \in keep})
  BY ThinRange
<1>. HIDE DEF thin
<1>3. thin \in Seq(Range(thin))
  BY <1>2
<1>4. Ofs(thin) = {s[k].of : k \in keep}
  BY <1>2 DEF Ofs
<1>5. EachOnce(thin)
  BY <1>1 DEF Thinned, EachOnce
<1>. QED  BY <1>2, <1>3, <1>4, <1>5 DEF thin

\* A sequence is one of what it holds.
LEMMA RangeInType ==
    ASSUME NEW T, NEW s \in Seq(T)
    PROVE  /\ s \in Seq(Range(s)) /\ \A x \in Range(s) : x \in T
           /\ DOMAIN s = 1..Len(s) /\ Len(s) \in Nat /\ \A k \in DOMAIN s : s[k] \in Range(s)
<1>1. DOMAIN s = 1..Len(s) /\ Len(s) \in Nat /\ s = [k \in 1..Len(s) |-> s[k]]
      /\ \A k \in DOMAIN s : s[k] \in T
  OBVIOUS
<1>2. s \in Seq(Range(s))
  BY <1>1, FunctionIsSeq
<1>. QED  BY <1>1, <1>2 DEF Range

\* A map that renames nothing.
LEMMA NothingRenamed ==
    ASSUME NEW T, NEW list \in Seq(T),
           \A x \in T : x.name # None /\ [x EXCEPT !.name = x.name] = x
    PROVE  RenamedBy(<<>>, list, list)
<1>1. \A n : Renamed(<<>>, n) = n
  BY DEF Renamed
<1>2. /\ list \in Seq(Range(list)) /\ \A x \in Range(list) : x \in T
      /\ DOMAIN list = 1..Len(list) /\ Len(list) \in Nat
  BY RangeInType
<1>3. \A x \in Range(list) : x.name # None /\ [x EXCEPT !.name = Renamed(<<>>, x.name)] = x
  BY <1>1, <1>2
<1>. QED  BY <1>1, <1>2, <1>3 DEF RenamedBy

\* No participant and no role bears the name None.
LEMMA NamesAreNames ==
    /\ \A p \in Parts : p.name \in Names /\ p.name # None /\ [p EXCEPT !.name = p.name] = p
    /\ \A r \in Roles : r.name # None /\ [r EXCEPT !.name = r.name] = r
BY NameAssumption DEF Parts, Roles

\* A Pass 4 that raised leaves the report as Pass 3 made it: nothing is renamed.
LEMMA LoseKeepsReport ==
    ASSUME WorkInv, LosePass4
    PROVE  ReportRight'
<1>1. Working /\ phase # "map" /\ UNCHANGED <<events, mapped, unresolved, norm, kept>>
  BY DEF LosePass4, Working
<1>2. EventsRead /\ WorkedOn /\ norm = <<>> /\ kept = FALSE
  BY <1>1 DEF WorkInv, NothingYet
<1>3. /\ mapped \in Seq(Mapped) /\ unresolved \in Seq(Unmapped)
      /\ EachOnce(mapped) /\ EachOnce(unresolved) /\ Ofs(mapped) \cap Ofs(unresolved) = {}
      /\ Ofs(mapped) \cup Ofs(unresolved) = DOMAIN events
      /\ \A a \in Range(mapped) : a.parts = events[a.of].parts /\ RefsEarned(a.parts, a.refs)
      /\ \A u \in Range(unresolved) : u.parts = events[u.of].parts
  BY <1>1, <1>2 DEF WorkedOn, TakenUp
<1>4. Shown = DOMAIN events
  BY <1>2 DEF Wholly, Shown
<1>5. /\ mapped \in Seq(Range(mapped)) /\ \A a \in Range(mapped) : a \in Mapped
      /\ unresolved \in Seq(Range(unresolved)) /\ \A u \in Range(unresolved) : u \in Unmapped
  <2>. HIDE DEF Mapped, Unmapped
  <2>. QED  BY <1>3, RangeInType
<1>6. ASSUME NEW a \in Range(mapped)
      PROVE  TypedFrom(a)
  <2>1. a.parts \in Seq(Parts) /\ a.roles \in Seq(Roles) /\ a.refs \in Seq(Refs)
    BY <1>5 DEF Mapped
  <2>2. RenamedBy(<<>>, a.parts, a.parts)
    <3>. HIDE DEF Parts
    <3>. QED  BY <2>1, NothingRenamed, NamesAreNames
  <2>3. RenamedBy(<<>>, a.roles, a.roles)
    <3>. HIDE DEF Roles
    <3>. QED  BY <2>1, NothingRenamed, NamesAreNames
  <2>4. a.of \in DOMAIN events
    BY <1>3 DEF Ofs
  <2>. HIDE DEF Refs, Roles, Parts
  <2>. QED  BY <1>2, <1>3, <2>1, <2>2, <2>3, <2>4 DEF TypedFrom
<1>7. ASSUME NEW u \in Range(unresolved)
      PROVE  LeftFrom(u)
  <2>1. u.parts \in Seq(Parts)
    BY <1>5 DEF Unmapped
  <2>2. u.parts \in Seq(Range(u.parts))
    <3>. HIDE DEF Parts
    <3>. QED  BY <2>1, RangeInType
  <2>3. u.of \in DOMAIN events
    BY <1>3 DEF Ofs
  <2>. QED  BY <1>3, <2>2, <2>3 DEF LeftFrom
<1>8. Shown' = Shown
  BY <1>1 DEF Shown, Wholly, Gone
<1>9. (\A a \in Range(mapped) : TypedFrom(a)') /\ (\A u \in Range(unresolved) : LeftFrom(u)')
  BY <1>1, <1>6, <1>7 DEF TypedFrom, LeftFrom
<1>. QED  BY <1>1, <1>3, <1>4, <1>5, <1>8, <1>9 DEF ReportRight

\* What a renaming leaves is empty when it drops every name.
LEMMA RenamedEmpty ==
    ASSUME NEW m, NEW list, NEW out, RenamedBy(m, list, out)
    PROVE  out = <<>> <=> \A x \in Range(list) : Renamed(m, x.name) = None
<1>1. CASE out = <<>>
  <2>1. Range(out) = {}
    BY <1>1 DEF Range
  <2>. QED  BY <1>1, <2>1 DEF RenamedBy
<1>2. CASE out # <<>>
  <2>1. out \in Seq(Range(out))
    BY DEF RenamedBy
  <2>2. \E y : y \in Range(out)
    <3>1. 1 \in DOMAIN out
      BY <1>2, <2>1
    <3>. QED  BY <3>1 DEF Range
  <2>. QED  BY <1>2, <2>2 DEF RenamedBy
<1>. QED  BY <1>1, <1>2

\* Assertions go exactly when the map removes all their participants: each
\* certain anaphor among these is in the map.
LEMMA TypedKept ==
    ASSUME WorkInv, AnaphorsDecided, ApplyNormalization
    PROVE  /\ mapped' \in Seq(Range(mapped')) /\ EachOnce(mapped')
           /\ Ofs(mapped') = Ofs(mapped) \cap Shown'
           /\ \A a \in Range(mapped') : TypedFrom(a)'
<1>. DEFINE m == NormalizationMap
            new(a) == [a EXCEPT !.parts = Rename(m, @), !.roles = Rename(m, @)]
            renamed == [k \in DOMAIN mapped |-> new(mapped[k])]
            keep == {k \in DOMAIN renamed : renamed[k].parts # <<>>}
<1>1. /\ phase = "merge" /\ norm' = m /\ kept' = TRUE /\ events' = events
      /\ mapped' = Thin(renamed, keep)
  BY DEF ApplyNormalization, NormalizeTyped, Only
<1>2. /\ EventsRead /\ mapped \in Seq(Mapped) /\ EachOnce(mapped)
      /\ Ofs(mapped) \cup Ofs(unresolved) = DOMAIN events
      /\ \A a \in Range(mapped) : a.parts = events[a.of].parts /\ RefsEarned(a.parts, a.refs)
  BY <1>1 DEF WorkInv, WorkedOn, TakenUp, Working
<1>3. /\ mapped \in Seq(Range(mapped)) /\ \A a \in Range(mapped) : a \in Mapped
      /\ \A k \in DOMAIN mapped : mapped[k] \in Range(mapped)
      /\ DOMAIN mapped = 1..Len(mapped) /\ Len(mapped) \in Nat
  <2>. HIDE DEF Mapped
  <2>. QED  BY <1>2, RangeInType
<1>4. \A a \in Range(mapped) : \A p \in Range(a.parts) : Certain(p.name) => p.name \in DOMAIN m
  <2>1. Deciding /\ \A a \in Range(mapped) : \A p \in Range(a.parts) :
              Certain(p.name) => \E d \in Range(decisions.anaphors) : d.name = p.name
    BY <1>1 DEF AnaphorsDecided
  <2>2. \A d \in Range(decisions.anaphors) : d.name \in DOMAIN m
    BY <2>1, MapCovers
  <2>. HIDE DEF m
  <2>. QED  BY <2>1, <2>2
<1>. HIDE DEF m
<1>5. ASSUME NEW a \in Range(mapped)
      PROVE  /\ new(a).of = a.of /\ new(a).refs = a.refs /\ a.refs \in Seq(Refs)
             /\ a.of \in DOMAIN events
             /\ RenamedBy(m, events[a.of].parts, new(a).parts)
             /\ \E roles \in Seq(Roles) : RenamedBy(m, roles, new(a).roles)
             /\ new(a).parts # <<>> <=> a.of \in Shown'
  <2>1. a.parts \in Seq(Parts) /\ a.roles \in Seq(Roles) /\ a.refs \in Seq(Refs)
    BY <1>3 DEF Mapped
  <2>2. /\ new(a).of = a.of /\ new(a).refs = a.refs
        /\ new(a).parts = Rename(m, a.parts) /\ new(a).roles = Rename(m, a.roles)
    <3>1. a \in Mapped
      BY <1>3
    <3>. QED  BY <3>1 DEF Mapped
  <2>3. RenamedBy(m, a.parts, new(a).parts)
    <3>. HIDE DEF Parts, new
    <3>. QED  BY <2>1, <2>2, RenameFacts
  <2>4. RenamedBy(m, a.roles, new(a).roles)
    <3>. HIDE DEF Roles, new
    <3>. QED  BY <2>1, <2>2, RenameFacts
  <2>5. a.of \in DOMAIN events /\ a.parts = events[a.of].parts
    BY <1>2 DEF Ofs
  <2>. HIDE DEF new, Roles, Refs, Parts
  <2>6. a.of \notin Shown' <=> \A p \in Range(a.parts) : Renamed(m, p.name) = None
    <3>1. a.of \notin Shown' <=> \A p \in Range(a.parts) :
             Renamed(m, p.name) = None \/ (Certain(p.name) /\ p.name \notin DOMAIN m)
      BY <1>1, <2>5 DEF Shown, Wholly, Gone, Renamed, Certain
    <3>. QED  BY <1>4, <3>1
  <2>7. new(a).parts = <<>> <=> \A p \in Range(a.parts) : Renamed(m, p.name) = None
    BY <2>3, RenamedEmpty
  <2>. QED  BY <2>1, <2>2, <2>3, <2>4, <2>5, <2>6, <2>7
<1>. HIDE DEF new
<1>. DEFINE T == {new(a) : a \in Range(mapped)}
<1>6. /\ renamed \in Seq(T) /\ DOMAIN renamed = DOMAIN mapped
      /\ \A k \in DOMAIN mapped : renamed[k] = new(mapped[k])
  <2>1. \A k \in 1..Len(mapped) : new(mapped[k]) \in T
    BY <1>3
  <2>. HIDE DEF T
  <2>. QED  BY <1>3, <2>1
<1>7. EachOnce(renamed)
  BY <1>2, <1>3, <1>5, <1>6 DEF EachOnce
<1>8. keep \in SUBSET DOMAIN renamed
  OBVIOUS
<1>9. \A k \in DOMAIN mapped : k \in keep <=> mapped[k].of \in Shown'
  BY <1>3, <1>5, <1>6
<1>. HIDE DEF renamed, keep, T
<1>10. /\ mapped' \in Seq(Range(mapped')) /\ EachOnce(mapped')
       /\ Range(mapped') = {renamed[k] : k \in keep}
       /\ Ofs(mapped') = {renamed[k].of : k \in keep}
  BY <1>1, <1>6, <1>7, <1>8, ThinOnce
<1>11. \A k \in keep : k \in DOMAIN mapped /\ renamed[k] = new(mapped[k]) /\ mapped[k] \in Range(mapped)
  BY <1>3, <1>6, <1>8
<1>12. Ofs(mapped') = Ofs(mapped) \cap Shown'
  <2>1. \A k \in keep : renamed[k].of = mapped[k].of /\ mapped[k].of \in Shown'
    BY <1>5, <1>9, <1>11
  <2>2. \A a \in Range(mapped) : \E k \in DOMAIN mapped : mapped[k] = a
    BY DEF Range
  <2>3. \A a \in Range(mapped) : a.of \in Shown' => \E k \in keep : renamed[k].of = a.of
    BY <1>9, <2>1, <2>2
  <2>4. \A k \in keep : renamed[k].of \in Ofs(mapped) /\ renamed[k].of \in Shown'
    BY <1>11, <2>1 DEF Ofs
  <2>5. \A k \in Ofs(mapped) : \E a \in Range(mapped) : a.of = k
    BY DEF Ofs
  <2>. QED  BY <1>10, <2>3, <2>4, <2>5
<1>13. ASSUME NEW b \in Range(mapped')
       PROVE  TypedFrom(b)'
  <2>1. PICK a \in Range(mapped) : b = new(a)
    BY <1>10, <1>11
  <2>2. RefsEarned(events[b.of].parts, b.refs)
    BY <1>2, <1>5, <2>1
  <2>3. b.of \in DOMAIN events /\ b.refs \in Seq(Refs)
        /\ RenamedBy(m, events[b.of].parts, b.parts)
        /\ \E roles \in Seq(Roles) : RenamedBy(m, roles, b.roles)
    BY <1>5, <2>1
  <2>. QED  BY <1>1, <2>2, <2>3 DEF TypedFrom
<1>. QED  BY <1>10, <1>12, <1>13

\* Events left go exactly when the map and the certain anaphors it knows nothing
\* of remove all their participants, also when the list is returned as it came.
LEMMA LeftKept ==
    ASSUME WorkInv, ApplyNormalization
    PROVE  /\ unresolved' \in Seq(Range(unresolved')) /\ EachOnce(unresolved')
           /\ Ofs(unresolved') = Ofs(unresolved) \cap Shown'
           /\ \A u \in Range(unresolved') : LeftFrom(u)'
<1>. DEFINE m == NormalizationMap
            certain == {p.name : p \in UNION {Range(u.parts) : u \in Range(unresolved)}} \cap
                           {n \in Names : Certain(n) /\ n \notin DOMAIN m}
            wider == [n \in DOMAIN m \cup certain |-> IF n \in certain THEN None ELSE m[n]]
            new(u) == [u EXCEPT !.parts = Rename(wider, @)]
            renamed == [k \in DOMAIN unresolved |-> new(unresolved[k])]
            keep == {k \in DOMAIN renamed : renamed[k].parts # <<>>}
            left == Thin(renamed, keep)
<1>1. /\ phase = "merge" /\ norm' = m /\ kept' = TRUE /\ events' = events
      /\ unresolved' = IF Len(left) = Len(unresolved) THEN unresolved ELSE left
  BY DEF ApplyNormalization, NormalizeUnresolved, Only
<1>2. /\ EventsRead /\ unresolved \in Seq(Unmapped) /\ EachOnce(unresolved)
      /\ Ofs(mapped) \cup Ofs(unresolved) = DOMAIN events
      /\ \A u \in Range(unresolved) : u.parts = events[u.of].parts
  BY <1>1 DEF WorkInv, WorkedOn, TakenUp, Working
<1>3. /\ unresolved \in Seq(Range(unresolved)) /\ \A u \in Range(unresolved) : u \in Unmapped
      /\ \A k \in DOMAIN unresolved : unresolved[k] \in Range(unresolved)
      /\ DOMAIN unresolved = 1..Len(unresolved) /\ Len(unresolved) \in Nat
  <2>. HIDE DEF Unmapped
  <2>. QED  BY <1>2, RangeInType
<1>4. ASSUME NEW u \in Range(unresolved)
      PROVE  /\ u.parts \in Seq(Parts) /\ u.of \in DOMAIN events /\ u.parts = events[u.of].parts
             /\ \A p \in Range(u.parts) : p \in Parts /\ p.name \in Names /\ p.name # None
  <2>1. u.parts \in Seq(Parts)
    BY <1>3 DEF Unmapped
  <2>2. \A p \in Range(u.parts) : p \in Parts
    <3>. HIDE DEF Parts
    <3>. QED  BY <2>1, RangeInType
  <2>3. u.of \in DOMAIN events
    BY <1>2 DEF Ofs
  <2>. HIDE DEF Parts
  <2>. QED  BY <1>2, <2>1, <2>2, <2>3, NamesAreNames
<1>. HIDE DEF m
<1>5. ASSUME NEW u \in Range(unresolved), NEW p \in Range(u.parts)
      PROVE  /\ Renamed(wider, p.name) = None <=>
                    Renamed(m, p.name) = None \/ (Certain(p.name) /\ p.name \notin DOMAIN m)
             /\ Renamed(wider, p.name) # None => Renamed(wider, p.name) = Renamed(m, p.name)
  <2>1. p.name \in certain <=> Certain(p.name) /\ p.name \notin DOMAIN m
    BY <1>4
  <2>. HIDE DEF certain
  <2>2. Renamed(wider, p.name) =
            IF p.name \in certain THEN None ELSE IF p.name \in DOMAIN m THEN m[p.name] ELSE p.name
    BY DEF Renamed
  <2>3. p.name # None
    BY <1>4
  <2>. HIDE DEF wider
  <2>. QED  BY <2>1, <2>2, <2>3 DEF Renamed
<1>. HIDE DEF wider
<1>6. ASSUME NEW u \in Range(unresolved)
      PROVE  /\ new(u).of = u.of /\ RenamedBy(wider, u.parts, new(u).parts)
             /\ new(u).parts # <<>> <=> u.of \in Shown'
  <2>1. new(u).of = u.of /\ new(u).parts = Rename(wider, u.parts)
    <3>1. u \in Unmapped
      BY <1>3
    <3>. QED  BY <3>1 DEF Unmapped
  <2>. HIDE DEF new
  <2>2. RenamedBy(wider, u.parts, new(u).parts)
    <3>. HIDE DEF Parts
    <3>. QED  BY <1>4, <2>1, RenameFacts
  <2>3. u.of \notin Shown' <=> \A p \in Range(u.parts) :
           Renamed(m, p.name) = None \/ (Certain(p.name) /\ p.name \notin DOMAIN m)
    BY <1>1, <1>4 DEF Shown, Wholly, Gone, Renamed, Certain
  <2>4. new(u).parts = <<>> <=> \A p \in Range(u.parts) : Renamed(wider, p.name) = None
    BY <2>2, RenamedEmpty
  <2>. QED  BY <1>5, <2>1, <2>2, <2>3, <2>4
<1>7. ASSUME NEW u \in Range(unresolved)
      PROVE  LeftFrom(u)'
  <2>1. u.parts \in Seq(Range(u.parts))
    <3>1. u.parts \in Seq(Parts)
      BY <1>4
    <3>. HIDE DEF Parts
    <3>. QED  BY <3>1, RangeInType
  <2>. QED  BY <1>1, <1>4, <2>1 DEF LeftFrom
<1>8. ASSUME NEW u \in Range(unresolved), NEW v, v = new(u)
      PROVE  LeftFrom(v)'
  <2>1. v.of = u.of /\ v.parts \in Seq(Range(v.parts)) /\ RenamedBy(wider, u.parts, v.parts)
    <3>1. new(u).of = u.of /\ RenamedBy(wider, u.parts, new(u).parts)
      BY <1>6
    <3>. HIDE DEF new
    <3>. QED  BY <1>8, <3>1 DEF RenamedBy
  <2>2. ASSUME NEW p \in Range(v.parts)
        PROVE  \E q \in Range(u.parts) : p.coarse = q.coarse /\ p.name = Renamed(m, q.name)
    <3>1. PICK q \in Range(u.parts) :
             Renamed(wider, q.name) # None /\ p = [q EXCEPT !.name = Renamed(wider, q.name)]
      BY <2>1 DEF RenamedBy
    <3>2. q \in Parts /\ Renamed(wider, q.name) = Renamed(m, q.name)
      BY <1>4, <1>5, <3>1
    <3>3. p.coarse = q.coarse /\ p.name = Renamed(wider, q.name)
      BY <3>1, <3>2 DEF Parts
    <3>. QED  BY <3>2, <3>3
  <2>3. v.of \in DOMAIN events /\ \A p \in Range(v.parts) : \E q \in Range(events[v.of].parts) :
            p.coarse = q.coarse /\ p.name = Renamed(m, q.name)
    BY <1>4, <2>1, <2>2
  <2>. QED  BY <1>1, <2>1, <2>3 DEF LeftFrom
<1>. HIDE DEF new
<1>. DEFINE T == {new(u) : u \in Range(unresolved)}
<1>9. /\ renamed \in Seq(T) /\ DOMAIN renamed = DOMAIN unresolved
      /\ \A k \in DOMAIN unresolved : renamed[k] = new(unresolved[k])
      /\ Len(renamed) = Len(unresolved)
  <2>1. \A k \in 1..Len(unresolved) : new(unresolved[k]) \in T
    BY <1>3
  <2>. HIDE DEF T
  <2>. QED  BY <1>3, <2>1
<1>10. EachOnce(renamed)
  BY <1>2, <1>3, <1>6, <1>9 DEF EachOnce
<1>11. keep \in SUBSET DOMAIN renamed
  OBVIOUS
<1>12. \A k \in DOMAIN unresolved : k \in keep <=> unresolved[k].of \in Shown'
  BY <1>3, <1>6, <1>9
<1>. HIDE DEF renamed, keep, T
<1>13. /\ left \in Seq(Range(left)) /\ EachOnce(left)
       /\ Range(left) = {renamed[k] : k \in keep}
       /\ Ofs(left) = {renamed[k].of : k \in keep}
  BY <1>9, <1>10, <1>11, ThinOnce
<1>14. Len(left) = Len(unresolved) => keep = DOMAIN unresolved
  <2>1. (\E place : Thinned(renamed, keep, left, place)) /\ (Cardinality(keep) = Len(renamed) => keep = DOMAIN renamed)
    BY <1>9, <1>11, ThinFacts
  <2>. QED  BY <1>9, <2>1 DEF Thinned
<1>. HIDE DEF left
<1>15. \A k \in keep : /\ k \in DOMAIN unresolved /\ renamed[k] = new(unresolved[k])
                       /\ unresolved[k] \in Range(unresolved) /\ renamed[k].of = unresolved[k].of
  BY <1>3, <1>6, <1>9, <1>11
<1>16. \A u \in Range(unresolved) : \E k \in DOMAIN unresolved : unresolved[k] = u
  BY DEF Range
<1>17. Ofs(left) = Ofs(unresolved) \cap Shown'
  <2>1. \A u \in Range(unresolved) : u.of \in Shown' => \E k \in keep : renamed[k].of = u.of
    BY <1>12, <1>15, <1>16
  <2>2. \A k \in keep : renamed[k].of \in Ofs(unresolved) /\ renamed[k].of \in Shown'
    BY <1>12, <1>15 DEF Ofs
  <2>3. \A k \in Ofs(unresolved) : \E u \in Range(unresolved) : u.of = k
    BY DEF Ofs
  <2>. QED  BY <1>13, <2>1, <2>2, <2>3
<1>18. CASE Len(left) = Len(unresolved)
  <2>1. unresolved' = unresolved /\ Ofs(unresolved) \subseteq Shown'
    BY <1>1, <1>3, <1>12, <1>14, <1>16, <1>18 DEF Ofs
  <2>. QED  BY <1>2, <1>3, <1>7, <2>1
<1>19. CASE Len(left) # Len(unresolved)
  <2>1. unresolved' = left
    BY <1>1, <1>19
  <2>2. \A u \in Range(left) : LeftFrom(u)'
    <3>1. ASSUME NEW v \in Range(left)
          PROVE  LeftFrom(v)'
      <4>1. PICK u \in Range(unresolved) : v = new(u)
        BY <1>13, <1>15
      <4>. QED  BY <1>8, <4>1
    <3>. QED  BY <3>1
  <2>. QED  BY <1>13, <1>17, <2>1, <2>2
<1>. QED  BY <1>18, <1>19

\* Every step keeps the report right.
LEMMA ReportNext ==
    ASSUME WorkInv, AnaphorsDecided, ReportRight, [Next]_vars
    PROVE  ReportRight'
<1>1. CASE LosePass4
  BY <1>1, LoseKeepsReport
<1>2. CASE ApplyNormalization
  <2>1. /\ mapped' \in Seq(Range(mapped')) /\ EachOnce(mapped')
        /\ Ofs(mapped') = Ofs(mapped) \cap Shown'
        /\ \A a \in Range(mapped') : TypedFrom(a)'
    BY <1>2, TypedKept
  <2>2. /\ unresolved' \in Seq(Range(unresolved')) /\ EachOnce(unresolved')
        /\ Ofs(unresolved') = Ofs(unresolved) \cap Shown'
        /\ \A u \in Range(unresolved') : LeftFrom(u)'
    BY <1>2, LeftKept
  <2>3. Ofs(mapped) \cap Ofs(unresolved) = {} /\ Ofs(mapped) \cup Ofs(unresolved) = DOMAIN events
    BY <1>2 DEF ApplyNormalization, WorkInv, WorkedOn, TakenUp, Working
  <2>4. Shown' \subseteq DOMAIN events
    BY <1>2 DEF ApplyNormalization, Shown
  <2>5. Ofs(mapped') \cap Ofs(unresolved') = {} /\ Ofs(mapped') \cup Ofs(unresolved') = Shown'
    BY <2>1, <2>2, <2>3, <2>4
  <2>. QED  BY <2>1, <2>2, <2>5 DEF ReportRight
<1>3. CASE BeginSubmit \/ SubmitCandidate \/ EndSubmit \/ UNCHANGED vars
  <2>1. UNCHANGED <<events, mapped, unresolved, norm, kept>> /\ (Reported' => Reported)
    BY <1>3 DEF BeginSubmit, SubmitCandidate, EndSubmit, vars, Reported
  <2>2. Shown' = Shown
    BY <2>1 DEF Shown, Wholly, Gone
  <2>3. (\A a : TypedFrom(a) => TypedFrom(a)') /\ (\A u : LeftFrom(u) => LeftFrom(u)')
    BY <2>1 DEF TypedFrom, LeftFrom
  <2>. QED  BY <2>1, <2>2, <2>3 DEF ReportRight
<1>4. CASE \/ ReadChunk \/ MergeChunks \/ MapEvent \/ EndPass2 \/ RefineEntity \/ NextAssertion
           \/ EndPass3 \/ PassRaises \/ ResolveAnaphors \/ MergeBatch
  <2>1. ~Reported'
    BY <1>4 DEF ReadChunk, MergeChunks, MapEvent, EndPass2, RefineEntity, NextAssertion, EndPass3,
                PassRaises, ResolveAnaphors, MergeBatch, Reported
  <2>. QED  BY <2>1 DEF ReportRight
<1>. QED  BY <1>1, <1>2, <1>3, <1>4 DEF Next

\* A type that is not foreign to a filler of the k-th event.
FillerEarned(k, n, t) ==
    \/ t = Entity
    \/ ~\E p \in Range(events[k].parts) : p.name = n
    \/ \E p \in Range(events[k].parts) :
          (p.name = n \/ Renamed(norm, p.name) = n) /\ t \in {p.coarse} \cup Subtypes(p.coarse)

NotDropped(n) == Renamed(norm, n) = None => n \in Range(norm)

LEMMA PartsOfEvent ==
    ASSUME EventsRead, NEW k \in DOMAIN events
    PROVE  events[k].parts \in Seq(Parts) /\ \A p \in Range(events[k].parts) : p \in Parts
<1>1. events[k] \in Events
  <2>. HIDE DEF Events
  <2>. QED  BY DEF EventsRead
<1>2. events[k].parts \in Seq(Parts)
  BY <1>1 DEF Events
<1>. HIDE DEF Parts
<1>. QED  BY <1>2, RangeInType

\* A resolved type is a participant's or below it: by way of a refinement
\* noted under the old name, or of a participant that was given the name.
LEMMA ResolveEarned ==
    ASSUME EventsRead, NEW a, TypedFrom(a), NEW n
    PROVE  FillerEarned(a.of, n, ResolveType(a, n))
<1>. DEFINE parts == events[a.of].parts
            keep == {k \in DOMAIN a.refs : a.refs[k].name = n}
            refs == Thin(a.refs, keep)
<1>1. a.of \in DOMAIN events /\ a.refs \in Seq(Refs) /\ RefsEarned(parts, a.refs) /\ RenamedBy(norm, parts, a.parts)
  BY DEF TypedFrom
<1>2. parts \in Seq(Parts) /\ \A p \in Range(parts) : p \in Parts
  BY <1>1, PartsOfEvent
<1>3. ResolveType(a, n) = IF refs # <<>> /\ \E p \in Range(a.parts) : p.name = n
                          THEN refs[1].type ELSE CoarseType(a.parts, n)
  BY DEF ResolveType, Only
<1>4. ASSUME refs # <<>>
      PROVE  FillerEarned(a.of, n, refs[1].type)
  <2>1. keep \in SUBSET DOMAIN a.refs
    OBVIOUS
  <2>2. Range(refs) = {a.refs[k] : k \in keep} /\ refs \in Seq({a.refs[k] : k \in keep})
    <3>. HIDE DEF Refs, keep
    <3>. QED  BY <1>1, <2>1, ThinRange
  <2>3. refs[1] \in {a.refs[k] : k \in keep}
    <3>. DEFINE S == {a.refs[k] : k \in keep}
    <3>. HIDE DEF S, refs
    <3>1. refs \in Seq(S)
      BY <2>2 DEF S
    <3>2. refs[1] \in S
      BY <1>4, <3>1
    <3>. QED  BY <3>2 DEF S
  <2>4. refs[1] \in Range(a.refs) /\ refs[1].name = n
    <3>. HIDE DEF refs
    <3>. QED  BY <2>3 DEF Range
  <2>. DEFINE r == refs[1]
  <2>. HIDE DEF refs, keep
  <2>5. r.coarse = CoarseType(parts, n) /\ r.type \in {r.coarse} \cup Subtypes(r.coarse)
    BY <1>1, <2>4 DEF RefsEarned, Earned
  <2>6. \/ ~\E p \in Range(parts) : p.name = n
        \/ \E p \in Range(parts) : p.name = n /\ CoarseType(parts, n) = p.coarse
    <3>. HIDE DEF Parts
    <3>. QED  BY <1>2, CoarseFacts
  <2>. HIDE DEF r
  <2>7. FillerEarned(a.of, n, r.type)
    BY <2>5, <2>6 DEF FillerEarned
  <2>. QED  BY <2>7 DEF r
<1>5. FillerEarned(a.of, n, CoarseType(a.parts, n))
  <2>1. a.parts \in Seq(Range(a.parts))
    BY <1>1 DEF RenamedBy
  <2>2. \/ CoarseType(a.parts, n) = Entity
        \/ \E p \in Range(a.parts) : p.name = n /\ CoarseType(a.parts, n) = p.coarse
    BY <2>1, CoarseFacts
  <2>3. ASSUME NEW p \in Range(a.parts), p.name = n
        PROVE  \E x \in Range(parts) : Renamed(norm, x.name) = n /\ p.coarse = x.coarse
    <3>1. PICK x \in Range(parts) : p = [x EXCEPT !.name = Renamed(norm, x.name)]
      BY <1>1 DEF RenamedBy
    <3>2. x \in Parts
      BY <1>2
    <3>. QED  BY <2>3, <3>1, <3>2 DEF Parts
  <2>. QED  BY <2>2, <2>3 DEF FillerEarned
<1>. HIDE DEF refs
<1>. QED  BY <1>3, <1>4, <1>5

\* What the map has put in a role or among the participants is no dropped
\* name, unless the map puts that name in for another one.
LEMMA RenamedNotDropped ==
    ASSUME NEW x, NEW y, y.name = Renamed(norm, x.name), Renamed(norm, x.name) # None
    PROVE  NotDropped(y.name)
BY DEF NotDropped, Renamed, Range

\* No name left in an assertion is dropped.
LEMMA TypedNames ==
    ASSUME EventsRead, NEW a, TypedFrom(a)
    PROVE  /\ \A p \in Range(a.parts) : NotDropped(p.name)
           /\ \A r \in Range(a.roles) : NotDropped(r.name)
<1>1. a.of \in DOMAIN events /\ RenamedBy(norm, events[a.of].parts, a.parts)
  BY DEF TypedFrom
<1>2. PICK roles \in Seq(Roles) : RenamedBy(norm, roles, a.roles)
  BY DEF TypedFrom
<1>3. \A p \in Range(events[a.of].parts) : p \in Parts
  BY <1>1, PartsOfEvent
<1>4. \A r \in Range(roles) : r \in Roles
  <2>. HIDE DEF Roles
  <2>. QED  BY RangeInType
<1>5. ASSUME NEW p \in Range(a.parts)
      PROVE  NotDropped(p.name)
  <2>1. PICK x \in Range(events[a.of].parts) :
           Renamed(norm, x.name) # None /\ p = [x EXCEPT !.name = Renamed(norm, x.name)]
    BY <1>1 DEF RenamedBy
  <2>2. x \in Parts
    BY <1>3
  <2>3. p.name = Renamed(norm, x.name)
    BY <2>1, <2>2 DEF Parts
  <2>. QED  BY <2>1, <2>3, RenamedNotDropped
<1>6. ASSUME NEW r \in Range(a.roles)
      PROVE  NotDropped(r.name)
  <2>1. PICK x \in Range(roles) :
           Renamed(norm, x.name) # None /\ r = [x EXCEPT !.name = Renamed(norm, x.name)]
    BY <1>2 DEF RenamedBy
  <2>2. x \in Roles
    BY <1>4
  <2>3. r.name = Renamed(norm, x.name)
    BY <2>1, <2>2 DEF Roles
  <2>. QED  BY <2>1, <2>3, RenamedNotDropped
<1>. QED  BY <1>5, <1>6

FillersFit(c) ==
    /\ c.of \in DOMAIN events
    /\ \A f \in c.fillers : FillerEarned(c.of, f.name, f.type)
    /\ c.pred # "unresolved" => \A f \in c.fillers : NotDropped(f.name)

\* The payload of an assertion fits its event.
LEMMA TypedFits ==
    ASSUME EventsRead, NEW a, TypedFrom(a)
    PROVE  FillersFit(TypedPayload(a)) /\ TypedPayload(a).of = a.of
<1>. DEFINE c == TypedPayload(a)
            F(x) == \E role : \E y \in Range(a.parts) \cup Range(a.roles) :
                       x = Filler(role, y.name, ResolveType(a, y.name))
<1>1. a.parts \in Seq(Range(a.parts))
  BY DEF TypedFrom, RenamedBy
<1>2. /\ Len(a.parts) >= 1 => a.parts[1] \in Range(a.parts)
      /\ Len(a.parts) >= 2 => a.parts[2] \in Range(a.parts)
  <2>. DEFINE T == Range(a.parts)
  <2>. HIDE DEF T
  <2>1. a.parts \in Seq(T)
    BY <1>1 DEF T
  <2>2. /\ Len(a.parts) >= 1 => a.parts[1] \in T
        /\ Len(a.parts) >= 2 => a.parts[2] \in T
    BY <2>1
  <2>. QED  BY <2>2 DEF T
<1>3. c.of = a.of /\ \A x \in c.fillers : F(x)
  <2>. DEFINE G(role, y) == Filler(role, y.name, ResolveType(a, y.name))
  <2>1. \A x \in c.fillers : \/ \E r \in Range(a.roles) : x = G(r.role, r)
                             \/ Len(a.parts) >= 1 /\ x = G("source_entity", a.parts[1])
                             \/ Len(a.parts) >= 2 /\ x = G("target_entity", a.parts[2])
    BY DEF TypedPayload
  <2>2. \A role, y : y \in Range(a.parts) \cup Range(a.roles) => F(G(role, y))
    OBVIOUS
  <2>3. c.of = a.of
    BY DEF TypedPayload
  <2>. HIDE DEF F, G, c
  <2>4. ASSUME NEW x \in c.fillers
        PROVE  F(x)
    <3>1. \E role, y : x = G(role, y) /\ y \in Range(a.parts) \cup Range(a.roles)
      BY <1>2, <2>1
    <3>. QED  BY <2>2, <3>1
  <2>. QED  BY <2>3, <2>4
<1>4. ASSUME NEW x \in c.fillers
      PROVE  FillerEarned(c.of, x.name, x.type) /\ NotDropped(x.name)
  <2>1. F(x)
    BY <1>3
  <2>2. PICK role : \E y \in Range(a.parts) \cup Range(a.roles) : x = Filler(role, y.name, ResolveType(a, y.name))
    BY <2>1
  <2>3. PICK y \in Range(a.parts) \cup Range(a.roles) : x = Filler(role, y.name, ResolveType(a, y.name))
    BY <2>2
  <2>4. x.name = y.name /\ x.type = ResolveType(a, y.name)
    BY <2>3 DEF Filler
  <2>. HIDE DEF c, F
  <2>. QED  BY <1>3, <2>4, ResolveEarned, TypedNames
<1>5. c.of \in DOMAIN events
  BY <1>3 DEF TypedFrom
<1>. HIDE DEF c
<1>6. FillersFit(c)
  BY <1>4, <1>5 DEF FillersFit
<1>. QED  BY <1>3, <1>6 DEF c

\* The payload of an event left fits that event.
LEMMA LeftFits ==
    ASSUME EventsRead, NEW u, LeftFrom(u)
    PROVE  FillersFit(UnresolvedPayload(u)) /\ UnresolvedPayload(u).of = u.of
<1>. DEFINE c == UnresolvedPayload(u)
            F(x) == \E role : \E k \in DOMAIN u.parts : x = Filler(role, u.parts[k].name, u.parts[k].coarse)
<1>1. c.of = u.of /\ c.pred = "unresolved" /\ \A x \in c.fillers : F(x)
  <2>. DEFINE G(role, k) == Filler(role, u.parts[k].name, u.parts[k].coarse)
              legacy == [k \in 1..2 |-> IF k = 1 THEN "source_entity" ELSE "target_entity"]
  <2>1. \A x \in c.fillers : \E k \in DOMAIN u.parts :
           x = G(u.parts[k].proto, k) \/ x = G(legacy[k], k)
    BY DEF UnresolvedPayload
  <2>2. \A role : \A k \in DOMAIN u.parts : F(G(role, k))
    OBVIOUS
  <2>3. c.of = u.of /\ c.pred = "unresolved"
    BY DEF UnresolvedPayload
  <2>. HIDE DEF F, G, c, legacy
  <2>4. ASSUME NEW x \in c.fillers
        PROVE  F(x)
    <3>1. PICK k \in DOMAIN u.parts : x = G(u.parts[k].proto, k) \/ x = G(legacy[k], k)
      BY <2>1
    <3>2. F(G(u.parts[k].proto, k)) /\ F(G(legacy[k], k))
      BY <2>2
    <3>. QED  BY <3>1, <3>2
  <2>. QED  BY <2>3, <2>4
<1>2. ASSUME NEW x \in c.fillers
      PROVE  FillerEarned(c.of, x.name, x.type)
  <2>0. PICK role : \E k \in DOMAIN u.parts : x = Filler(role, u.parts[k].name, u.parts[k].coarse)
    BY <1>1
  <2>1. PICK k \in DOMAIN u.parts : x = Filler(role, u.parts[k].name, u.parts[k].coarse)
    BY <2>0
  <2>2. x.name = u.parts[k].name /\ x.type = u.parts[k].coarse
    BY <2>1 DEF Filler
  <2>3. PICK q \in Range(events[u.of].parts) :
           u.parts[k].coarse = q.coarse /\ (u.parts[k].name = q.name \/ u.parts[k].name = Renamed(norm, q.name))
    BY DEF LeftFrom, Range
  <2>. HIDE DEF c
  <2>. QED  BY <1>1, <2>2, <2>3 DEF FillerEarned
<1>3. c.of \in DOMAIN events
  BY <1>1 DEF LeftFrom
<1>. HIDE DEF c
<1>4. FillersFit(c)
  BY <1>1, <1>2, <1>3 DEF FillersFit
<1>. QED  BY <1>1, <1>4 DEF c

\* Two lists of different events make one.
LEMMA OnceInConcat ==
    ASSUME NEW T, NEW a \in Seq(T), NEW b \in Seq(T), EachOnce(a), EachOnce(b), Ofs(a) \cap Ofs(b) = {}
    PROVE  EachOnce(a \o b) /\ Ofs(a \o b) = Ofs(a) \cup Ofs(b)
<1>. DEFINE ab == a \o b
<1>1. /\ DOMAIN a = 1..Len(a) /\ DOMAIN b = 1..Len(b) /\ Len(a) \in Nat /\ Len(b) \in Nat
      /\ DOMAIN ab = 1..(Len(a) + Len(b))
      /\ \A i \in 1..Len(a) : ab[i] = a[i]
      /\ \A i \in 1..Len(b) : ab[Len(a) + i] = b[i]
  OBVIOUS
<1>2. Range(ab) = Range(a) \cup Range(b)
  BY RangeOfConcat
<1>. HIDE DEF ab
<1>3. ASSUME NEW i \in DOMAIN ab
      PROVE  \/ i \in DOMAIN a /\ ab[i] = a[i]
             \/ i - Len(a) \in DOMAIN b /\ ab[i] = b[i - Len(a)]
  <2>1. CASE i \in 1..Len(a)
    BY <1>1, <2>1
  <2>2. CASE i \notin 1..Len(a)
    <3>1. i - Len(a) \in 1..Len(b) /\ Len(a) + (i - Len(a)) = i
      BY <1>1, <2>2
    <3>2. ab[Len(a) + (i - Len(a))] = b[i - Len(a)]
      BY <1>1, <3>1
    <3>. QED  BY <1>1, <3>1, <3>2
  <2>. QED  BY <2>1, <2>2
<1>4. (\A i \in DOMAIN a : a[i].of \in Ofs(a)) /\ (\A i \in DOMAIN b : b[i].of \in Ofs(b))
  BY DEF Ofs, Range
<1>5. ASSUME NEW i \in DOMAIN ab, NEW j \in DOMAIN ab, ab[i].of = ab[j].of
      PROVE  i = j
  <2>1. i \in Int /\ j \in Int /\ Len(a) \in Int
    BY <1>1
  <2>2. CASE i \in DOMAIN a /\ ab[i] = a[i]
    <3>1. j \in DOMAIN a /\ ab[j] = a[j]
      BY <1>3, <1>4, <1>5, <2>2
    <3>. QED  BY <1>5, <2>2, <3>1 DEF EachOnce
  <2>3. CASE i - Len(a) \in DOMAIN b /\ ab[i] = b[i - Len(a)]
    <3>1. j - Len(a) \in DOMAIN b /\ ab[j] = b[j - Len(a)]
      BY <1>3, <1>4, <1>5, <2>3
    <3>2. i - Len(a) = j - Len(a)
      BY <1>5, <2>3, <3>1 DEF EachOnce
    <3>. QED  BY <2>1, <3>2
  <2>. QED  BY <1>3, <2>2, <2>3
<1>6. Ofs(ab) = Ofs(a) \cup Ofs(b)
  BY <1>2 DEF Ofs
<1>. QED  BY <1>5, <1>6 DEF EachOnce, ab

\* One import for each event shown, and its fillers fit.
ImportsFit ==
    /\ CandidateImports \in Seq(Range(CandidateImports)) /\ EachOnce(CandidateImports)
    /\ Ofs(CandidateImports) = Shown
    /\ \A c \in Range(CandidateImports) : FillersFit(c)

\* The imports are what the report says.
LEMMA ImportsFacts ==
    ASSUME EventsRead, ReportRight, Reported
    PROVE  ImportsFit
<1>. DEFINE typed == [k \in DOMAIN mapped |-> TypedPayload(mapped[k])]
            left == [k \in DOMAIN unresolved |-> UnresolvedPayload(unresolved[k])]
            T == Range(typed) \cup Range(left)
<1>1. /\ mapped \in Seq(Range(mapped)) /\ unresolved \in Seq(Range(unresolved))
      /\ EachOnce(mapped) /\ EachOnce(unresolved) /\ Ofs(mapped) \cap Ofs(unresolved) = {}
      /\ Ofs(mapped) \cup Ofs(unresolved) = Shown
      /\ \A a \in Range(mapped) : TypedFrom(a)
      /\ \A u \in Range(unresolved) : LeftFrom(u)
  BY DEF ReportRight
<1>2. /\ DOMAIN mapped = 1..Len(mapped) /\ Len(mapped) \in Nat
      /\ DOMAIN unresolved = 1..Len(unresolved) /\ Len(unresolved) \in Nat
  BY <1>1, RangeInType
<1>3. /\ \A k \in DOMAIN mapped : FillersFit(typed[k]) /\ typed[k].of = mapped[k].of
      /\ \A k \in DOMAIN unresolved : FillersFit(left[k]) /\ left[k].of = unresolved[k].of
  <2>1. /\ \A a \in Range(mapped) : FillersFit(TypedPayload(a)) /\ TypedPayload(a).of = a.of
        /\ \A u \in Range(unresolved) : FillersFit(UnresolvedPayload(u)) /\ UnresolvedPayload(u).of = u.of
    BY <1>1, TypedFits, LeftFits
  <2>. QED  BY <2>1 DEF Range
<1>4. DOMAIN typed = DOMAIN mapped /\ DOMAIN left = DOMAIN unresolved
  OBVIOUS
<1>5. typed \in Seq(Range(typed)) /\ left \in Seq(Range(left))
  <2>1. typed = [k \in 1..Len(mapped) |-> typed[k]] /\ left = [k \in 1..Len(unresolved) |-> left[k]]
    BY <1>2
  <2>. HIDE DEF typed, left
  <2>. QED  BY <1>2, <2>1, FunctionIsSeq
<1>6. CandidateImports = typed \o left
  BY DEF CandidateImports
<1>. HIDE DEF typed, left
<1>7. typed \in Seq(T) /\ left \in Seq(T)
  BY <1>5
<1>8. EachOnce(typed) /\ EachOnce(left) /\ Ofs(typed) = Ofs(mapped) /\ Ofs(left) = Ofs(unresolved)
  <2>1. EachOnce(typed) /\ EachOnce(left)
    BY <1>1, <1>3, <1>4 DEF EachOnce
  <2>2. Ofs(typed) = {typed[k].of : k \in DOMAIN mapped} /\ Ofs(mapped) = {mapped[k].of : k \in DOMAIN mapped}
    BY <1>4 DEF Ofs, Range
  <2>3. /\ Ofs(left) = {left[k].of : k \in DOMAIN unresolved}
        /\ Ofs(unresolved) = {unresolved[k].of : k \in DOMAIN unresolved}
    BY <1>4 DEF Ofs, Range
  <2>4. Ofs(typed) = Ofs(mapped)
    BY <1>3, <2>2
  <2>5. Ofs(left) = Ofs(unresolved)
    BY <1>3, <2>3
  <2>. QED  BY <2>1, <2>4, <2>5
<1>9. \A c \in T : FillersFit(c)
  BY <1>3, <1>4 DEF Range
<1>. HIDE DEF T
<1>10. EachOnce(CandidateImports) /\ Ofs(CandidateImports) = Shown
  <2>1. Ofs(typed) \cap Ofs(left) = {} /\ Ofs(typed) \cup Ofs(left) = Shown
    BY <1>1, <1>8
  <2>2. EachOnce(typed \o left) /\ Ofs(typed \o left) = Ofs(typed) \cup Ofs(left)
    BY <1>7, <1>8, <2>1, OnceInConcat
  <2>. QED  BY <1>6, <2>1, <2>2
<1>11. CandidateImports \in Seq(T)
  BY <1>6, <1>7, ConcatType
<1>12. CandidateImports \in Seq(Range(CandidateImports)) /\ \A c \in Range(CandidateImports) : c \in T
  BY <1>11, RangeInType
<1>. QED  BY <1>9, <1>10, <1>12 DEF ImportsFit

-----------------------------------------------------------------------------
(***************************************************************************)
(* The submission.                                                         *)
(***************************************************************************)
Sent(k) == {c \in DOMAIN candidates : candidates[c].of = k}
SentNow(k) == \E j \in DOMAIN CandidateImports : j < at /\ CandidateImports[j].of = k
AtMost(k) == IF phase = "submit" /\ ~SentNow(k) THEN attempt - 1 ELSE attempt

\* The imports go in one by one: an attempt sends each of them once at most,
\* and has sent those before the one it is at.
SubmittedInTurn ==
    /\ ~Reported => candidates = <<>>
    /\ Reported =>
        /\ candidates \in Seq(Range(CandidateImports)) /\ attempt \in Nat
        /\ phase = "submit" => attempt > 0 /\ at \in Nat
        /\ \A k : IsFiniteSet(Sent(k)) /\ Cardinality(Sent(k)) <= AtMost(k)
        /\ phase = "submit" => \A j \in DOMAIN CandidateImports : j < at => Sent(CandidateImports[j].of) # {}
        /\ phase = "done" => \A j \in DOMAIN CandidateImports : Sent(CandidateImports[j].of) # {}

\* A submission takes the next import, or breaks off.
LEMMA SubmitKeepsTurn ==
    ASSUME ImportsFit, SubmittedInTurn, SubmitCandidate
    PROVE  SubmittedInTurn'
<1>. DEFINE c == CandidateImports[at]
            n == Len(candidates)
<1>1. /\ phase = "submit" /\ UNCHANGED <<mapped, unresolved, attempt>> /\ at \in DOMAIN CandidateImports
  BY DEF SubmitCandidate
<1>2. CandidateImports' = CandidateImports
  BY <1>1 DEF CandidateImports
<1>3. /\ candidates \in Seq(Range(CandidateImports)) /\ attempt \in Nat /\ attempt > 0 /\ at \in Nat
      /\ \A k : IsFiniteSet(Sent(k)) /\ Cardinality(Sent(k)) <= AtMost(k)
      /\ \A j \in DOMAIN CandidateImports : j < at => Sent(CandidateImports[j].of) # {}
  BY <1>1 DEF SubmittedInTurn, Reported
<1>4. \A k : AtMost(k) = IF SentNow(k) THEN attempt ELSE attempt - 1
  BY <1>1 DEF AtMost
<1>5. CASE phase' = "report" /\ UNCHANGED <<candidates, at>>
  <2>1. \A k : Sent(k)' = Sent(k) /\ AtMost(k)' = attempt
    BY <1>1, <1>5 DEF Sent, AtMost
  <2>2. \A k : IsFiniteSet(Sent(k)) /\ Cardinality(Sent(k)) <= attempt
    <3>1. \A k : Cardinality(Sent(k)) \in Nat
      BY <1>3, FS_CardinalityType
    <3>. QED  BY <1>3, <1>4, <3>1
  <2>. QED  BY <1>1, <1>2, <1>3, <1>5, <2>1, <2>2 DEF SubmittedInTurn, Reported
<1>6. CASE candidates' = Append(candidates, c) /\ at' = at + 1 /\ phase' = phase
  <2>1. /\ candidates' \in Seq(Range(CandidateImports)) /\ n \in Nat
        /\ DOMAIN candidates = 1..n /\ DOMAIN candidates' = 1..(n + 1)
        /\ \A i \in 1..n : candidates'[i] = candidates[i]
        /\ candidates'[n + 1] = c
    <3>. DEFINE T == Range(CandidateImports)
    <3>1. c \in T
      BY <1>1 DEF Range
    <3>. HIDE DEF T, c
    <3>2. candidates \in Seq(T)
      BY <1>3 DEF T
    <3>3. /\ Append(candidates, c) \in Seq(T) /\ n \in Nat
          /\ DOMAIN candidates = 1..n /\ DOMAIN Append(candidates, c) = 1..(n + 1)
          /\ \A i \in 1..n : Append(candidates, c)[i] = candidates[i]
          /\ Append(candidates, c)[n + 1] = c
      BY <3>1, <3>2
    <3>. QED  BY <1>6, <3>3 DEF T
  <2>. HIDE DEF n
  <2>2. ASSUME NEW k
        PROVE  Sent(k)' = IF k = c.of THEN Sent(k) \cup {n + 1} ELSE Sent(k)
    <3>1. \A i : i \in 1..(n + 1) <=> i \in 1..n \/ i = n + 1
      BY <2>1
    <3>. HIDE DEF c
    <3>. QED  BY <2>1, <3>1 DEF Sent
  <2>3. \A k : n + 1 \notin Sent(k)
    BY <2>1 DEF Sent
  <2>4. ASSUME NEW k
        PROVE  SentNow(k)' <=> SentNow(k) \/ k = c.of
    <3>1. \A j \in DOMAIN CandidateImports : j \in Nat /\ (j < at + 1 <=> j < at \/ j = at)
      <4>1. DOMAIN CandidateImports = 1..Len(CandidateImports) /\ Len(CandidateImports) \in Nat
        BY DEF ImportsFit
      <4>. QED  BY <1>3, <4>1
    <3>. QED  BY <1>1, <1>2, <1>6, <3>1 DEF SentNow
  <2>5. ~SentNow(c.of)
    <3>1. \A j \in DOMAIN CandidateImports : CandidateImports[j].of = c.of => j = at
      BY <1>1 DEF ImportsFit, EachOnce
    <3>. QED  BY <1>3, <3>1 DEF SentNow
  <2>6. \A k : AtMost(k)' = IF SentNow(k)' THEN attempt ELSE attempt - 1
    BY <1>1, <1>6 DEF AtMost
  <2>7. ASSUME NEW k
        PROVE  IsFiniteSet(Sent(k)') /\ Cardinality(Sent(k)') <= AtMost(k)'
    <3>1. IsFiniteSet(Sent(k)) /\ Cardinality(Sent(k)) \in Nat /\ Cardinality(Sent(k)) <= AtMost(k)
      BY <1>3, FS_CardinalityType
    <3>2. CASE k = c.of
      <4>1. IsFiniteSet(Sent(k) \cup {n + 1}) /\ Cardinality(Sent(k) \cup {n + 1}) = Cardinality(Sent(k)) + 1
        BY <2>3, <3>1, FS_AddElement
      <4>2. AtMost(k) = attempt - 1 /\ AtMost(k)' = attempt
        BY <1>4, <2>4, <2>5, <2>6, <3>2
      <4>3. Cardinality(Sent(k)) + 1 <= attempt
        BY <1>3, <3>1, <4>2
      <4>4. Sent(k)' = Sent(k) \cup {n + 1}
        BY <2>2, <3>2
      <4>. QED  BY <4>1, <4>2, <4>3, <4>4
    <3>3. CASE k # c.of
      <4>1. AtMost(k)' = AtMost(k)
        BY <1>4, <2>4, <2>6, <3>3
      <4>. QED  BY <2>2, <3>1, <3>3, <4>1
    <3>. QED  BY <3>2, <3>3
  <2>8. ASSUME NEW j \in DOMAIN CandidateImports, j < at + 1
        PROVE  Sent(CandidateImports[j].of)' # {}
    <3>1. Sent(CandidateImports[j].of) # {} \/ j = at
      <4>1. j \in Nat
        <5>1. DOMAIN CandidateImports = 1..Len(CandidateImports)
          BY DEF ImportsFit
        <5>. QED  BY <5>1
      <4>. QED  BY <1>3, <2>8, <4>1
    <3>2. Sent(CandidateImports[j].of)' = {i \in DOMAIN candidates' : candidates'[i].of = CandidateImports[j].of}
      BY <1>2 DEF Sent
    <3>3. CASE j = at
      BY <2>1, <3>2, <3>3
    <3>4. CASE Sent(CandidateImports[j].of) # {}
      BY <2>1, <3>2, <3>4 DEF Sent
    <3>. QED  BY <3>1, <3>3, <3>4
  <2>. HIDE DEF c
  <2>. QED  BY <1>1, <1>2, <1>3, <1>6, <2>1, <2>7, <2>8 DEF SubmittedInTurn, Reported
<1>. QED  BY <1>5, <1>6 DEF SubmitCandidate

\* Every step keeps the imports in turn.
LEMMA TurnNext ==
    ASSUME WorkInv, ReportRight, SubmittedInTurn, [Next]_vars
    PROVE  SubmittedInTurn'
<1>1. CASE SubmitCandidate
  <2>1. ImportsFit
    BY <1>1, ImportsFacts DEF SubmitCandidate, Reported, WorkInv
  <2>. QED  BY <1>1, <2>1, SubmitKeepsTurn
<1>2. CASE ApplyNormalization \/ LosePass4
  <2>1. candidates' = <<>> /\ attempt' = 0 /\ phase' = "report"
    BY <1>2 DEF ApplyNormalization, LosePass4, Report, WorkInv, NothingYet, Working
  <2>2. \A k : Sent(k)' = {} /\ AtMost(k)' = 0
    BY <2>1 DEF Sent, AtMost
  <2>3. IsFiniteSet({}) /\ Cardinality({}) = 0
    BY FS_EmptySet
  <2>4. candidates' \in Seq(Range(CandidateImports'))
    BY <2>1
  <2>. QED  BY <2>1, <2>2, <2>3, <2>4 DEF SubmittedInTurn, Reported
<1>3. CASE BeginSubmit
  <2>1. /\ phase = "report" /\ phase' = "submit" /\ at' = 1 /\ attempt' = attempt + 1
        /\ UNCHANGED <<mapped, unresolved, candidates>>
    BY <1>3 DEF BeginSubmit
  <2>2. /\ candidates \in Seq(Range(CandidateImports)) /\ attempt \in Nat
        /\ \A k : IsFiniteSet(Sent(k)) /\ Cardinality(Sent(k)) <= attempt
    BY <2>1 DEF SubmittedInTurn, Reported, AtMost
  <2>3. CandidateImports' = CandidateImports /\ DOMAIN CandidateImports = 1..Len(CandidateImports)
    <3>1. ImportsFit
      BY <2>1, ImportsFacts DEF Reported, WorkInv
    <3>. QED  BY <2>1, <3>1 DEF CandidateImports, ImportsFit
  <2>4. \A j \in DOMAIN CandidateImports : ~(j < 1)
    BY <2>3
  <2>5. \A k : Sent(k)' = Sent(k) /\ AtMost(k)' = attempt
    <3>1. \A k : Sent(k)' = Sent(k)
      BY <2>1 DEF Sent
    <3>2. \A k : ~SentNow(k)'
      BY <2>1, <2>3, <2>4 DEF SentNow
    <3>3. attempt' = attempt + 1 /\ attempt \in Nat
      BY <2>1, <2>2
    <3>4. ASSUME NEW k
          PROVE  AtMost(k)' = attempt
      <4>1. AtMost(k)' = attempt' - 1
        BY <2>1, <3>2 DEF AtMost
      <4>. QED  BY <3>3, <4>1
    <3>. QED  BY <3>1, <3>4
  <2>. QED  BY <2>1, <2>2, <2>3, <2>4, <2>5 DEF SubmittedInTurn, Reported
<1>4. CASE EndSubmit
  <2>1. /\ phase = "submit" /\ phase' = "done" /\ at > Len(CandidateImports)
        /\ UNCHANGED <<mapped, unresolved, candidates, attempt>>
    BY <1>4 DEF EndSubmit
  <2>2. /\ candidates \in Seq(Range(CandidateImports)) /\ attempt \in Nat /\ at \in Nat
        /\ \A k : IsFiniteSet(Sent(k)) /\ Cardinality(Sent(k)) <= AtMost(k)
        /\ \A j \in DOMAIN CandidateImports : j < at => Sent(CandidateImports[j].of) # {}
    BY <2>1 DEF SubmittedInTurn, Reported
  <2>3. CandidateImports' = CandidateImports /\ \A k : Sent(k)' = Sent(k) /\ AtMost(k)' = attempt
    BY <2>1 DEF CandidateImports, Sent, AtMost
  <2>4. \A j \in DOMAIN CandidateImports : j < at
    <3>1. ImportsFit
      BY <2>1, ImportsFacts DEF Reported, WorkInv
    <3>2. DOMAIN CandidateImports = 1..Len(CandidateImports) /\ Len(CandidateImports) \in Nat
      BY <3>1 DEF ImportsFit
    <3>. QED  BY <2>1, <2>2, <3>2
  <2>5. \A k : Cardinality(Sent(k)) <= attempt
    <3>1. \A k : Cardinality(Sent(k)) \in Nat /\ (AtMost(k) = attempt \/ AtMost(k) = attempt - 1)
      BY <2>2, FS_CardinalityType DEF AtMost
    <3>. QED  BY <2>2, <3>1
  <2>6. \A j \in DOMAIN CandidateImports : Sent(CandidateImports[j].of)' # {}
    BY <2>1, <2>2, <2>3, <2>4 DEF Sent
  <2>. QED  BY <2>1, <2>2, <2>3, <2>5, <2>6 DEF SubmittedInTurn, Reported
<1>5. CASE UNCHANGED vars
  <2>1. UNCHANGED <<phase, at, mapped, unresolved, candidates, attempt>>
    BY <1>5 DEF vars
  <2>2. /\ CandidateImports' = CandidateImports /\ (Reported' <=> Reported)
        /\ \A k : Sent(k)' = Sent(k) /\ AtMost(k)' = AtMost(k)
    BY <2>1 DEF CandidateImports, Reported, Sent, AtMost, SentNow
  <2>3. \A j : Sent(CandidateImports[j].of)' = Sent(CandidateImports[j].of)
    BY <2>1 DEF CandidateImports, Sent
  <2>. QED  BY <2>1, <2>2, <2>3 DEF SubmittedInTurn
<1>6. CASE \/ ReadChunk \/ MergeChunks \/ MapEvent \/ EndPass2 \/ RefineEntity \/ NextAssertion
           \/ EndPass3 \/ PassRaises \/ ResolveAnaphors \/ MergeBatch
  <2>1. ~Reported /\ ~Reported' /\ candidates' = candidates
    BY <1>6 DEF ReadChunk, MergeChunks, MapEvent, EndPass2, RefineEntity, NextAssertion, EndPass3,
                PassRaises, ResolveAnaphors, MergeBatch, Reported
  <2>. QED  BY <2>1 DEF SubmittedInTurn
<1>. QED  BY <1>1, <1>2, <1>3, <1>4, <1>5, <1>6 DEF Next

CandidatesInv == WorkInv /\ AnaphorsDecided /\ ReportRight /\ SubmittedInTurn

\* What the theorems on candidates rest on.
LEMMA SpecCandidates == Spec => []CandidatesInv
<1>1. Init => CandidatesInv
  <2>1. Init => AnaphorsDecided /\ ReportRight /\ SubmittedInTurn
    BY DEF Init, AnaphorsDecided, ReportRight, SubmittedInTurn, Reported
  <2>. QED  BY <2>1, WorkInit DEF CandidatesInv
<1>2. CandidatesInv /\ [Next]_vars => CandidatesInv'
  BY WorkNext, AnaphorsNext, ReportNext, TurnNext DEF CandidatesInv
<1>. QED  BY <1>1, <1>2, PTL DEF Spec

\* A candidate is one of the report's, so its fillers fit its event.
LEMMA CandidatesFit ==
    ASSUME CandidatesInv
    PROVE  \A c \in Range(candidates) : FillersFit(c)
<1>1. CASE ~Reported
  BY <1>1 DEF CandidatesInv, SubmittedInTurn, Range
<1>2. CASE Reported
  <2>1. ImportsFit
    BY <1>2, ImportsFacts DEF CandidatesInv, WorkInv
  <2>2. candidates \in Seq(Range(CandidateImports))
    BY <1>2 DEF CandidatesInv, SubmittedInTurn
  <2>3. \A c \in Range(candidates) : c \in Range(CandidateImports)
    BY <2>2, RangeInType
  <2>. QED  BY <2>1, <2>3 DEF ImportsFit
<1>. QED  BY <1>1, <1>2

\* No filler of a candidate has a type foreign to it: the type lies in the
\* subtree of a participant that bears the name or was given it, whatever the
\* passes, the cache and the renaming of Pass 4 did on the way.
THEOREM TypesAreEarned == Spec => []FillersEarnType
<1>1. CandidatesInv => FillersEarnType
  <2>. SUFFICES ASSUME CandidatesInv, NEW c \in Range(candidates), NEW f \in c.fillers
                PROVE  FillerEarned(c.of, f.name, f.type)
    BY DEF FillersEarnType, FillerEarned
  <2>. QED  BY CandidatesFit DEF FillersFit
<1>. QED  BY <1>1, SpecCandidates, PTL

\* A name Pass 4 dropped is in no role and no argument of a typed candidate,
\* unless the normalization map puts it in for another name.
THEOREM DroppedStayDropped == Spec => []DropsStayDropped
<1>1. CandidatesInv => DropsStayDropped
  <2>. SUFFICES ASSUME CandidatesInv, NEW c \in Range(candidates), c.pred # "unresolved", NEW f \in c.fillers
                PROVE  NotDropped(f.name)
    BY DEF DropsStayDropped, NotDropped
  <2>. QED  BY CandidatesFit DEF FillersFit
<1>. QED  BY <1>1, SpecCandidates, PTL

\* When a report was submitted to the end, every extracted event has its
\* candidate, one per attempt at most, and those without one are exactly the
\* events all of whose participants Pass 4 removed.
THEOREM NothingIsLost == Spec => []EventsAccountedFor
<1>1. CandidatesInv => EventsAccountedFor
  <2>. SUFFICES ASSUME CandidatesInv, phase = "done", NEW k \in DOMAIN events
                PROVE  /\ Cardinality(Sent(k)) <= attempt
                       /\ Cardinality(Sent(k)) = 0 <=> Wholly(k)
    BY DEF EventsAccountedFor, Sent, Wholly
  <2>1. Reported /\ ImportsFit
    BY ImportsFacts DEF CandidatesInv, WorkInv, Reported
  <2>2. /\ candidates \in Seq(Range(CandidateImports))
        /\ IsFiniteSet(Sent(k)) /\ Cardinality(Sent(k)) <= attempt
        /\ \A j \in DOMAIN CandidateImports : Sent(CandidateImports[j].of) # {}
    BY <2>1 DEF CandidatesInv, SubmittedInTurn, AtMost
  <2>3. Cardinality(Sent(k)) = 0 <=> Sent(k) = {}
    BY <2>2, FS_EmptySet
  <2>4. k \in Ofs(CandidateImports) <=> ~Wholly(k)
    BY <2>1 DEF ImportsFit, Shown
  <2>5. Sent(k) # {} => k \in Ofs(CandidateImports)
    <3>1. \A c \in Range(candidates) : c \in Range(CandidateImports)
      BY <2>2, RangeInType
    <3>. QED  BY <3>1 DEF Sent, Ofs, Range
  <2>6. k \in Ofs(CandidateImports) => Sent(k) # {}
    BY <2>2 DEF Ofs, Range
  <2>. QED  BY <2>2, <2>3, <2>4, <2>5, <2>6
<1>. QED  BY <1>1, SpecCandidates, PTL
=============================================================================
