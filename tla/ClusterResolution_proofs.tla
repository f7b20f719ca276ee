----------------------- MODULE ClusterResolution_proofs -----------------------
(***************************************************************************)
(* The groups a run forms, for any scan, any answers of the model and any  *)
(* sizes: every entity ends in one group, and no group brings together     *)
(* things of different families.                                           *)
(***************************************************************************)
EXTENDS ClusterResolution, Lists_proofs

-----------------------------------------------------------------------------
(***************************************************************************)
(* Lists of groups.  A listing holds every entity once: its groups are not *)
(* empty and no two of them share an entity.                               *)
(***************************************************************************)
Listing(gs, E) ==
  /\ gs \in Seq(Seq(E))
  /\ \A k \in DOMAIN gs : gs[k] # <<>>
  /\ \A k, l \in DOMAIN gs : k # l => ToSet(gs[k]) \cap ToSet(gs[l]) = {}

\* What a sequence holds, under its two names.
LEMMA ToSetIsRange == \A s : ToSet(s) = Range(s)
BY DEF ToSet, Range

\* A sequence has finitely many elements.
LEMMA SequenceFinite ==
  ASSUME NEW T, NEW s \in Seq(T)
  PROVE  IsFiniteSet(ToSet(s))
<1>1. s \in Surjection(1..Len(s), ToSet(s)) /\ Len(s) \in Nat
  BY DEF Surjection, ToSet
<1>2. IsFiniteSet(1..Len(s))
  BY <1>1, FS_Interval
<1>. QED  BY <1>1, <1>2, FS_Surjection

\* What is grouped, by the groups.
LEMMA GroupedInRange ==
  ASSUME NEW gs
  PROVE  GroupedIn(gs) = UNION {ToSet(g) : g \in Range(gs)}
BY DEF GroupedIn, Range

\* What two sequences hold at which place, together.
LEMMA ConcatPlaces ==
  ASSUME NEW T, NEW a \in Seq(T), NEW b \in Seq(T)
  PROVE  /\ a \o b \in Seq(T) /\ Range(a \o b) = Range(a) \cup Range(b)
         /\ DOMAIN a = 1..Len(a) /\ DOMAIN b = 1..Len(b) /\ Len(a) \in Nat /\ Len(b) \in Nat
         /\ DOMAIN (a \o b) = 1..(Len(a) + Len(b))
         /\ \A i \in DOMAIN a : (a \o b)[i] = a[i]
         /\ \A i \in DOMAIN (a \o b) :
              i \notin DOMAIN a => i - Len(a) \in DOMAIN b /\ (a \o b)[i] = b[i - Len(a)]
<1>1. /\ DOMAIN a = 1..Len(a) /\ DOMAIN b = 1..Len(b) /\ Len(a) \in Nat /\ Len(b) \in Nat
      /\ a \o b \in Seq(T) /\ Len(a \o b) = Len(a) + Len(b)
      /\ \A i \in 1..Len(a) : (a \o b)[i] = a[i]
      /\ \A i \in 1..Len(b) : (a \o b)[Len(a) + i] = b[i]
  OBVIOUS
<1>2. DOMAIN (a \o b) = 1..(Len(a) + Len(b))
  BY <1>1
<1>3. ASSUME NEW i \in 1..(Len(a) + Len(b)), i \notin 1..Len(a)
      PROVE  i - Len(a) \in 1..Len(b) /\ (a \o b)[i] = b[i - Len(a)]
  <2>1. i - Len(a) \in 1..Len(b) /\ Len(a) + (i - Len(a)) = i
    BY <1>1, <1>3
  <2>2. (a \o b)[Len(a) + (i - Len(a))] = b[i - Len(a)]
    BY <1>1, <2>1
  <2>. QED  BY <2>1, <2>2
<1>. QED  BY <1>1, <1>2, <1>3, RangeOfConcat

\* What two lists of groups have grouped, together.
LEMMA GroupedInConcat ==
  ASSUME NEW T, NEW a \in Seq(T), NEW b \in Seq(T)
  PROVE  GroupedIn(a \o b) = GroupedIn(a) \cup GroupedIn(b)
<1>1. Range(a \o b) = Range(a) \cup Range(b)
  BY RangeOfConcat
<1>. QED  BY <1>1, GroupedInRange

\* Two listings with no entity in common are one listing.
LEMMA ListingOfConcat ==
  ASSUME NEW E, NEW a, NEW b, Listing(a, E), Listing(b, E), GroupedIn(a) \cap GroupedIn(b) = {}
  PROVE  /\ Listing(a \o b, E) /\ Range(a \o b) = Range(a) \cup Range(b)
         /\ GroupedIn(a \o b) = GroupedIn(a) \cup GroupedIn(b)
<1>. DEFINE T == Seq(E)
            ab == a \o b
<1>1. a \in Seq(T) /\ b \in Seq(T)
  BY DEF Listing
<1>. HIDE DEF T
<1>2. /\ ab \in Seq(T) /\ Range(ab) = Range(a) \cup Range(b)
      /\ DOMAIN a = 1..Len(a) /\ DOMAIN b = 1..Len(b) /\ Len(a) \in Nat /\ Len(b) \in Nat
      /\ DOMAIN ab = 1..(Len(a) + Len(b))
      /\ \A i \in DOMAIN a : ab[i] = a[i]
      /\ \A i \in DOMAIN ab : i \notin DOMAIN a => i - Len(a) \in DOMAIN b /\ ab[i] = b[i - Len(a)]
  BY <1>1, ConcatPlaces
<1>. HIDE DEF ab
<1>3. GroupedIn(ab) = GroupedIn(a) \cup GroupedIn(b)
  BY <1>2, GroupedInRange
<1>4. ASSUME NEW k \in DOMAIN ab
      PROVE  ab[k] # <<>>
  BY <1>2 DEF Listing
<1>5. ASSUME NEW k \in DOMAIN ab, NEW l \in DOMAIN ab, k # l
      PROVE  ToSet(ab[k]) \cap ToSet(ab[l]) = {}
  <2>1. \A i \in DOMAIN a : ToSet(a[i]) \subseteq GroupedIn(a)
    BY DEF GroupedIn
  <2>2. \A i \in DOMAIN b : ToSet(b[i]) \subseteq GroupedIn(b)
    BY DEF GroupedIn
  <2>3. CASE k \in DOMAIN a /\ l \in DOMAIN a
    BY <1>2, <1>5, <2>3 DEF Listing
  <2>4. CASE k \in DOMAIN a /\ l \notin DOMAIN a
    BY <1>2, <2>1, <2>2, <2>4
  <2>5. CASE k \notin DOMAIN a /\ l \in DOMAIN a
    BY <1>2, <2>1, <2>2, <2>5
  <2>6. CASE k \notin DOMAIN a /\ l \notin DOMAIN a
    <3>1. k - Len(a) # l - Len(a)
      BY <1>2, <1>5
    <3>. QED  BY <1>2, <2>6, <3>1 DEF Listing
  <2>. QED  BY <2>3, <2>4, <2>5, <2>6
<1>. QED  BY <1>2, <1>3, <1>4, <1>5 DEF Listing, ab, T

\* A sequence that is not empty is a listing of one group.
LEMMA ListingOfOne ==
  ASSUME NEW E, NEW c \in Seq(E), c # <<>>
  PROVE  /\ Listing(<<c>>, E) /\ GroupedIn(<<c>>) = ToSet(c)
<1>1. DOMAIN <<c>> = {1} /\ <<c>>[1] = c
  OBVIOUS
<1>2. <<c>> \in Seq(Seq(E))
  <2>. DEFINE T == Seq(E)
  <2>. HIDE DEF T
  <2>1. c \in T
    BY DEF T
  <2>2. <<c>> \in Seq(T)
    BY <2>1, SingleSeq
  <2>. QED  BY <2>2 DEF T
<1>. QED  BY <1>1, <1>2 DEF Listing, GroupedIn

\* A group for each element of a sequence.
LEMMA ListingOfSingles ==
  ASSUME NEW E, NEW s \in Seq(E), \A i, j \in DOMAIN s : s[i] = s[j] => i = j
  PROVE  /\ Listing(Singles(s), E) /\ GroupedIn(Singles(s)) = ToSet(s)
<1>. DEFINE gs == Singles(s)
<1>1. DOMAIN gs = DOMAIN s /\ DOMAIN s = 1..Len(s) /\ Len(s) \in Nat
  BY DEF Singles
<1>2. \A k \in DOMAIN s : gs[k] = <<s[k]>> /\ s[k] \in E
  BY DEF Singles
<1>3. \A e : DOMAIN <<e>> = {1} /\ <<e>>[1] = e /\ <<e>> # <<>>
  OBVIOUS
<1>4. \A e : ToSet(<<e>>) = {e}
  BY <1>3 DEF ToSet
<1>5. \A e \in E : <<e>> \in Seq(E)
  BY SingleSeq
<1>6. gs \in Seq(Seq(E))
  <2>. DEFINE T == Seq(E)
  <2>1. \A k \in 1..Len(s) : <<s[k]>> \in T
    BY <1>1, <1>2, <1>5
  <2>2. gs = [k \in 1..Len(s) |-> <<s[k]>>]
    BY <1>1 DEF Singles
  <2>. HIDE DEF T
  <2>3. gs \in Seq(T)
    BY <1>1, <2>1, <2>2
  <2>. QED  BY <2>3 DEF T
<1>. HIDE DEF gs
<1>7. GroupedIn(gs) = ToSet(s)
  <2>1. GroupedIn(gs) = UNION {ToSet(gs[k]) : k \in DOMAIN s}
    BY <1>1 DEF GroupedIn
  <2>2. \A k \in DOMAIN s : ToSet(gs[k]) = {s[k]}
    BY <1>2, <1>4
  <2>3. ToSet(s) = {s[k] : k \in DOMAIN s}
    BY DEF ToSet
  <2>4. GroupedIn(gs) \subseteq ToSet(s)
    BY <2>1, <2>2, <2>3
  <2>5. ToSet(s) \subseteq GroupedIn(gs)
    BY <2>1, <2>2, <2>3
  <2>. QED  BY <2>4, <2>5
<1>8. \A k \in DOMAIN gs : gs[k] # <<>>
  BY <1>1, <1>2, <1>3
<1>9. \A k, l \in DOMAIN gs : k # l => ToSet(gs[k]) \cap ToSet(gs[l]) = {}
  <2>1. \A k \in DOMAIN gs : ToSet(gs[k]) = {s[k]}
    BY <1>1, <1>2, <1>4
  <2>2. \A k, l \in DOMAIN gs : k # l => s[k] # s[l]
    BY <1>1
  <2>. QED  BY <2>1, <2>2
<1>. QED  BY <1>6, <1>7, <1>8, <1>9 DEF Listing, gs

\* The members of a set of groups with no entity in common, in some order.
LEMMA ListingOfSet ==
  ASSUME NEW E, NEW M \in SUBSET Seq(E), IsFiniteSet(M), <<>> \notin M,
         \A g, h \in M : g # h => ToSet(g) \cap ToSet(h) = {}
  PROVE  /\ Listing(SetToSeq(M), E) /\ Range(SetToSeq(M)) = M
         /\ GroupedIn(SetToSeq(M)) = UNION {ToSet(g) : g \in M}
<1>. DEFINE gs == SetToSeq(M)
<1>1. /\ gs \in Seq(M) /\ Range(gs) = M
      /\ \A i, j \in DOMAIN gs : gs[i] = gs[j] => i = j
  BY SetToSeqFacts
<1>. HIDE DEF gs
<1>2. DOMAIN gs = 1..Len(gs) /\ Len(gs) \in Nat /\ \A k \in DOMAIN gs : gs[k] \in M
  BY <1>1
<1>3. gs \in Seq(Seq(E))
  <2>. DEFINE T == Seq(E)
  <2>1. \A k \in 1..Len(gs) : gs[k] \in T
    BY <1>2
  <2>. HIDE DEF T
  <2>2. gs = [k \in 1..Len(gs) |-> gs[k]]
    BY <1>1
  <2>3. gs \in Seq(T)
    BY <1>2, <2>1, <2>2
  <2>. QED  BY <2>3 DEF T
<1>4. Listing(gs, E)
  BY <1>1, <1>2, <1>3 DEF Listing
<1>. QED  BY <1>1, <1>4, GroupedInRange DEF gs

\* Listings with no entity in common, one after the other.
LEMMA ListingOfFlatten ==
  ASSUME NEW E, NEW ps \in Seq(Seq(Seq(E))), \A k \in DOMAIN ps : Listing(ps[k], E),
         \A k, l \in DOMAIN ps : k # l => GroupedIn(ps[k]) \cap GroupedIn(ps[l]) = {}
  PROVE  /\ Listing(FlattenSeq(ps), E)
         /\ GroupedIn(FlattenSeq(ps)) = UNION {GroupedIn(ps[k]) : k \in DOMAIN ps}
<1>. DEFINE T == Seq(E)
            n == Len(ps)
            Upto(k) == UNION {GroupedIn(ps[i]) : i \in 1..k}
<1>1. n \in Nat /\ DOMAIN ps = 1..n
  OBVIOUS
<1>2. PICK joined : Flattens(ps, T, joined)
  <2>1. ps \in Seq(Seq(T))
    OBVIOUS
  <2>. HIDE DEF T
  <2>. QED  BY <2>1, FlattenScans
<1>3. /\ joined[0] = <<>> /\ FlattenSeq(ps) = joined[n]
      /\ \A k \in 1..n : joined[k] = joined[k - 1] \o ps[k]
  BY <1>2 DEF Flattens
<1>. HIDE DEF n
<1>. DEFINE S == {k \in 0..n : Listing(joined[k], E) /\ GroupedIn(joined[k]) = Upto(k)}
<1>4. 0 \in S
  <2>1. Listing(<<>>, E) /\ GroupedIn(<<>>) = {}
    BY DEF Listing, GroupedIn
  <2>2. Upto(0) = {} /\ 0 \in 0..n
    BY <1>1
  <2>. QED  BY <1>3, <2>1, <2>2
<1>5. ASSUME NEW k \in 0..n, k > 0, k - 1 \in S
      PROVE  k \in S
  <2>1. k \in 1..n /\ k - 1 \in 0..n
    BY <1>1, <1>5
  <2>2. \A i \in 1..(k - 1) : i \in 1..n /\ i # k
    BY <1>1, <2>1
  <2>3. Upto(k - 1) \cap GroupedIn(ps[k]) = {}
    BY <1>1, <2>1, <2>2
  <2>4. 1..k = (1..(k - 1)) \cup {k}
    BY <2>1
  <2>5. Upto(k) = Upto(k - 1) \cup GroupedIn(ps[k])
    BY <2>4
  <2>. HIDE DEF Upto
  <2>6. Listing(joined[k - 1], E) /\ GroupedIn(joined[k - 1]) = Upto(k - 1) /\ Listing(ps[k], E)
    BY <1>1, <1>5, <2>1
  <2>7. GroupedIn(joined[k - 1]) \cap GroupedIn(ps[k]) = {}
    BY <2>3, <2>6
  <2>8. Listing(joined[k - 1] \o ps[k], E)
    BY <2>6, <2>7, ListingOfConcat
  <2>9. GroupedIn(joined[k - 1] \o ps[k]) = GroupedIn(joined[k - 1]) \cup GroupedIn(ps[k])
    <3>1. joined[k - 1] \in Seq(T) /\ ps[k] \in Seq(T)
      BY <2>6 DEF Listing
    <3>. HIDE DEF T
    <3>. QED  BY <3>1, GroupedInConcat
  <2>. QED  BY <1>3, <2>1, <2>5, <2>6, <2>8, <2>9
<1>6. n \in S
  <2>. HIDE DEF S
  <2>1. 0..n \subseteq S
    BY <1>1, <1>4, <1>5, ByCounting
  <2>. QED  BY <1>1, <2>1
<1>. QED  BY <1>1, <1>3, <1>6

-----------------------------------------------------------------------------
(***************************************************************************)
(* Partitions.  Joining what is of one kind keeps every block of one kind. *)
(***************************************************************************)
Partitions(S) ==
  {bs \in SUBSET (SUBSET S) :
     /\ UNION bs = S
     /\ {} \notin bs
     /\ \A b, c \in bs : b # c => b \cap c = {}}

\* kind is a function on S.
Uniform(S, kind) ==
  {bs \in Partitions(S) : \A b \in bs : \A x, y \in b : kind[x] = kind[y]}

\* What union makes of a partition: its blocks, those of the two members in one.
LEMMA MergeFacts ==
  ASSUME NEW S, NEW bs \in Partitions(S), NEW x \in S, NEW y \in S
  PROVE  /\ Merge(bs, x, y) \in Partitions(S)
         /\ \A c \in Merge(bs, x, y) :
              c \in bs \/ \E b, d \in bs : x \in b /\ y \in d /\ c = b \cup d
<1>1. /\ bs \in SUBSET (SUBSET S) /\ UNION bs = S /\ {} \notin bs
      /\ \A b, c \in bs : b # c => b \cap c = {}
  BY DEF Partitions
<1>2. PICK b \in bs : x \in b
  BY <1>1
<1>3. PICK d \in bs : y \in d
  BY <1>1
<1>4. {c \in bs : c \cap {x, y} # {}} = {b, d}
  BY <1>1, <1>2, <1>3
<1>5. UNION {b, d} = b \cup d
  OBVIOUS
<1>6. Merge(bs, x, y) = (bs \ {b, d}) \cup {b \cup d}
  BY <1>4, <1>5 DEF Merge
<1>. DEFINE m == (bs \ {b, d}) \cup {b \cup d}
<1>7. m \in SUBSET (SUBSET S) /\ {} \notin m
  BY <1>1, <1>2
<1>8. UNION m = S
  <2>1. \A e \in S : \E c \in m : e \in c
    <3>. SUFFICES ASSUME NEW e \in S PROVE \E c \in m : e \in c
      OBVIOUS
    <3>1. PICK c \in bs : e \in c
      BY <1>1
    <3>. QED  BY <3>1
  <2>. QED  BY <1>7, <2>1
<1>9. \A c, e \in m : c # e => c \cap e = {}
  <2>1. \A c \in bs \ {b, d} : c \cap (b \cup d) = {}
    BY <1>1
  <2>. QED  BY <1>1, <2>1
<1>10. m \in Partitions(S)
  BY <1>7, <1>8, <1>9 DEF Partitions
<1>. QED  BY <1>2, <1>3, <1>6, <1>10

\* union keeps the blocks of one kind when the two members are.
LEMMA MergeUniform ==
  ASSUME NEW S, NEW kind, NEW bs \in Uniform(S, kind),
         NEW x \in S, NEW y \in S, kind[x] = kind[y]
  PROVE  Merge(bs, x, y) \in Uniform(S, kind)
<1>1. bs \in Partitions(S) /\ \A b \in bs : \A v, w \in b : kind[v] = kind[w]
  BY DEF Uniform
<1>. DEFINE m == Merge(bs, x, y)
<1>2. m \in Partitions(S)
  BY <1>1, MergeFacts
<1>3. \A c \in m : c \in bs \/ \E b, d \in bs : x \in b /\ y \in d /\ c = b \cup d
  BY <1>1, MergeFacts
<1>. HIDE DEF m
<1>4. ASSUME NEW c \in m, NEW v \in c, NEW w \in c
      PROVE  kind[v] = kind[w]
  <2>1. CASE c \in bs
    BY <1>1, <1>4, <2>1
  <2>2. CASE c \notin bs
    <3>1. PICK b \in bs, d \in bs : x \in b /\ y \in d /\ c = b \cup d
      BY <1>3, <2>2
    <3>2. \A u \in c : kind[u] = kind[x]
      BY <1>1, <3>1
    <3>. QED  BY <1>4, <3>2
  <2>. QED  BY <2>1, <2>2
<1>. QED  BY <1>2, <1>4 DEF Uniform, m

\* At first every key is a block of its own.
LEMMA DiscretePartition ==
  ASSUME NEW S
  PROVE  /\ Discrete(S) \in Partitions(S)
         /\ \A kind : Discrete(S) \in Uniform(S, kind)
<1>1. Discrete(S) \in Partitions(S)
  BY DEF Discrete, Partitions
<1>. QED  BY <1>1 DEF Discrete, Uniform

\* Joining finitely many pairs stays where joining each of them does.
LEMMA JoinedStays ==
  ASSUME NEW V, NEW bs \in V, NEW pairs, IsFiniteSet(pairs),
         \A p \in pairs, v \in V : Merge(v, p[1], p[2]) \in V
  PROVE  Joined(bs, pairs) \in V
<1>. DEFINE pick == [d \in SUBSET pairs |-> CHOOSE p \in d : TRUE]
            step == [p \in pairs |-> [v \in V |-> Merge(v, p[1], p[2])]]
            Body(h) == h = [d \in SUBSET pairs |->
                              IF d = {} THEN bs
                              ELSE Merge(h[d \ {CHOOSE p \in d : TRUE}],
                                         (CHOOSE p \in d : TRUE)[1],
                                         (CHOOSE p \in d : TRUE)[2])]
            answer == CHOOSE h : Body(h)
<1>1. Joined(bs, pairs) = answer[pairs]
  BY DEF Joined, FoldSet, MapThenFoldSet
<1>2. \A d \in SUBSET pairs : d # {} => pick[d] \in d
  OBVIOUS
<1>3. \A d \in SUBSET pairs : pick[d] = (CHOOSE p \in d : TRUE)
  OBVIOUS
<1>4. \A p \in pairs, v \in V : step[p][v] = Merge(v, p[1], p[2])
  OBVIOUS
<1>5. step \in [pairs -> [V -> V]]
  OBVIOUS
<1>. HIDE DEF pick, step
<1>6. PICK h \in [SUBSET pairs -> V] : Folds(pairs, pick, bs, step, h)
  BY <1>2, <1>5, FoldExists
<1>7. Body(h)
  <2>1. ASSUME NEW d \in SUBSET pairs
        PROVE  h[d] = IF d = {} THEN bs
                      ELSE Merge(h[d \ {CHOOSE p \in d : TRUE}],
                                 (CHOOSE p \in d : TRUE)[1], (CHOOSE p \in d : TRUE)[2])
    <3>1. CASE d = {}
      BY <1>6, <3>1 DEF Folds
    <3>2. CASE d # {}
      <4>1. pick[d] \in pairs /\ h[d \ {pick[d]}] \in V
        BY <1>2, <1>6, <3>2
      <4>2. h[d] = step[pick[d]][h[d \ {pick[d]}]]
        BY <1>6, <3>2 DEF Folds
      <4>3. h[d] = Merge(h[d \ {pick[d]}], pick[d][1], pick[d][2])
        BY <1>4, <4>1, <4>2
      <4>. QED  BY <1>3, <3>2, <4>3
    <3>. QED  BY <3>1, <3>2
  <2>. QED  BY <1>6, <2>1
<1>8. Body(answer)
  BY <1>7
<1>9. /\ answer[{}] = bs
      /\ \A d \in SUBSET pairs :
           d # {} => answer[d] = Merge(answer[d \ {pick[d]}], pick[d][1], pick[d][2])
  BY <1>3, <1>8
<1>. HIDE DEF answer
<1>10. \A d \in SUBSET pairs : d # {} => /\ pick[d] \in d
                                         /\ answer[d \ {pick[d]}] \in V => answer[d] \in V
  <2>. SUFFICES ASSUME NEW d \in SUBSET pairs, d # {}, answer[d \ {pick[d]}] \in V
                PROVE  answer[d] \in V
    BY <1>2
  <2>1. pick[d] \in pairs
    BY <1>2
  <2>2. answer[d] = Merge(answer[d \ {pick[d]}], pick[d][1], pick[d][2])
    BY <1>9
  <2>. QED  BY <2>1, <2>2
<1>11. answer[{}] \in V
  BY <1>9
<1>12. answer[pairs] \in V
  BY <1>10, <1>11, FoldKeeps
<1>. QED  BY <1>1, <1>12

\* So do finitely many pairs of one kind.
LEMMA JoinedUniform ==
  ASSUME NEW S, IsFiniteSet(S), NEW kind, NEW bs \in Uniform(S, kind),
         NEW pairs \in SUBSET (S \X S), \A p \in pairs : kind[p[1]] = kind[p[2]]
  PROVE  Joined(bs, pairs) \in Uniform(S, kind)
<1>1. IsFiniteSet(pairs)
  <2>1. IsFiniteSet(S \X S)
    BY FS_Product
  <2>. QED  BY <2>1, FS_Subset
<1>. DEFINE V == Uniform(S, kind)
<1>2. \A p \in pairs, v \in V : Merge(v, p[1], p[2]) \in V
  <2>. SUFFICES ASSUME NEW p \in pairs, NEW v \in V PROVE Merge(v, p[1], p[2]) \in V
    OBVIOUS
  <2>1. p[1] \in S /\ p[2] \in S /\ kind[p[1]] = kind[p[2]]
    OBVIOUS
  <2>. QED  BY <2>1, MergeUniform
<1>. HIDE DEF V
<1>3. bs \in V
  BY DEF V
<1>4. Joined(bs, pairs) \in V
  BY <1>1, <1>2, <1>3, JoinedStays
<1>. QED  BY <1>4 DEF V

\* A fold from left to right stays where each of its steps does.
LEMMA LastFoldStays ==
  ASSUME NEW n, NEW V, NEW base, NEW step, StepOn(n, V, base, step),
         NEW fold, TakesLast(n, V, base, step, fold)
  PROVE  fold[1..n] \in V
<1>. DEFINE along == [k \in 0..n |-> fold[1..k]]
<1>1. Scans(n, V, base, step, along)
  BY FoldScans
<1>2. n \in 0..n
  BY DEF StepOn
<1>3. along[n] = fold[1..n]
  BY <1>2
<1>. HIDE DEF along
<1>. QED  BY <1>1, <1>2, <1>3 DEF Scans

-----------------------------------------------------------------------------
(***************************************************************************)
(* The guard on an answered cluster splits it and loses no entity.         *)
(***************************************************************************)
Distinct(s) == \A i, j \in DOMAIN s : s[i] = s[j] => i = j

\* A thinned sequence has the elements kept, and each once if s had.
LEMMA ThinSet ==
  ASSUME NEW T, NEW s \in Seq(T), NEW keep \in SUBSET DOMAIN s
  PROVE  /\ Thin(s, keep) \in Seq(T)
         /\ ToSet(Thin(s, keep)) = {s[k] : k \in keep}
         /\ (\A i, j \in keep : s[i] = s[j] => i = j) => Distinct(Thin(s, keep))
         /\ keep # {} => Thin(s, keep) # <<>>
<1>. DEFINE thin == Thin(s, keep)
<1>1. PICK place : Thinned(s, keep, thin, place)
  BY ThinFacts
<1>2. thin \in Seq(T)
  BY ThinFacts
<1>3. ToSet(thin) = {s[k] : k \in keep}
  BY ThinRange, ToSetIsRange
<1>. HIDE DEF thin
<1>4. ASSUME \A i, j \in keep : s[i] = s[j] => i = j
      PROVE  Distinct(thin)
  BY <1>1, <1>4 DEF Thinned, Distinct
<1>5. ASSUME keep # {}
      PROVE  thin # <<>>
  <2>1. ToSet(thin) # {}
    BY <1>3, <1>5
  <2>2. ToSet(<<>>) = {}
    BY DEF ToSet
  <2>. QED  BY <2>1, <2>2
<1>. QED  BY <1>2, <1>3, <1>4, <1>5 DEF thin

\* Every entity of a cluster goes with one given name or with none.
LEMMA AnchorFacts ==
  ASSUME NEW members, IsFiniteSet(members), NEW e \in members
  PROVE  \/ Anchor(members, e) = {}
         \/ \E g \in Givens(members) : Anchor(members, e) = {g}
<1>1. CASE Mention(e).given # None
  <2>1. Mention(e).given \in Givens(members)
    BY <1>1 DEF Givens
  <2>. QED  BY <1>1, <2>1 DEF Anchor
<1>2. CASE Mention(e).given = None /\ Anchor(members, e) # {}
  <2>1. Cardinality(Fitting(members, e)) = 1 /\ Anchor(members, e) = Fitting(members, e)
    BY <1>2 DEF Anchor
  <2>2. IsFiniteSet(Givens(members))
    <3>. DEFINE given == [f \in members |-> Mention(f).given]
                all == {Mention(f).given : f \in members}
    <3>1. given \in Surjection(members, all)
      BY DEF Surjection
    <3>2. IsFiniteSet(all)
      BY <3>1, FS_Surjection
    <3>. QED  BY <3>2, FS_Subset DEF Givens
  <2>3. Fitting(members, e) \in SUBSET Givens(members)
    BY DEF Fitting
  <2>4. \E g : Fitting(members, e) = {g}
    BY <2>1, <2>2, <2>3, FS_Subset, FS_Singleton
  <2>. QED  BY <2>1, <2>3, <2>4
<1>. QED  BY <1>1, <1>2

\* By given name a group falls apart into a listing of its entities.
LEMMA SplitFacts ==
  ASSUME NEW E, NEW block \in Seq(E), block # <<>>, Distinct(block)
  PROVE  Listing(SplitByGiven(block), E) /\ GroupedIn(SplitByGiven(block)) = ToSet(block)
<1>. DEFINE members == ToSet(block)
            keep(given) == {k \in DOMAIN block : Anchor(members, block[k]) = given}
            part(given) == Thin(block, keep(given))
            M == {part({g}) : g \in Givens(members)}
            rest == part({})
<1>1. members = {block[k] : k \in DOMAIN block} /\ DOMAIN block = 1..Len(block) /\ Len(block) \in Nat
  BY DEF ToSet
<1>2. IsFiniteSet(members)
  BY SequenceFinite
<1>3. CASE Cardinality(Givens(members)) <= 1
  <2>1. SplitByGiven(block) = <<block>>
    BY <1>3 DEF SplitByGiven
  <2>. QED  BY <2>1, ListingOfOne
<1>4. CASE ~(Cardinality(Givens(members)) <= 1)
  <2>1. SplitByGiven(block) = SetToSeq(M) \o Singles(rest)
    BY <1>4 DEF SplitByGiven, Only
  <2>2. ASSUME NEW given
        PROVE  /\ part(given) \in Seq(E)
               /\ ToSet(part(given)) = {block[k] : k \in keep(given)}
               /\ Distinct(part(given))
               /\ keep(given) # {} => part(given) # <<>>
    <3>1. keep(given) \in SUBSET DOMAIN block
      OBVIOUS
    <3>2. \A i, j \in keep(given) : block[i] = block[j] => i = j
      BY DEF Distinct
    <3>. HIDE DEF keep
    <3>. QED  BY <3>1, <3>2, ThinSet
  <2>3. ASSUME NEW given
        PROVE  ToSet(part(given)) = {e \in members : Anchor(members, e) = given}
    <3>1. {block[k] : k \in keep(given)} = {e \in members : Anchor(members, e) = given}
      BY <1>1
    <3>. QED  BY <2>2, <3>1
  <2>. HIDE DEF members
  <2>4. ASSUME NEW g \in Givens(members)
        PROVE  part({g}) # <<>>
    <3>1. PICK e \in members : Mention(e).given = g /\ g # None
      BY DEF Givens
    <3>2. Anchor(members, e) = {g}
      BY <3>1 DEF Anchor
    <3>3. keep({g}) # {}
      BY <1>1, <3>1, <3>2
    <3>. QED  BY <2>2, <3>3
  <2>. HIDE DEF part, keep
  <2>5. /\ M \in SUBSET Seq(E) /\ <<>> \notin M
        /\ \A g, h \in M : g # h => ToSet(g) \cap ToSet(h) = {}
    <3>1. M \in SUBSET Seq(E) /\ <<>> \notin M
      BY <2>2, <2>4
    <3>2. \A g, h \in Givens(members) : g # h => ToSet(part({g})) \cap ToSet(part({h})) = {}
      <4>1. ASSUME NEW g, NEW h, NEW e \in ToSet(part({g})), e \in ToSet(part({h}))
            PROVE  g = h
        <5>1. Anchor(members, e) = {g} /\ Anchor(members, e) = {h}
          BY <2>3, <4>1
        <5>. QED  BY <5>1
      <4>. QED  BY <4>1
    <3>. QED  BY <3>1, <3>2
  <2>6. IsFiniteSet(M)
    <3>. DEFINE given == [f \in members |-> Mention(f).given]
                all == {Mention(f).given : f \in members}
                name == [g \in Givens(members) |-> part({g})]
    <3>1. given \in Surjection(members, all)
      BY DEF Surjection
    <3>2. IsFiniteSet(all)
      BY <1>2, <3>1, FS_Surjection
    <3>3. IsFiniteSet(Givens(members))
      BY <3>2, FS_Subset DEF Givens
    <3>4. name \in Surjection(Givens(members), M)
      BY DEF Surjection
    <3>. QED  BY <3>3, <3>4, FS_Surjection
  <2>. DEFINE gs == SetToSeq(M)
              ss == Singles(rest)
  <2>. HIDE DEF M
  <2>7. Listing(gs, E) /\ GroupedIn(gs) = UNION {ToSet(g) : g \in M}
    BY <2>5, <2>6, ListingOfSet
  <2>8. Listing(ss, E) /\ GroupedIn(ss) = ToSet(rest)
    BY <2>2, ListingOfSingles DEF Distinct
  <2>. HIDE DEF gs, ss
  <2>9. GroupedIn(gs) = {e \in members : \E g \in Givens(members) : Anchor(members, e) = {g}}
    <3>1. GroupedIn(gs) = UNION {ToSet(part({g})) : g \in Givens(members)}
      BY <2>7 DEF M
    <3>2. ASSUME NEW g \in Givens(members)
          PROVE  \A e : e \in ToSet(part({g})) <=> e \in members /\ Anchor(members, e) = {g}
      BY <2>3
    <3>3. \A e : e \in GroupedIn(gs) <=> \E g \in Givens(members) : e \in ToSet(part({g}))
      BY <3>1
    <3>4. ASSUME NEW e
          PROVE  e \in GroupedIn(gs) <=>
                   e \in members /\ \E g \in Givens(members) : Anchor(members, e) = {g}
      BY <3>2, <3>3
    <3>. QED  BY <3>4
  <2>10. GroupedIn(ss) = {e \in members : Anchor(members, e) = {}}
    BY <2>3, <2>8
  <2>11. GroupedIn(gs) \cap GroupedIn(ss) = {}
    BY <2>9, <2>10
  <2>12. GroupedIn(gs) \cup GroupedIn(ss) = members
    <3>1. \A e \in members : \/ Anchor(members, e) = {}
                             \/ \E g \in Givens(members) : Anchor(members, e) = {g}
      BY <1>2, AnchorFacts
    <3>. QED  BY <2>9, <2>10, <3>1
  <2>13. Listing(gs \o ss, E)
    BY <2>7, <2>8, <2>11, ListingOfConcat
  <2>14. GroupedIn(gs \o ss) = GroupedIn(gs) \cup GroupedIn(ss)
    <3>. DEFINE T == Seq(E)
    <3>1. gs \in Seq(T) /\ ss \in Seq(T)
      BY <2>7, <2>8 DEF Listing
    <3>. HIDE DEF T
    <3>. QED  BY <3>1, GroupedInConcat
  <2>. QED  BY <2>1, <2>12, <2>13, <2>14 DEF gs, ss, members
<1>. QED  BY <1>3, <1>4

\* A function takes finitely many values on a finite set.
LEMMA ImageFinite ==
  ASSUME NEW S, IsFiniteSet(S), NEW f, DOMAIN f = S
  PROVE  IsFiniteSet({f[x] : x \in S})
<1>. DEFINE g == [x \in S |-> f[x]]
<1>1. g \in Surjection(S, {f[x] : x \in S})
  BY DEF Surjection
<1>. QED  BY <1>1, FS_Surjection

\* The first places at which a cluster names an entity.
Firsts(c) == {k \in DOMAIN c : \A j \in 1..(k - 1) : c[j] # c[k]}

\* They hold every entity of the cluster, once.
LEMMA FirstsFacts ==
  ASSUME NEW E, NEW c \in Seq(E)
  PROVE  /\ {c[k] : k \in Firsts(c)} = ToSet(c)
         /\ \A i, j \in Firsts(c) : c[i] = c[j] => i = j
<1>1. DOMAIN c = 1..Len(c) /\ Len(c) \in Nat /\ ToSet(c) = {c[k] : k \in DOMAIN c}
  BY DEF ToSet
<1>2. ASSUME NEW i \in Firsts(c), NEW j \in Firsts(c), i < j
      PROVE  c[i] # c[j]
  <2>1. i \in 1..(j - 1)
    BY <1>1, <1>2 DEF Firsts
  <2>. QED  BY <2>1 DEF Firsts
<1>3. \A i, j \in Firsts(c) : c[i] = c[j] => i = j
  <2>1. \A i, j \in Firsts(c) : i < j \/ j < i \/ i = j
    BY <1>1 DEF Firsts
  <2>. QED  BY <1>2, <2>1
<1>4. ASSUME NEW k \in DOMAIN c
      PROVE  \E f \in Firsts(c) : c[f] = c[k]
  <2>. DEFINE places == {j \in DOMAIN c : c[j] = c[k]}
  <2>1. places \in SUBSET Nat /\ places # {}
    BY <1>1
  <2>2. PICK f \in places : \A j \in places : f <= j
    BY <2>1, LeastNatural
  <2>3. \A j \in 1..(f - 1) : j \in DOMAIN c /\ ~(f <= j)
    BY <1>1, <2>2
  <2>4. f \in Firsts(c)
    BY <2>2, <2>3 DEF Firsts
  <2>. QED  BY <2>2, <2>4
<1>5. Firsts(c) \subseteq DOMAIN c
  BY DEF Firsts
<1>. QED  BY <1>1, <1>3, <1>4, <1>5

\* A cluster without its repetitions, and the part of it with e's surname.
Once(c) == Thin(c, Firsts(c))

Namesakes(c, e) == Only(Once(c), LAMBDA f : BlockKey(f) = BlockKey(e))

\* The parts by surname share an entity only if they are one.
LEMMA NamesakesFacts ==
  ASSUME NEW E, NEW c \in Seq(E)
  PROVE  /\ Once(c) \in Seq(E) /\ ToSet(Once(c)) = ToSet(c)
         /\ \A e \in ToSet(c) :
              /\ Namesakes(c, e) \in Seq(E) /\ Namesakes(c, e) # <<>> /\ Distinct(Namesakes(c, e))
              /\ \A f : f \in ToSet(Namesakes(c, e)) <=>
                          f \in ToSet(c) /\ BlockKey(f) = BlockKey(e)
<1>. DEFINE once == Once(c)
<1>1. once \in Seq(E) /\ ToSet(once) = ToSet(c) /\ Distinct(once)
  <2>1. Firsts(c) \in SUBSET DOMAIN c
    BY DEF Firsts
  <2>2. /\ {c[k] : k \in Firsts(c)} = ToSet(c)
        /\ \A i, j \in Firsts(c) : c[i] = c[j] => i = j
    BY FirstsFacts
  <2>3. /\ Thin(c, Firsts(c)) \in Seq(E)
        /\ ToSet(Thin(c, Firsts(c))) = {c[k] : k \in Firsts(c)}
        /\ Distinct(Thin(c, Firsts(c)))
    BY <2>1, <2>2, ThinSet
  <2>. QED  BY <2>2, <2>3 DEF Once
<1>. HIDE DEF once
<1>2. ASSUME NEW e \in ToSet(c)
      PROVE  /\ Namesakes(c, e) \in Seq(E) /\ Namesakes(c, e) # <<>> /\ Distinct(Namesakes(c, e))
             /\ \A f : f \in ToSet(Namesakes(c, e)) <=>
                         f \in ToSet(c) /\ BlockKey(f) = BlockKey(e)
  <2>. DEFINE keep == {k \in DOMAIN once : BlockKey(once[k]) = BlockKey(e)}
              part == Thin(once, keep)
  <2>1. Namesakes(c, e) = part
    BY DEF Namesakes, Only, once
  <2>2. \A f : f \in ToSet(c) <=> \E k \in DOMAIN once : f = once[k]
    BY <1>1 DEF ToSet
  <2>3. keep # {}
    BY <2>2
  <2>4. \A i, j \in keep : once[i] = once[j] => i = j
    BY <1>1 DEF Distinct
  <2>5. \A f : f \in {once[k] : k \in keep} <=> f \in ToSet(c) /\ BlockKey(f) = BlockKey(e)
    BY <2>2
  <2>6. keep \in SUBSET DOMAIN once
    OBVIOUS
  <2>. HIDE DEF keep
  <2>7. /\ part \in Seq(E) /\ Distinct(part) /\ part # <<>>
        /\ ToSet(part) = {once[k] : k \in keep}
    BY <1>1, <2>3, <2>4, <2>6, ThinSet
  <2>. HIDE DEF part
  <2>. QED  BY <2>1, <2>5, <2>7
<1>. QED  BY <1>1, <1>2 DEF once

\* What the guard makes of a cluster is a listing of its entities.
LEMMA GuardedFacts ==
  ASSUME NEW E, NEW c \in Seq(E), c # <<>>
  PROVE  Listing(Guarded(c), E) /\ GroupedIn(Guarded(c)) = ToSet(c)
<1>1. CASE Len(c) < 2 \/ TypeFamily(c[1]) # "person"
  <2>1. Guarded(c) = <<c>>
    BY <1>1 DEF Guarded
  <2>. QED  BY <2>1, ListingOfOne
<1>2. CASE ~(Len(c) < 2 \/ TypeFamily(c[1]) # "person")
  <2>. DEFINE split == [e \in ToSet(c) |-> SplitByGiven(Namesakes(c, e))]
              P == {split[e] : e \in ToSet(c)}
              ps == SetToSeq(P)
  <2>1. Guarded(c) = FlattenSeq(ps)
    <3>1. Guarded(c) = FlattenSeq(SetToSeq({SplitByGiven(b) : b \in {Namesakes(c, e) : e \in ToSet(Once(c))}}))
      BY <1>2 DEF Guarded, Once, Firsts, Namesakes
    <3>2. {SplitByGiven(b) : b \in {Namesakes(c, e) : e \in ToSet(Once(c))}} = P
      BY NamesakesFacts
    <3>. QED  BY <3>1, <3>2
  <2>2. ASSUME NEW e \in ToSet(c)
        PROVE  /\ Listing(split[e], E)
               /\ \A f : f \in GroupedIn(split[e]) <=> f \in ToSet(c) /\ BlockKey(f) = BlockKey(e)
    <3>. DEFINE part == Namesakes(c, e)
    <3>1. /\ part \in Seq(E) /\ part # <<>> /\ Distinct(part)
          /\ \A f : f \in ToSet(part) <=> f \in ToSet(c) /\ BlockKey(f) = BlockKey(e)
      BY NamesakesFacts
    <3>2. split[e] = SplitByGiven(part)
      OBVIOUS
    <3>. HIDE DEF part, split
    <3>3. Listing(SplitByGiven(part), E) /\ GroupedIn(SplitByGiven(part)) = ToSet(part)
      BY <3>1, SplitFacts
    <3>. QED  BY <3>1, <3>2, <3>3
  <2>3. \A e, f \in ToSet(c) : BlockKey(e) = BlockKey(f) => split[e] = split[f]
    BY DEF Namesakes
  <2>4. DOMAIN split = ToSet(c)
    OBVIOUS
  <2>5. IsFiniteSet(ToSet(c))
    BY SequenceFinite
  <2>. HIDE DEF split
  <2>6. IsFiniteSet(P)
    BY <2>4, <2>5, ImageFinite
  <2>7. /\ ps \in Seq(P) /\ Range(ps) = P
        /\ \A k, l \in DOMAIN ps : ps[k] = ps[l] => k = l
    BY <2>6, SetToSeqFacts
  <2>. HIDE DEF ps, P
  <2>8. DOMAIN ps = 1..Len(ps) /\ Len(ps) \in Nat /\ \A k \in DOMAIN ps : ps[k] \in P
    BY <2>7
  <2>9. \A k \in DOMAIN ps : \E e \in ToSet(c) : ps[k] = split[e]
    BY <2>8 DEF P
  <2>10. \A k \in DOMAIN ps : Listing(ps[k], E)
    BY <2>2, <2>9
  <2>11. ASSUME NEW k \in DOMAIN ps, NEW l \in DOMAIN ps, k # l
         PROVE  GroupedIn(ps[k]) \cap GroupedIn(ps[l]) = {}
    <3>1. PICK e \in ToSet(c) : ps[k] = split[e]
      BY <2>9
    <3>2. PICK f \in ToSet(c) : ps[l] = split[f]
      BY <2>9
    <3>3. BlockKey(e) # BlockKey(f)
      BY <2>3, <2>7, <2>11, <3>1, <3>2
    <3>. QED  BY <2>2, <3>1, <3>2, <3>3
  <2>12. ps \in Seq(Seq(Seq(E)))
    <3>. DEFINE T == Seq(Seq(E))
    <3>1. \A k \in 1..Len(ps) : ps[k] \in T
      BY <2>8, <2>10 DEF Listing
    <3>2. ps = [k \in 1..Len(ps) |-> ps[k]]
      BY <2>7
    <3>. HIDE DEF T
    <3>3. ps \in Seq(T)
      BY <2>8, <3>1, <3>2
    <3>. QED  BY <3>3 DEF T
  <2>13. Listing(FlattenSeq(ps), E)
    BY <2>10, <2>11, <2>12, ListingOfFlatten
  <2>14. GroupedIn(FlattenSeq(ps)) = UNION {GroupedIn(ps[k]) : k \in DOMAIN ps}
    BY <2>10, <2>11, <2>12, ListingOfFlatten
  <2>15. GroupedIn(FlattenSeq(ps)) = ToSet(c)
    <3>1. ASSUME NEW f \in GroupedIn(FlattenSeq(ps))
          PROVE  f \in ToSet(c)
      <4>1. PICK k \in DOMAIN ps : f \in GroupedIn(ps[k])
        BY <2>14, <3>1
      <4>. QED  BY <2>2, <2>9, <4>1
    <3>2. ASSUME NEW f \in ToSet(c)
          PROVE  f \in GroupedIn(FlattenSeq(ps))
      <4>1. f \in GroupedIn(split[f]) /\ split[f] \in P
        BY <2>2, <3>2 DEF P
      <4>2. PICK k \in DOMAIN ps : ps[k] = split[f]
        BY <2>7, <4>1 DEF Range
      <4>. QED  BY <2>14, <4>1, <4>2
    <3>. QED  BY <3>1, <3>2
  <2>. QED  BY <2>1, <2>13, <2>15
<1>. QED  BY <1>1, <1>2

-----------------------------------------------------------------------------
(***************************************************************************)
(* The inductive invariant.  While the families are gone through, a family *)
(* is grouped as a whole or not at all, every group is of one family and   *)
(* no entity is in two.  While groups are joined, the blocks partition all *)
(* of them, and a block is of one kind: of one family, places and mentions *)
(* of unknown kind counting as one.                                        *)
(***************************************************************************)
FamilyOf == [e \in Scanned |-> Family(e)]
Overruled == {e \in Scanned : Ambiguous(e)}

OneFamily(gs, family) == \A g \in Range(gs) : \A e, f \in ToSet(g) : family[e] = family[f]

WholeFamilies(gs, E, family) ==
  \A e, f \in E : e \in GroupedIn(gs) /\ family[e] = family[f] => f \in GroupedIn(gs)

KindOf ==
  [k \in Keys |-> LET family == FamilyOf[groups[k][1]]
                  IN  IF family \in {"place", "unknown"} THEN "place" ELSE family]

\* What FamiliesKeptApart says of the members of one group.
KeptApart(members, family, overruled, how) ==
  LET families == {family[e] : e \in members}
  IN  Cardinality(families) > 1 =>
        /\ \E e \in members : e \in overruled
        /\ how = "llm" => families = {"place", "unknown"}

Joining == {"people", "places", "organizations", "joined"}

TypeInv ==
  /\ scan \in Scan
  /\ strategy \in {"fuzzy", "llm"}
  /\ phase \in {"clustering", "failed", "done"} \cup Joining

GroupsInv ==
  phase \in {"clustering"} \cup Joining =>
    Listing(groups, Scanned) /\ OneFamily(groups, FamilyOf)
      /\ WholeFamilies(groups, Scanned, FamilyOf)

BlocksInv ==
  phase \in Joining => GroupedIn(groups) = Scanned /\ blocks \in Uniform(Keys, KindOf)

DoneInv ==
  phase = "done" =>
    /\ Listing(groups, Scanned)
    /\ GroupedIn(groups) = Scanned
    /\ \A g \in Range(groups) : KeptApart(ToSet(g), FamilyOf, Overruled, strategy)

IInv == TypeInv /\ GroupsInv /\ BlocksInv /\ DoneInv

\* What a scan found.
LEMMA ScanFacts ==
  ASSUME scan \in Scan
  PROVE  /\ scan.order \in Seq(Scanned) /\ Distinct(scan.order)
         /\ IsFiniteSet(Scanned)
         /\ scan.similar \in SUBSET (Scanned \X Scanned)
<1>1. /\ scan.order \in Seq(Scanned) /\ Distinct(scan.order)
      /\ scan.similar \in SUBSET (Scanned \X Scanned)
  BY ScanAssumption DEF Scanned, Distinct, IsInjective
<1>2. IsFiniteSet(ToSet(scan.order))
  BY <1>1, SequenceFinite
<1>. QED  BY <1>1, <1>2 DEF Scanned

\* While the scan stays, so do the families.
LEMMA ScanStays ==
  ASSUME scan' = scan
  PROVE  Scanned' = Scanned /\ FamilyOf' = FamilyOf /\ Overruled' = Overruled
BY DEF Scanned, FamilyOf, Overruled, Ambiguous, Family, Generic, TypeFamily, Mention

\* A batch is a family of which nothing is grouped yet.
IsBatch(batch, family) ==
  /\ batch \in Seq(Scanned) /\ Distinct(batch)
  /\ \A e : e \in ToSet(batch) <=> e \in Scanned /\ FamilyOf[e] = family
  /\ ToSet(batch) \cap GroupedIn(groups) = {}

\* What remains is what was scanned and is in no group.
LEMMA RemainingFacts ==
  ASSUME scan \in Scan
  PROVE  /\ Remaining \in Seq(Scanned)
         /\ \A e : e \in ToSet(Remaining) <=> e \in Scanned /\ e \notin GroupedIn(groups)
         /\ Remaining = <<>> => Scanned \subseteq GroupedIn(groups)
<1>. DEFINE order == scan.order
            keep == {k \in DOMAIN order : order[k] \notin GroupedIn(groups)}
            left == Remaining
<1>1. order \in Seq(Scanned)
  BY ScanFacts
<1>2. Scanned = {order[k] : k \in DOMAIN order}
  BY DEF Scanned, ToSet
<1>3. left = Thin(order, keep)
  BY DEF Remaining, Only
<1>4. keep \in SUBSET DOMAIN order
  OBVIOUS
<1>5. \A e : e \in {order[k] : k \in keep} <=> e \in Scanned /\ e \notin GroupedIn(groups)
  BY <1>2
<1>. HIDE DEF keep, order, left
<1>6. /\ left \in Seq(Scanned) /\ ToSet(left) = {order[k] : k \in keep}
      /\ keep # {} => left # <<>>
  BY <1>1, <1>3, <1>4, ThinSet
<1>7. left = <<>> => Scanned \subseteq GroupedIn(groups)
  <2>1. ToSet(<<>>) = {}
    BY DEF ToSet
  <2>. QED  BY <1>5, <1>6, <2>1
<1>. QED  BY <1>5, <1>6, <1>7 DEF left

\* The batch the clustering turns to is such a family.
LEMMA BatchFacts ==
  ASSUME IInv, Clustering
  PROVE  \E family : IsBatch(Batch, family)
<1>. DEFINE order == scan.order
            family == Family(Remaining[1])
            keep == {k \in DOMAIN order : Family(order[k]) = family}
            batch == Batch
<1>1. scan \in Scan /\ phase = "clustering" /\ Remaining # <<>>
  BY DEF IInv, TypeInv, Clustering
<1>2. order \in Seq(Scanned) /\ Distinct(order)
  BY <1>1, ScanFacts
<1>3. Scanned = {order[k] : k \in DOMAIN order}
  BY DEF Scanned, ToSet
<1>4. Remaining[1] \in Scanned /\ Remaining[1] \notin GroupedIn(groups)
  <2>1. Remaining \in Seq(Scanned)
    BY <1>1, RemainingFacts
  <2>2. 1 \in DOMAIN Remaining
    BY <1>1, <2>1
  <2>3. Remaining[1] \in ToSet(Remaining)
    BY <2>2 DEF ToSet
  <2>. QED  BY <1>1, <2>3, RemainingFacts
<1>5. FamilyOf[Remaining[1]] = family
  BY <1>4 DEF FamilyOf
<1>6. batch = Thin(order, keep) /\ keep \in SUBSET DOMAIN order
  BY DEF Batch, Only
<1>7. \A e : e \in {order[k] : k \in keep} <=> e \in Scanned /\ FamilyOf[e] = family
  BY <1>3 DEF FamilyOf
<1>8. \A i, j \in keep : order[i] = order[j] => i = j
  BY <1>2 DEF Distinct
<1>. HIDE DEF keep, order, batch, family
<1>9. /\ batch \in Seq(Scanned) /\ ToSet(batch) = {order[k] : k \in keep} /\ Distinct(batch)
  BY <1>2, <1>6, <1>8, ThinSet
<1>10. ToSet(batch) \cap GroupedIn(groups) = {}
  <2>1. WholeFamilies(groups, Scanned, FamilyOf)
    BY <1>1 DEF IInv, GroupsInv
  <2>. QED  BY <1>4, <1>5, <1>7, <1>9, <2>1 DEF WholeFamilies
<1>11. IsBatch(batch, family)
  BY <1>7, <1>9, <1>10 DEF IsBatch
<1>. QED  BY <1>11 DEF batch

\* Groups that grew by a batch.
Grown(gs, batch) ==
  /\ Listing(gs, Scanned)
  /\ GroupedIn(groups) \subseteq GroupedIn(gs)
  /\ GroupedIn(gs) \subseteq GroupedIn(groups) \cup ToSet(batch)
  /\ \A g \in Range(gs) : g \in Range(groups) \/ ToSet(g) \subseteq ToSet(batch)

\* Groups that grew by a whole family keep what the invariant says of them.
LEMMA GrownKeeps ==
  ASSUME OneFamily(groups, FamilyOf), WholeFamilies(groups, Scanned, FamilyOf),
         NEW batch, NEW family, IsBatch(batch, family),
         NEW gs, Grown(gs, batch), ToSet(batch) \subseteq GroupedIn(gs)
  PROVE  /\ Listing(gs, Scanned) /\ OneFamily(gs, FamilyOf)
         /\ WholeFamilies(gs, Scanned, FamilyOf)
<1>1. OneFamily(gs, FamilyOf)
  BY DEF OneFamily, Grown, IsBatch
<1>2. GroupedIn(gs) = GroupedIn(groups) \cup ToSet(batch)
  BY DEF Grown
<1>3. WholeFamilies(gs, Scanned, FamilyOf)
  BY <1>2 DEF WholeFamilies, IsBatch
<1>. QED  BY <1>1, <1>3 DEF Grown

\* More groups from what is left of the batch.
LEMMA GrowByListing ==
  ASSUME NEW batch, NEW gs, Grown(gs, batch), NEW more, Listing(more, Scanned),
         GroupedIn(more) \subseteq ToSet(batch), GroupedIn(gs) \cap GroupedIn(more) = {}
  PROVE  Grown(gs \o more, batch) /\ GroupedIn(gs \o more) = GroupedIn(gs) \cup GroupedIn(more)
<1>. DEFINE T == Seq(Scanned)
<1>1. gs \in Seq(T) /\ more \in Seq(T)
  BY DEF Grown, Listing
<1>2. Listing(gs, Scanned)
  BY DEF Grown
<1>3. Listing(gs \o more, Scanned)
  BY <1>2, ListingOfConcat
<1>. HIDE DEF T
<1>4. Range(gs \o more) = Range(gs) \cup Range(more)
  BY <1>1, RangeOfConcat
<1>5. GroupedIn(gs \o more) = GroupedIn(gs) \cup GroupedIn(more)
  BY <1>1, GroupedInConcat
<1>6. \A g \in Range(more) : ToSet(g) \subseteq ToSet(batch)
  BY GroupedInRange
<1>. QED  BY <1>3, <1>4, <1>5, <1>6 DEF Grown

\* What no group holds of a batch.
Unclaimed(batch, gs) == Only(batch, LAMBDA e : e \notin GroupedIn(gs))

\* What the answer left of the batch becomes groups of one.
LEMMA GrowBySingles ==
  ASSUME NEW batch \in Seq(Scanned), Distinct(batch), NEW gs, Grown(gs, batch)
  PROVE  /\ Grown(gs \o Singles(Unclaimed(batch, gs)), batch)
         /\ ToSet(batch) \subseteq GroupedIn(gs \o Singles(Unclaimed(batch, gs)))
<1>. DEFINE keep == {k \in DOMAIN batch : batch[k] \notin GroupedIn(gs)}
            rest == Thin(batch, keep)
            more == Singles(rest)
<1>1. keep \in SUBSET DOMAIN batch /\ \A i, j \in keep : batch[i] = batch[j] => i = j
  BY DEF Distinct
<1>2. ToSet(batch) = {batch[k] : k \in DOMAIN batch}
  BY DEF ToSet
<1>3. \A e : e \in {batch[k] : k \in keep} <=> e \in ToSet(batch) /\ e \notin GroupedIn(gs)
  BY <1>2
<1>. HIDE DEF keep
<1>4. rest \in Seq(Scanned) /\ ToSet(rest) = {batch[k] : k \in keep} /\ Distinct(rest)
  BY <1>1, ThinSet
<1>. HIDE DEF rest
<1>5. Listing(more, Scanned) /\ GroupedIn(more) = ToSet(rest)
  BY <1>4, ListingOfSingles DEF Distinct
<1>. HIDE DEF more
<1>6. GroupedIn(more) \subseteq ToSet(batch) /\ GroupedIn(gs) \cap GroupedIn(more) = {}
  BY <1>3, <1>4, <1>5
<1>7. Grown(gs \o more, batch)
  BY <1>5, <1>6, GrowByListing
<1>8. GroupedIn(gs \o more) = GroupedIn(gs) \cup GroupedIn(more)
  BY <1>5, <1>6, GrowByListing
<1>9. ToSet(batch) \subseteq GroupedIn(gs \o more)
  BY <1>3, <1>4, <1>5, <1>8
<1>. QED  BY <1>7, <1>9 DEF more, rest, keep, Unclaimed, Only

\* A family too small to ask about.
LEMMA LeaveGrows ==
  ASSUME NEW batch, NEW family, IsBatch(batch, family), Listing(groups, Scanned)
  PROVE  Grown(groups \o Singles(batch), batch) /\ ToSet(batch) \subseteq GroupedIn(groups \o Singles(batch))
<1>. DEFINE more == Singles(batch)
<1>1. Listing(more, Scanned) /\ GroupedIn(more) = ToSet(batch)
  BY ListingOfSingles DEF IsBatch, Distinct
<1>2. Grown(groups, batch)
  BY DEF Grown
<1>. HIDE DEF more
<1>3. GroupedIn(groups) \cap GroupedIn(more) = {}
  BY <1>1 DEF IsBatch
<1>4. Grown(groups \o more, batch)
  BY <1>1, <1>2, <1>3, GrowByListing
<1>5. GroupedIn(groups \o more) = GroupedIn(groups) \cup GroupedIn(more)
  BY <1>1, <1>2, <1>3, GrowByListing
<1>. QED  BY <1>1, <1>4, <1>5 DEF more

\* A cluster of the answer adds what of the batch no cluster before it claimed.
LEMMA TakeGrows ==
  ASSUME NEW gs, Grown(gs, Batch), NEW cluster \in Seq(Scanned)
  PROVE  Grown(Take(gs, cluster), Batch)
<1>. DEFINE open == ToSet(Batch) \ GroupedIn(gs)
            keep == {k \in DOMAIN cluster : cluster[k] \in open}
            valid == Thin(cluster, keep)
            more == Guarded(valid)
<1>1. Take(gs, cluster) = IF valid = <<>> THEN gs ELSE gs \o more
  BY DEF Take, Only
<1>2. valid \in Seq(Scanned) /\ ToSet(valid) = {cluster[k] : k \in keep}
  BY ThinSet
<1>3. {cluster[k] : k \in keep} \subseteq open
  OBVIOUS
<1>. HIDE DEF keep, valid
<1>4. CASE valid = <<>>
  BY <1>1, <1>4
<1>5. CASE valid # <<>>
  <2>1. Listing(more, Scanned) /\ GroupedIn(more) = ToSet(valid)
    BY <1>2, <1>5, GuardedFacts
  <2>. HIDE DEF more
  <2>2. GroupedIn(more) \subseteq ToSet(Batch) /\ GroupedIn(gs) \cap GroupedIn(more) = {}
    BY <1>2, <1>3, <2>1
  <2>3. Grown(gs \o more, Batch)
    BY <2>1, <2>2, GrowByListing
  <2>. QED  BY <1>1, <1>5, <2>3
<1>. QED  BY <1>4, <1>5

\* So does an answer, cluster after cluster.
LEMMA AnswersGrow ==
  ASSUME Grown(groups, Batch), NEW answer \in Seq(Seq(Scanned))
  PROVE  Grown(FoldLeft(Take, groups, answer), Batch)
<1>. DEFINE V == {gs \in Seq(Seq(Scanned)) : Grown(gs, Batch)}
            n == Len(answer)
            step == [k \in 1..n |-> [v \in V |-> Take(v, answer[k])]]
            Body(h) == h = [d \in SUBSET DOMAIN answer |->
                              IF d = {} THEN groups ELSE Take(h[d \ {Max(d)}], answer[Max(d)])]
            fold == CHOOSE h : Body(h)
<1>1. n \in Nat /\ DOMAIN answer = 1..n /\ \A k \in 1..n : answer[k] \in Seq(Scanned)
  OBVIOUS
<1>2. FoldLeft(Take, groups, answer) = fold[DOMAIN answer]
  BY DEF FoldLeft, MapThenFoldSet
<1>3. \A gs : gs \in V <=> Grown(gs, Batch)
  BY DEF Grown, Listing
<1>. HIDE DEF n, V
<1>4. \A k \in 1..n, v \in V : step[k][v] = Take(v, answer[k])
  OBVIOUS
<1>5. StepOn(n, V, groups, step)
  <2>1. \A k \in 1..n, v \in V : Take(v, answer[k]) \in V
    BY <1>1, <1>3, TakeGrows
  <2>2. step \in [1..n -> [V -> V]]
    BY <2>1
  <2>. HIDE DEF step
  <2>. QED  BY <1>1, <1>3, <2>2 DEF StepOn
<1>. HIDE DEF step
<1>6. Body(fold)
  <2>1. PICK h : LastFold(n, V, groups, step, h)
    BY <1>5, LastFoldExists
  <2>2. \A d \in SUBSET (1..n) :
          h[d] = IF d = {} THEN groups ELSE Take(h[d \ {Max(d)}], answer[Max(d)])
    BY <1>4, <2>1 DEF LastFold
  <2>3. Body(h)
    BY <1>1, <2>1, <2>2 DEF LastFold
  <2>. QED  BY <2>3
<1>7. /\ fold[{}] = groups
      /\ \A d \in SUBSET (1..n) : d # {} => fold[d] = Take(fold[d \ {Max(d)}], answer[Max(d)])
  BY <1>1, <1>6
<1>. HIDE DEF fold
<1>8. TakesLast(n, V, groups, step, fold)
  <2>1. \A d \in SUBSET (1..n) : d # {} => Max(d) \in 1..n
    BY <1>1, MaxIsLast
  <2>. QED  BY <1>4, <1>7, <2>1 DEF TakesLast
<1>9. fold[1..n] \in V
  BY <1>5, <1>8, LastFoldStays
<1>. QED  BY <1>1, <1>2, <1>3, <1>9

\* An answer is a sequence of sequences of entities, whatever the bounds.
LEMMA AnswerType ==
  ASSUME NEW answer \in Answer
  PROVE  answer \in Seq(Seq(Scanned))
<1>1. \A S : \A c \in BoundedSeq(S, MaxCluster) : c \in Seq(S)
  BY BoundAssumption DEF BoundedSeq, SeqOf
<1>2. \A S : \A c \in BoundedSeq(S, MaxClusters) : c \in Seq(S)
  BY BoundAssumption DEF BoundedSeq, SeqOf
<1>. DEFINE Some == {c \in BoundedSeq(Scanned, MaxCluster) : Len(c) <= 2 \/ IsInjective(c)}
<1>3. answer \in Seq(Some)
  BY <1>2 DEF Answer
<1>4. Some \subseteq Seq(Scanned)
  BY <1>1
<1>. DEFINE T == Seq(Scanned)
<1>. HIDE DEF Some, T
<1>5. answer \in Seq(T)
  BY <1>3, <1>4 DEF T
<1>. QED  BY <1>5 DEF T

\* The groups of a family asked about.
LEMMA AskGrows ==
  ASSUME NEW family, IsBatch(Batch, family), Listing(groups, Scanned), NEW answer \in Answer
  PROVE  LET taken == FoldLeft(Take, groups, answer)
             gs == taken \o Singles(Unclaimed(Batch, taken))
         IN  Grown(gs, Batch) /\ ToSet(Batch) \subseteq GroupedIn(gs)
<1>. DEFINE taken == FoldLeft(Take, groups, answer)
<1>1. Grown(groups, Batch)
  BY DEF Grown
<1>2. Grown(taken, Batch)
  BY <1>1, AnswerType, AnswersGrow
<1>. HIDE DEF taken
<1>3. Batch \in Seq(Scanned) /\ Distinct(Batch)
  BY DEF IsBatch
<1>4. /\ Grown(taken \o Singles(Unclaimed(Batch, taken)), Batch)
      /\ ToSet(Batch) \subseteq GroupedIn(taken \o Singles(Unclaimed(Batch, taken)))
  BY <1>2, <1>3, GrowBySingles
<1>. QED  BY <1>4 DEF taken

-----------------------------------------------------------------------------
(***************************************************************************)
(* From blocks to groups.                                                  *)
(***************************************************************************)
\* One group for each block.
LEMMA ListingOfBlocks ==
  ASSUME NEW E, NEW bs, IsFiniteSet(bs), NEW part, DOMAIN part = bs,
         \A b \in bs : part[b] \in Seq(E) /\ part[b] # <<>>,
         \A b, c \in bs : b # c => ToSet(part[b]) \cap ToSet(part[c]) = {}
  PROVE  /\ Listing(SetToSeq({part[b] : b \in bs}), E)
         /\ Range(SetToSeq({part[b] : b \in bs})) = {part[b] : b \in bs}
         /\ \A e : e \in GroupedIn(SetToSeq({part[b] : b \in bs}))
                     <=> \E b \in bs : e \in ToSet(part[b])
<1>. DEFINE M == {part[b] : b \in bs}
            gs == SetToSeq(M)
<1>1. M \in SUBSET Seq(E) /\ <<>> \notin M
  OBVIOUS
<1>2. \A g, h \in M : g # h => ToSet(g) \cap ToSet(h) = {}
  OBVIOUS
<1>3. IsFiniteSet(M)
  BY ImageFinite
<1>4. \A e : e \in UNION {ToSet(g) : g \in M} <=> \E b \in bs : e \in ToSet(part[b])
  OBVIOUS
<1>. HIDE DEF M
<1>5. Listing(gs, E) /\ Range(gs) = M
  BY <1>1, <1>2, <1>3, ListingOfSet
<1>6. GroupedIn(gs) = UNION {ToSet(g) : g \in M}
  BY <1>1, <1>2, <1>3, ListingOfSet
<1>. QED  BY <1>4, <1>5, <1>6 DEF M

\* A finite set falls into finitely many blocks.
LEMMA PartitionFinite ==
  ASSUME NEW S, IsFiniteSet(S), NEW bs \in Partitions(S)
  PROVE  IsFiniteSet(bs)
<1>1. IsFiniteSet(SUBSET S)
  BY FS_SUBSET
<1>2. bs \in SUBSET (SUBSET S)
  BY DEF Partitions
<1>. QED  BY <1>1, <1>2, FS_Subset

\* A group of one family.
LEMMA OneFamilyKept ==
  ASSUME NEW members, NEW family, NEW overruled, NEW how,
         \A e, f \in members : family[e] = family[f]
  PROVE  KeptApart(members, family, overruled, how)
<1>. DEFINE families == {family[e] : e \in members}
<1>1. families = {} \/ \E x : families = {x}
  <2>1. CASE members = {}
    BY <2>1
  <2>2. CASE members # {}
    <3>1. PICK e \in members : TRUE
      BY <2>2
    <3>2. families = {family[e]}
      BY <3>1
    <3>. QED  BY <3>2
  <2>. QED  BY <2>1, <2>2
<1>. HIDE DEF families
<1>2. Cardinality(families) = 0 \/ Cardinality(families) = 1
  BY <1>1, FS_EmptySet, FS_Singleton
<1>. QED  BY <1>2 DEF KeptApart, families

-----------------------------------------------------------------------------
(***************************************************************************)
(* The fuzzy strategy: a block is of one family or holds a mention whose   *)
(* type is silent or overruled.                                            *)
(***************************************************************************)
Excused(b, family, overruled) ==
  (\E e \in b : e \in overruled) \/ \A e, f \in b : family[e] = family[f]

Guarding(S, family, overruled) ==
  {bs \in Partitions(S) : \A b \in bs : Excused(b, family, overruled)}

\* union of what the guard lets pass keeps every block excused or of one family.
LEMMA MergeGuarding ==
  ASSUME NEW S, NEW family, NEW overruled, NEW bs \in Guarding(S, family, overruled),
         NEW x \in S, NEW y \in S,
         x \in overruled \/ y \in overruled \/ family[x] = family[y]
  PROVE  Merge(bs, x, y) \in Guarding(S, family, overruled)
<1>. DEFINE m == Merge(bs, x, y)
<1>1. bs \in Partitions(S) /\ \A b \in bs : Excused(b, family, overruled)
  BY DEF Guarding
<1>2. m \in Partitions(S)
  BY <1>1, MergeFacts
<1>3. \A c \in m : c \in bs \/ \E b, d \in bs : x \in b /\ y \in d /\ c = b \cup d
  BY <1>1, MergeFacts
<1>. HIDE DEF m
<1>4. ASSUME NEW c \in m
      PROVE  Excused(c, family, overruled)
  <2>1. CASE c \in bs
    BY <1>1, <2>1
  <2>2. CASE c \notin bs
    <3>1. PICK b \in bs, d \in bs : x \in b /\ y \in d /\ c = b \cup d
      BY <1>3, <2>2
    <3>2. Excused(b, family, overruled) /\ Excused(d, family, overruled)
      BY <1>1
    <3>3. CASE \E e \in b \cup d : e \in overruled
      BY <3>1, <3>3 DEF Excused
    <3>4. CASE ~ \E e \in b \cup d : e \in overruled
      <4>1. family[x] = family[y]
        BY <3>1, <3>4
      <4>2. \A e \in c : family[e] = family[x]
        BY <3>1, <3>2, <3>4, <4>1 DEF Excused
      <4>. QED  BY <4>2 DEF Excused
    <3>. QED  BY <3>3, <3>4
  <2>. QED  BY <2>1, <2>2
<1>. QED  BY <1>2, <1>4 DEF Guarding, m

\* The guard on pairs: without one whose type is silent or overruled, entities
\* that are compatible are of one family.
LEMMA CompatibleFacts ==
  ASSUME NEW e \in Scanned, NEW f \in Scanned, Compatible(e, f)
  PROVE  e \in Overruled \/ f \in Overruled \/ FamilyOf[e] = FamilyOf[f]
<1>1. FamilyOf[e] = Family(e) /\ FamilyOf[f] = Family(f)
  BY DEF FamilyOf
<1>2. CASE Mention(e).slug = "untyped"
  BY <1>2 DEF Overruled, Ambiguous, TypeFamily
<1>3. CASE Mention(f).slug = "untyped"
  BY <1>3 DEF Overruled, Ambiguous, TypeFamily
<1>4. CASE Mention(e).slug = Mention(f).slug
  <2>1. TypeFamily(e) = TypeFamily(f)
    BY <1>4 DEF TypeFamily
  <2>. QED  BY <1>1, <2>1 DEF Overruled, Ambiguous
<1>5. CASE Family(e) = Family(f)
  BY <1>1, <1>5
<1>. QED  BY <1>2, <1>3, <1>4, <1>5 DEF Compatible

\* So are all blocks of the fuzzy strategy.
LEMMA FuzzyFacts ==
  ASSUME scan \in Scan
  PROVE  FuzzyBlocks \in Guarding(Scanned, FamilyOf, Overruled)
<1>. DEFINE V == Guarding(Scanned, FamilyOf, Overruled)
            pairs == {p \in scan.similar : Compatible(p[1], p[2])}
<1>1. scan.similar \in SUBSET (Scanned \X Scanned) /\ IsFiniteSet(Scanned)
  BY ScanFacts
<1>2. IsFiniteSet(pairs)
  <2>1. IsFiniteSet(Scanned \X Scanned)
    BY <1>1, FS_Product
  <2>2. pairs \in SUBSET (Scanned \X Scanned)
    BY <1>1
  <2>. QED  BY <2>1, <2>2, FS_Subset
<1>3. ASSUME NEW p \in pairs, NEW v \in V
      PROVE  Merge(v, p[1], p[2]) \in V
  <2>1. p[1] \in Scanned /\ p[2] \in Scanned /\ Compatible(p[1], p[2])
    BY <1>1
  <2>2. p[1] \in Overruled \/ p[2] \in Overruled \/ FamilyOf[p[1]] = FamilyOf[p[2]]
    BY <2>1, CompatibleFacts
  <2>. QED  BY <2>1, <2>2, MergeGuarding
<1>4. Discrete(Scanned) \in V
  <2>1. Discrete(Scanned) \in Partitions(Scanned)
    BY DiscretePartition
  <2>. QED  BY <2>1 DEF Guarding, Discrete, Excused
<1>. HIDE DEF V, pairs
<1>5. Joined(Discrete(Scanned), pairs) \in V
  BY <1>2, <1>3, <1>4, JoinedStays
<1>. QED  BY <1>5 DEF FuzzyBlocks, V, pairs

\* The groups of the fuzzy strategy.
LEMMA FuzzyGroups ==
  ASSUME scan \in Scan, NEW how, how # "llm"
  PROVE  LET gs == SetToSeq({InOrderOf(scan.order, b) : b \in FuzzyBlocks})
         IN  /\ Listing(gs, Scanned) /\ GroupedIn(gs) = Scanned
             /\ \A g \in Range(gs) : KeptApart(ToSet(g), FamilyOf, Overruled, how)
<1>. DEFINE bs == FuzzyBlocks
            order == scan.order
            part == [b \in bs |-> InOrderOf(order, b)]
            gs == SetToSeq({part[b] : b \in bs})
<1>1. order \in Seq(Scanned) /\ IsFiniteSet(Scanned) /\ Scanned = {order[k] : k \in DOMAIN order}
  BY ScanFacts DEF Scanned, ToSet
<1>2. bs \in Guarding(Scanned, FamilyOf, Overruled)
  BY FuzzyFacts
<1>. HIDE DEF bs, order
<1>3. bs \in Partitions(Scanned) /\ \A b \in bs : Excused(b, FamilyOf, Overruled)
  BY <1>2 DEF Guarding
<1>4. /\ \A b \in bs : b \subseteq Scanned /\ b # {}
      /\ UNION bs = Scanned
      /\ \A b, c \in bs : b # c => b \cap c = {}
  BY <1>3 DEF Partitions
<1>5. ASSUME NEW b \in bs
      PROVE  part[b] \in Seq(Scanned) /\ part[b] # <<>> /\ ToSet(part[b]) = b
  <2>. DEFINE keep == {k \in DOMAIN order : order[k] \in b}
  <2>1. part[b] = Thin(order, keep)
    BY DEF InOrderOf, Only
  <2>2. keep \in SUBSET DOMAIN order /\ {order[k] : k \in keep} = b /\ keep # {}
    BY <1>1, <1>4
  <2>. HIDE DEF keep, part
  <2>3. Thin(order, keep) \in Seq(Scanned)
    BY <1>1, <2>2, ThinSet
  <2>4. ToSet(Thin(order, keep)) = {order[k] : k \in keep}
    BY <1>1, <2>2, ThinSet
  <2>5. Thin(order, keep) # <<>>
    BY <1>1, <2>2, ThinSet
  <2>. QED  BY <2>1, <2>2, <2>3, <2>4, <2>5
<1>6. {InOrderOf(order, b) : b \in bs} = {part[b] : b \in bs} /\ DOMAIN part = bs
  OBVIOUS
<1>7. IsFiniteSet(bs)
  BY <1>1, <1>3, PartitionFinite
<1>. HIDE DEF part
<1>8. \A b, c \in bs : b # c => ToSet(part[b]) \cap ToSet(part[c]) = {}
  BY <1>4, <1>5
<1>9. /\ Listing(gs, Scanned) /\ Range(gs) = {part[b] : b \in bs}
      /\ \A e : e \in GroupedIn(gs) <=> \E b \in bs : e \in ToSet(part[b])
  <2>1. \A b \in bs : part[b] \in Seq(Scanned) /\ part[b] # <<>>
    BY <1>5
  <2>2. DOMAIN part = bs
    BY <1>6
  <2>3. Listing(gs, Scanned)
    BY <1>7, <1>8, <2>1, <2>2, ListingOfBlocks
  <2>4. Range(gs) = {part[b] : b \in bs}
    BY <1>7, <1>8, <2>1, <2>2, ListingOfBlocks
  <2>5. \A e : e \in GroupedIn(gs) <=> \E b \in bs : e \in ToSet(part[b])
    BY <1>7, <1>8, <2>1, <2>2, ListingOfBlocks
  <2>. QED  BY <2>3, <2>4, <2>5
<1>. HIDE DEF gs
<1>10. GroupedIn(gs) = Scanned
  <2>1. \A e : e \in Scanned <=> \E b \in bs : e \in b
    BY <1>4
  <2>2. \A e : e \in GroupedIn(gs) <=> \E b \in bs : e \in b
    BY <1>5, <1>9
  <2>3. \A e : e \in GroupedIn(gs) <=> e \in Scanned
    BY <2>1, <2>2
  <2>4. GroupedIn(gs) \subseteq Scanned /\ Scanned \subseteq GroupedIn(gs)
    BY <2>3
  <2>. QED  BY <2>4
<1>11. ASSUME NEW b \in bs
       PROVE  KeptApart(b, FamilyOf, Overruled, how)
  <2>1. CASE \E e \in b : e \in Overruled
    BY <2>1 DEF KeptApart
  <2>2. CASE \A e, f \in b : FamilyOf[e] = FamilyOf[f]
    BY <2>2, OneFamilyKept
  <2>. QED  BY <1>3, <2>1, <2>2 DEF Excused
<1>12. \A g \in Range(gs) : KeptApart(ToSet(g), FamilyOf, Overruled, how)
  BY <1>5, <1>9, <1>11
<1>. QED  BY <1>6, <1>9, <1>10, <1>12 DEF gs, bs, order

-----------------------------------------------------------------------------
(***************************************************************************)
(* Joining groups: every signature and every bridge goes between groups of *)
(* one kind.                                                               *)
(***************************************************************************)
\* What the groups are when the joining starts and while it lasts.
Settled == scan \in Scan /\ Listing(groups, Scanned) /\ GroupedIn(groups) = Scanned

\* The groups are finitely many, and none is empty.
LEMMA SettledFacts ==
  ASSUME Settled
  PROVE  /\ Keys = 1..Len(groups) /\ Len(groups) \in Nat /\ IsFiniteSet(Keys)
         /\ \A k \in Keys : /\ groups[k] \in Seq(Scanned) /\ groups[k] # <<>>
                            /\ groups[k][1] \in In(k) /\ In(k) \subseteq Scanned
                            /\ IsFiniteSet(In(k))
<1>1. groups \in Seq(Seq(Scanned)) /\ \A k \in DOMAIN groups : groups[k] # <<>>
  BY DEF Settled, Listing
<1>2. Keys = 1..Len(groups) /\ Len(groups) \in Nat
  BY <1>1 DEF Keys
<1>3. IsFiniteSet(Keys)
  BY <1>2, FS_Interval
<1>4. ASSUME NEW k \in Keys
      PROVE  /\ groups[k] \in Seq(Scanned) /\ groups[k] # <<>>
             /\ groups[k][1] \in In(k) /\ In(k) \subseteq Scanned
             /\ IsFiniteSet(In(k))
  <2>. DEFINE g == groups[k]
  <2>1. g \in Seq(Scanned) /\ g # <<>>
    BY <1>1 DEF Keys
  <2>. HIDE DEF g
  <2>2. DOMAIN g = 1..Len(g) /\ Len(g) \in Nat /\ 1 \in DOMAIN g
    BY <2>1
  <2>3. g[1] \in ToSet(g) /\ ToSet(g) \subseteq Scanned
    BY <2>1, <2>2 DEF ToSet
  <2>4. IsFiniteSet(ToSet(g))
    BY <2>1, SequenceFinite
  <2>. QED  BY <2>1, <2>3, <2>4 DEF In, g
<1>. QED  BY <1>2, <1>3, <1>4

\* The kind of a group, by the family of its first entity.
LEMMA KindFacts ==
  ASSUME Settled, NEW k \in Keys
  PROVE  KindOf[k] = IF GroupFamily(k) \in {"place", "unknown"} THEN "place" ELSE GroupFamily(k)
<1>1. groups[k][1] \in Scanned
  BY SettledFacts
<1>. QED  BY <1>1 DEF KindOf, FamilyOf, GroupFamily

\* There are finitely many labels, so an order of them is a sequence.
LEMMA OrderFacts ==
  ASSUME Settled, NEW field, NEW labels \in SUBSET AllReadings(field), NEW order \in SetToSeqs(labels)
  PROVE  Len(order) \in Nat /\ DOMAIN order = 1..Len(order)
<1>1. ASSUME NEW k \in Keys
      PROVE  IsFiniteSet(Readings(k, field))
  <2>. DEFINE reading == [e \in In(k) |-> Mention(e)[field]]
  <2>1. IsFiniteSet(In(k))
    BY SettledFacts
  <2>2. IsFiniteSet({reading[e] : e \in In(k)})
    BY <2>1, ImageFinite
  <2>3. Readings(k, field) \in SUBSET {reading[e] : e \in In(k)}
    BY DEF Readings
  <2>. QED  BY <2>2, <2>3, FS_Subset
<1>2. IsFiniteSet(AllReadings(field))
  <2>. DEFINE readings == [k \in Keys |-> Readings(k, field)]
              all == {readings[k] : k \in Keys}
  <2>1. IsFiniteSet(all)
    BY SettledFacts, ImageFinite
  <2>2. \A r \in all : IsFiniteSet(r)
    BY <1>1
  <2>3. AllReadings(field) = UNION all
    BY DEF AllReadings
  <2>. HIDE DEF all
  <2>. QED  BY <2>1, <2>2, <2>3, FS_UNION
<1>3. Cardinality(labels) \in Nat
  BY <1>2, FS_Subset, FS_CardinalityType
<1>4. order \in [1..Cardinality(labels) -> labels]
  BY DEF SetToSeqs
<1>. QED  BY <1>3, <1>4

\* A label borne by one block of groups is borne by some group.
LEMMA OneRoot ==
  ASSUME NEW bs, NEW keys, Cardinality(Roots(bs, keys)) = 1
  PROVE  keys # {}
<1>. SUFFICES ASSUME keys = {} PROVE FALSE
  OBVIOUS
<1>1. Roots(bs, keys) = {}
  BY DEF Roots
<1>. QED  BY <1>1, FS_EmptySet

\* Signatures join groups of one family.
LEMMA SignaturesUniform ==
  ASSUME Settled
  PROVE  BySignature \in Uniform(Keys, KindOf)
<1>. DEFINE pairs == {p \in Keys \X Keys :
                        /\ p[1] < p[2]
                        /\ GroupFamily(p[1]) = GroupFamily(p[2])
                        /\ Signatures(p[1]) \cap Signatures(p[2]) # {}}
            kind == KindOf
            bs == Discrete(Keys)
<1>1. pairs \in SUBSET (Keys \X Keys)
  OBVIOUS
<1>2. \A p \in pairs : kind[p[1]] = kind[p[2]]
  <2>. SUFFICES ASSUME NEW p \in pairs PROVE kind[p[1]] = kind[p[2]]
    OBVIOUS
  <2>1. p[1] \in Keys /\ p[2] \in Keys /\ GroupFamily(p[1]) = GroupFamily(p[2])
    OBVIOUS
  <2>. QED  BY <2>1, KindFacts
<1>3. bs \in Uniform(Keys, kind) /\ IsFiniteSet(Keys)
  BY DiscretePartition, SettledFacts
<1>4. BySignature = Joined(bs, pairs)
  BY DEF BySignature
<1>. HIDE DEF pairs, kind, bs
<1>5. Joined(bs, pairs) \in Uniform(Keys, kind)
  BY <1>1, <1>2, <1>3, JoinedUniform
<1>. QED  BY <1>4, <1>5 DEF kind

\* Bridges between groups of people with one surname.
LEMMA PeopleUniform ==
  ASSUME Settled, NEW bs \in Uniform(Keys, KindOf), NEW surname
  PROVE  BridgePeople(bs, surname) \in Uniform(Keys, KindOf)
<1>. DEFINE kind == KindOf
            keys == PersonKeys(surname)
<1>1. PICK pairs \in SUBSET (keys \X keys) : BridgePeople(bs, surname) = Joined(bs, pairs)
  BY DEF BridgePeople
<1>2. \A k \in keys : k \in Keys /\ GroupFamily(k) = "person"
  BY DEF PersonKeys
<1>3. \A k \in keys : k \in Keys /\ kind[k] = "person"
  BY <1>2, KindFacts
<1>4. pairs \in SUBSET (Keys \X Keys) /\ \A p \in pairs : kind[p[1]] = kind[p[2]]
  BY <1>3
<1>5. bs \in Uniform(Keys, kind) /\ IsFiniteSet(Keys)
  BY SettledFacts
<1>. HIDE DEF kind, keys
<1>6. Joined(bs, pairs) \in Uniform(Keys, kind)
  BY <1>4, <1>5, JoinedUniform
<1>. QED  BY <1>1, <1>6 DEF kind

\* Bridges from places and mentions of unknown kind to a district.
LEMMA PlacesUniform ==
  ASSUME Settled, NEW bs \in Uniform(Keys, KindOf), NEW head
  PROVE  BridgePlaces(bs, head) \in Uniform(Keys, KindOf)
<1>. DEFINE kind == KindOf
            heads == HeadKeys(head)
            named == {k \in PlaceKeys : head \in Readings(k, "token") \/ TRUE \in Readings(k, "dc")}
            pairs == named \X {Min(heads)}
<1>1. CASE Cardinality(Roots(bs, heads)) # 1
  BY <1>1 DEF BridgePlaces
<1>2. CASE Cardinality(Roots(bs, heads)) = 1
  <2>1. heads # {}
    BY <1>2, OneRoot
  <2>2. heads \in SUBSET PlaceKeys /\ PlaceKeys \in SUBSET Keys
    BY DEF HeadKeys, PlaceKeys
  <2>3. Keys \in SUBSET Nat
    BY SettledFacts
  <2>4. Min(heads) \in heads
    BY <2>1, <2>2, <2>3, MinIsFirst
  <2>5. \A k \in PlaceKeys : k \in Keys /\ kind[k] = "place"
    BY KindFacts DEF PlaceKeys
  <2>6. pairs \in SUBSET (Keys \X Keys) /\ \A p \in pairs : kind[p[1]] = kind[p[2]]
    BY <2>2, <2>4, <2>5
  <2>7. bs \in Uniform(Keys, kind) /\ IsFiniteSet(Keys)
    BY SettledFacts
  <2>8. BridgePlaces(bs, head) = Joined(bs, pairs)
    BY <1>2 DEF BridgePlaces
  <2>. HIDE DEF kind, pairs
  <2>9. Joined(bs, pairs) \in Uniform(Keys, kind)
    BY <2>6, <2>7, JoinedUniform
  <2>. QED  BY <2>8, <2>9 DEF kind
<1>. QED  BY <1>1, <1>2

\* Bridges between groups of organizations.
LEMMA DescriptorsUniform ==
  ASSUME Settled, NEW bs \in Uniform(Keys, KindOf), NEW d
  PROVE  BridgeDescriptors(bs, d) \in Uniform(Keys, KindOf)
<1>. DEFINE one == Cardinality(Roots(bs, SurfaceKeys(d))) = 1 /\ Cardinality(Roots(bs, ContextKeys(d))) = 1
            x == Min(SurfaceKeys(d))
            y == Min(ContextKeys(d))
<1>1. CASE ~one
  BY <1>1 DEF BridgeDescriptors
<1>2. CASE one
  <2>1. SurfaceKeys(d) # {} /\ ContextKeys(d) # {}
    BY <1>2, OneRoot
  <2>2. SurfaceKeys(d) \in SUBSET OrganizationKeys /\ ContextKeys(d) \in SUBSET OrganizationKeys
    BY DEF SurfaceKeys, ContextKeys
  <2>3. OrganizationKeys \in SUBSET Keys /\ Keys \in SUBSET Nat
    BY SettledFacts DEF OrganizationKeys
  <2>4. x \in OrganizationKeys
    BY <2>1, <2>2, <2>3, MinIsFirst
  <2>5. y \in OrganizationKeys
    BY <2>1, <2>2, <2>3, MinIsFirst
  <2>6. \A k \in OrganizationKeys : KindOf[k] = "organization"
    BY KindFacts DEF OrganizationKeys
  <2>7. BridgeDescriptors(bs, d) = Merge(bs, x, y)
    BY <1>2 DEF BridgeDescriptors
  <2>. HIDE DEF x, y
  <2>8. Merge(bs, x, y) \in Uniform(Keys, KindOf)
    BY <2>3, <2>4, <2>5, <2>6, MergeUniform
  <2>. QED  BY <2>7, <2>8
<1>. QED  BY <1>1, <1>2

\* Bridge after bridge, in any order of the labels.
LEMMA AllPeopleUniform ==
  ASSUME Settled, NEW bs \in Uniform(Keys, KindOf), NEW order, Len(order) \in Nat,
         DOMAIN order = 1..Len(order)
  PROVE  FoldLeft(BridgePeople, bs, order) \in Uniform(Keys, KindOf)
<1>. DEFINE V == Uniform(Keys, KindOf)
            n == Len(order)
            step == [k \in 1..n |-> [v \in V |-> BridgePeople(v, order[k])]]
            Body(h) == h = [d \in SUBSET DOMAIN order |->
                              IF d = {} THEN bs ELSE BridgePeople(h[d \ {Max(d)}], order[Max(d)])]
            fold == CHOOSE h : Body(h)
<1>1. n \in Nat /\ DOMAIN order = 1..n
  OBVIOUS
<1>2. FoldLeft(BridgePeople, bs, order) = fold[DOMAIN order]
  BY DEF FoldLeft, MapThenFoldSet
<1>3. bs \in V /\ \A v \in V : \A label : BridgePeople(v, label) \in V
  BY PeopleUniform
<1>. HIDE DEF n, V
<1>4. \A k \in 1..n, v \in V : step[k][v] = BridgePeople(v, order[k])
  OBVIOUS
<1>5. StepOn(n, V, bs, step)
  <2>1. step \in [1..n -> [V -> V]]
    BY <1>3
  <2>. HIDE DEF step
  <2>. QED  BY <1>1, <1>3, <2>1 DEF StepOn
<1>. HIDE DEF step
<1>6. Body(fold)
  <2>1. PICK h : LastFold(n, V, bs, step, h)
    BY <1>5, LastFoldExists
  <2>2. \A d \in SUBSET (1..n) :
          h[d] = IF d = {} THEN bs ELSE BridgePeople(h[d \ {Max(d)}], order[Max(d)])
    BY <1>4, <2>1 DEF LastFold
  <2>3. Body(h)
    BY <1>1, <2>1, <2>2 DEF LastFold
  <2>. QED  BY <2>3
<1>7. /\ fold[{}] = bs
      /\ \A d \in SUBSET (1..n) : d # {} => fold[d] = BridgePeople(fold[d \ {Max(d)}], order[Max(d)])
  BY <1>1, <1>6
<1>. HIDE DEF fold
<1>8. TakesLast(n, V, bs, step, fold)
  <2>1. \A d \in SUBSET (1..n) : d # {} => Max(d) \in 1..n
    BY <1>1, MaxIsLast
  <2>. QED  BY <1>4, <1>7, <2>1 DEF TakesLast
<1>9. fold[1..n] \in V
  BY <1>5, <1>8, LastFoldStays
<1>. QED  BY <1>1, <1>2, <1>9 DEF V

\* The same of places,
LEMMA AllPlacesUniform ==
  ASSUME Settled, NEW bs \in Uniform(Keys, KindOf), NEW order, Len(order) \in Nat,
         DOMAIN order = 1..Len(order)
  PROVE  FoldLeft(BridgePlaces, bs, order) \in Uniform(Keys, KindOf)
<1>. DEFINE V == Uniform(Keys, KindOf)
            n == Len(order)
            step == [k \in 1..n |-> [v \in V |-> BridgePlaces(v, order[k])]]
            Body(h) == h = [d \in SUBSET DOMAIN order |->
                              IF d = {} THEN bs ELSE BridgePlaces(h[d \ {Max(d)}], order[Max(d)])]
            fold == CHOOSE h : Body(h)
<1>1. n \in Nat /\ DOMAIN order = 1..n
  OBVIOUS
<1>2. FoldLeft(BridgePlaces, bs, order) = fold[DOMAIN order]
  BY DEF FoldLeft, MapThenFoldSet
<1>3. bs \in V /\ \A v \in V : \A label : BridgePlaces(v, label) \in V
  BY PlacesUniform
<1>. HIDE DEF n, V
<1>4. \A k \in 1..n, v \in V : step[k][v] = BridgePlaces(v, order[k])
  OBVIOUS
<1>5. StepOn(n, V, bs, step)
  <2>1. step \in [1..n -> [V -> V]]
    BY <1>3
  <2>. HIDE DEF step
  <2>. QED  BY <1>1, <1>3, <2>1 DEF StepOn
<1>. HIDE DEF step
<1>6. Body(fold)
  <2>1. PICK h : LastFold(n, V, bs, step, h)
    BY <1>5, LastFoldExists
  <2>2. \A d \in SUBSET (1..n) :
          h[d] = IF d = {} THEN bs ELSE BridgePlaces(h[d \ {Max(d)}], order[Max(d)])
    BY <1>4, <2>1 DEF LastFold
  <2>3. Body(h)
    BY <1>1, <2>1, <2>2 DEF LastFold
  <2>. QED  BY <2>3
<1>7. /\ fold[{}] = bs
      /\ \A d \in SUBSET (1..n) : d # {} => fold[d] = BridgePlaces(fold[d \ {Max(d)}], order[Max(d)])
  BY <1>1, <1>6
<1>. HIDE DEF fold
<1>8. TakesLast(n, V, bs, step, fold)
  <2>1. \A d \in SUBSET (1..n) : d # {} => Max(d) \in 1..n
    BY <1>1, MaxIsLast
  <2>. QED  BY <1>4, <1>7, <2>1 DEF TakesLast
<1>9. fold[1..n] \in V
  BY <1>5, <1>8, LastFoldStays
<1>. QED  BY <1>1, <1>2, <1>9 DEF V

\* and of organizations.
LEMMA AllDescriptorsUniform ==
  ASSUME Settled, NEW bs \in Uniform(Keys, KindOf), NEW order, Len(order) \in Nat,
         DOMAIN order = 1..Len(order)
  PROVE  FoldLeft(BridgeDescriptors, bs, order) \in Uniform(Keys, KindOf)
<1>. DEFINE V == Uniform(Keys, KindOf)
            n == Len(order)
            step == [k \in 1..n |-> [v \in V |-> BridgeDescriptors(v, order[k])]]
            Body(h) == h = [d \in SUBSET DOMAIN order |->
                              IF d = {} THEN bs ELSE BridgeDescriptors(h[d \ {Max(d)}], order[Max(d)])]
            fold == CHOOSE h : Body(h)
<1>1. n \in Nat /\ DOMAIN order = 1..n
  OBVIOUS
<1>2. FoldLeft(BridgeDescriptors, bs, order) = fold[DOMAIN order]
  BY DEF FoldLeft, MapThenFoldSet
<1>3. bs \in V /\ \A v \in V : \A label : BridgeDescriptors(v, label) \in V
  BY DescriptorsUniform
<1>. HIDE DEF n, V
<1>4. \A k \in 1..n, v \in V : step[k][v] = BridgeDescriptors(v, order[k])
  OBVIOUS
<1>5. StepOn(n, V, bs, step)
  <2>1. step \in [1..n -> [V -> V]]
    BY <1>3
  <2>. HIDE DEF step
  <2>. QED  BY <1>1, <1>3, <2>1 DEF StepOn
<1>. HIDE DEF step
<1>6. Body(fold)
  <2>1. PICK h : LastFold(n, V, bs, step, h)
    BY <1>5, LastFoldExists
  <2>2. \A d \in SUBSET (1..n) :
          h[d] = IF d = {} THEN bs ELSE BridgeDescriptors(h[d \ {Max(d)}], order[Max(d)])
    BY <1>4, <2>1 DEF LastFold
  <2>3. Body(h)
    BY <1>1, <2>1, <2>2 DEF LastFold
  <2>. QED  BY <2>3
<1>7. /\ fold[{}] = bs
      /\ \A d \in SUBSET (1..n) : d # {} => fold[d] = BridgeDescriptors(fold[d \ {Max(d)}], order[Max(d)])
  BY <1>1, <1>6
<1>. HIDE DEF fold
<1>8. TakesLast(n, V, bs, step, fold)
  <2>1. \A d \in SUBSET (1..n) : d # {} => Max(d) \in 1..n
    BY <1>1, MaxIsLast
  <2>. QED  BY <1>4, <1>7, <2>1 DEF TakesLast
<1>9. fold[1..n] \in V
  BY <1>5, <1>8, LastFoldStays
<1>. QED  BY <1>1, <1>2, <1>9 DEF V

\* Each of the three steps keeps the blocks of one kind.
LEMMA CollapsesUniform ==
  ASSUME Settled, blocks \in Uniform(Keys, KindOf),
         \/ CollapsePeople
         \/ CollapsePlaces
         \/ CollapseOrganizations
  PROVE  blocks' \in Uniform(Keys, KindOf)
<1>1. CASE CollapsePeople
  <2>1. PICK order \in ByFirstKey([l \in AllReadings("surname") |-> PersonKeys(l)]) :
               blocks' = FoldLeft(BridgePeople, blocks, order)
    BY <1>1 DEF CollapsePeople
  <2>. DEFINE labels == {l \in AllReadings("surname") : PersonKeys(l) # {}}
  <2>2. order \in SetToSeqs(labels)
    BY <2>1 DEF ByFirstKey
  <2>3. labels \in SUBSET AllReadings("surname")
    OBVIOUS
  <2>. HIDE DEF labels
  <2>4. Len(order) \in Nat /\ DOMAIN order = 1..Len(order)
    BY <2>2, <2>3, OrderFacts
  <2>. QED  BY <2>1, <2>4, AllPeopleUniform
<1>2. CASE CollapsePlaces
  <2>1. PICK order \in ByFirstKey([l \in AllReadings("head") |-> HeadKeys(l)]) :
               blocks' = FoldLeft(BridgePlaces, blocks, order)
    BY <1>2 DEF CollapsePlaces
  <2>. DEFINE labels == {l \in AllReadings("head") : HeadKeys(l) # {}}
  <2>2. order \in SetToSeqs(labels)
    BY <2>1 DEF ByFirstKey
  <2>3. labels \in SUBSET AllReadings("head")
    OBVIOUS
  <2>. HIDE DEF labels
  <2>4. Len(order) \in Nat /\ DOMAIN order = 1..Len(order)
    BY <2>2, <2>3, OrderFacts
  <2>. QED  BY <2>1, <2>4, AllPlacesUniform
<1>3. CASE CollapseOrganizations
  <2>1. PICK order \in ByFirstKey([l \in AllReadings("descriptor") |-> SurfaceKeys(l)]) :
               blocks' = FoldLeft(BridgeDescriptors, blocks, order)
    BY <1>3 DEF CollapseOrganizations
  <2>. DEFINE labels == {l \in AllReadings("descriptor") : SurfaceKeys(l) # {}}
  <2>2. order \in SetToSeqs(labels)
    BY <2>1 DEF ByFirstKey
  <2>3. labels \in SUBSET AllReadings("descriptor")
    OBVIOUS
  <2>. HIDE DEF labels
  <2>4. Len(order) \in Nat /\ DOMAIN order = 1..Len(order)
    BY <2>2, <2>3, OrderFacts
  <2>. QED  BY <2>1, <2>4, AllDescriptorsUniform
<1>. QED  BY <1>1, <1>2, <1>3

\* The entities of a block are those of its groups.
LEMMA BlockMembersFacts ==
  ASSUME Settled, NEW b \in SUBSET Keys, b # {}
  PROVE  /\ BlockMembers(b) \in Seq(Scanned) /\ BlockMembers(b) # <<>>
         /\ \A e : e \in ToSet(BlockMembers(b)) <=> \E k \in b : e \in In(k)
<1>. DEFINE T == Seq(Scanned)
            gs == groups
            thin == Thin(gs, b)
            flat == FlattenSeq(thin)
<1>1. gs \in Seq(T) /\ b \in SUBSET DOMAIN gs
  BY DEF Settled, Listing, Keys
<1>2. \A k \in b : In(k) = Range(gs[k]) /\ In(k) # {}
  BY SettledFacts, ToSetIsRange DEF In
<1>. HIDE DEF T, gs
<1>3. thin \in Seq(T)
  BY <1>1, ThinFacts
<1>4. Range(thin) = {gs[k] : k \in b}
  BY <1>1, ThinRange
<1>. HIDE DEF thin
<1>5. flat \in Seq(Scanned) /\ Range(flat) = UNION {Range(thin[k]) : k \in DOMAIN thin}
  <2>1. thin \in Seq(Seq(Scanned))
    BY <1>3 DEF T
  <2>. QED  BY <2>1, FlattenFacts
<1>. HIDE DEF flat
<1>6. \A e : e \in Range(flat) <=> \E g \in Range(thin) : e \in Range(g)
  <2>1. \A g : g \in Range(thin) <=> \E k \in DOMAIN thin : g = thin[k]
    BY DEF Range
  <2>2. \A e : e \in Range(flat) <=> \E k \in DOMAIN thin : e \in Range(thin[k])
    BY <1>5
  <2>. QED  BY <2>1, <2>2
<1>7. \A e : e \in Range(flat) <=> \E k \in b : e \in In(k)
  BY <1>2, <1>4, <1>6
<1>8. flat # <<>>
  <2>1. PICK k \in b : \E e \in In(k) : TRUE
    BY <1>2
  <2>2. Range(flat) # {}
    BY <1>7, <2>1
  <2>3. Range(<<>>) = {}
    BY DEF Range
  <2>. QED  BY <2>2, <2>3
<1>. QED  BY <1>5, <1>7, <1>8, ToSetIsRange DEF flat, thin, gs, BlockMembers

\* A mention of unknown family is one whose type is silent or overruled.
LEMMA UnknownOverruled ==
  \A e \in Scanned : FamilyOf[e] = "unknown" => e \in Overruled
BY DEF FamilyOf, Overruled, Ambiguous

\* Places and mentions of unknown kind may come together.
LEMMA PlacesKept ==
  ASSUME NEW members \in SUBSET Scanned, NEW how,
         \A e \in members : FamilyOf[e] \in {"place", "unknown"}
  PROVE  KeptApart(members, FamilyOf, Overruled, how)
<1>1. CASE \A e \in members : FamilyOf[e] = "place"
  BY <1>1, OneFamilyKept
<1>2. CASE \A e \in members : FamilyOf[e] = "unknown"
  BY <1>2, OneFamilyKept
<1>3. CASE (\E e \in members : FamilyOf[e] = "place") /\ (\E e \in members : FamilyOf[e] = "unknown")
  <2>1. {FamilyOf[e] : e \in members} = {"place", "unknown"}
    BY <1>3
  <2>2. \E e \in members : e \in Overruled
    BY <1>3, UnknownOverruled
  <2>. QED  BY <2>1, <2>2 DEF KeptApart
<1>. QED  BY <1>1, <1>2, <1>3

\* Groups of one kind, put together, keep their families apart.
LEMMA BlockKeptApart ==
  ASSUME Settled, OneFamily(groups, FamilyOf), NEW b \in SUBSET Keys, b # {},
         \A k, l \in b : KindOf[k] = KindOf[l],
         NEW members \in SUBSET Scanned, \A e : e \in members <=> \E k \in b : e \in In(k),
         NEW how
  PROVE  KeptApart(members, FamilyOf, Overruled, how)
<1>1. ASSUME NEW k \in b, NEW e \in In(k)
      PROVE  FamilyOf[e] = GroupFamily(k)
  <2>1. groups[k] \in Range(groups) /\ In(k) = ToSet(groups[k])
    BY DEF Range, Keys, In
  <2>2. groups[k][1] \in In(k) /\ groups[k][1] \in Scanned
    BY SettledFacts
  <2>3. FamilyOf[e] = FamilyOf[groups[k][1]]
    BY <1>1, <2>1, <2>2 DEF OneFamily
  <2>. QED  BY <2>2, <2>3 DEF FamilyOf, GroupFamily
<1>2. \A k \in b : KindOf[k] = IF GroupFamily(k) \in {"place", "unknown"} THEN "place" ELSE GroupFamily(k)
  BY KindFacts
<1>3. CASE \A k \in b : KindOf[k] = "place"
  <2>1. \A k \in b : GroupFamily(k) \in {"place", "unknown"}
    BY <1>2, <1>3
  <2>2. \A e \in members : FamilyOf[e] \in {"place", "unknown"}
    BY <1>1, <2>1
  <2>. QED  BY <2>2, PlacesKept
<1>4. CASE \E k \in b : KindOf[k] # "place"
  <2>1. \A k, l \in b : GroupFamily(k) = GroupFamily(l)
    BY <1>2, <1>4
  <2>2. \A e, f \in members : FamilyOf[e] = FamilyOf[f]
    BY <1>1, <2>1
  <2>. QED  BY <2>2, OneFamilyKept
<1>. QED  BY <1>3, <1>4

\* What the groups of all blocks come to.
LEMMA CollapsedFacts ==
  ASSUME Settled, OneFamily(groups, FamilyOf), blocks \in Uniform(Keys, KindOf), NEW how
  PROVE  /\ Listing(Collapsed, Scanned) /\ GroupedIn(Collapsed) = Scanned
         /\ \A g \in Range(Collapsed) : KeptApart(ToSet(g), FamilyOf, Overruled, how)
<1>. DEFINE bs == blocks
            part == [b \in bs |-> BlockMembers(b)]
            gs == SetToSeq({part[b] : b \in bs})
<1>1. bs \in Partitions(Keys) /\ \A b \in bs : \A k, l \in b : KindOf[k] = KindOf[l]
  BY DEF Uniform
<1>2. IsFiniteSet(bs)
  BY <1>1, SettledFacts, PartitionFinite
<1>3. /\ \A b \in bs : b \in SUBSET Keys /\ b # {}
      /\ \A k \in Keys : \E b \in bs : k \in b
      /\ \A b, c \in bs : b # c => b \cap c = {}
  BY <1>1 DEF Partitions
<1>4. DOMAIN part = bs /\ Collapsed = gs /\ \A b \in bs : part[b] = BlockMembers(b)
  BY DEF Collapsed
<1>. HIDE DEF bs, part
<1>5. \A b \in bs : part[b] \in Seq(Scanned) /\ part[b] # <<>>
  BY <1>3, <1>4, BlockMembersFacts
<1>6. ASSUME NEW b \in bs
      PROVE  \A e : e \in ToSet(part[b]) <=> \E k \in b : e \in In(k)
  <2>1. b \in SUBSET Keys /\ b # {} /\ part[b] = BlockMembers(b)
    BY <1>3, <1>4
  <2>. QED  BY <2>1, BlockMembersFacts
<1>7. \A k, l \in Keys : k # l => In(k) \cap In(l) = {}
  BY DEF Settled, Listing, Keys, In
<1>8. ASSUME NEW b \in bs, NEW c \in bs, b # c
      PROVE  ToSet(part[b]) \cap ToSet(part[c]) = {}
  <2>1. ASSUME NEW e \in ToSet(part[b]), e \in ToSet(part[c])
        PROVE  FALSE
    <3>1. PICK k \in b : e \in In(k)
      BY <1>6, <2>1
    <3>2. PICK l \in c : e \in In(l)
      BY <1>6, <2>1
    <3>3. k \in Keys /\ l \in Keys /\ k # l
      BY <1>3, <1>8
    <3>. QED  BY <1>7, <3>1, <3>2, <3>3
  <2>. QED  BY <2>1
<1>9. Listing(gs, Scanned)
  BY <1>2, <1>4, <1>5, <1>8, ListingOfBlocks
<1>10. Range(gs) = {part[b] : b \in bs}
  BY <1>2, <1>4, <1>5, <1>8, ListingOfBlocks
<1>11. \A e : e \in GroupedIn(gs) <=> \E b \in bs : e \in ToSet(part[b])
  BY <1>2, <1>4, <1>5, <1>8, ListingOfBlocks
<1>. HIDE DEF gs
<1>12. \A e : e \in Scanned <=> \E k \in Keys : e \in In(k)
  BY DEF Settled, GroupedIn, Keys, In
<1>13. \A e : e \in GroupedIn(gs) <=> \E k \in Keys : e \in In(k)
  <2>1. ASSUME NEW e \in GroupedIn(gs)
        PROVE  \E k \in Keys : e \in In(k)
    <3>1. PICK b \in bs : e \in ToSet(part[b])
      BY <1>11, <2>1
    <3>2. PICK k \in b : e \in In(k)
      BY <1>6, <3>1
    <3>. QED  BY <1>3, <3>2
  <2>2. ASSUME NEW k \in Keys, NEW e \in In(k)
        PROVE  e \in GroupedIn(gs)
    <3>1. PICK b \in bs : k \in b
      BY <1>3
    <3>2. e \in ToSet(part[b])
      BY <1>6, <2>2, <3>1
    <3>. QED  BY <1>11, <3>2
  <2>. QED  BY <2>1, <2>2
<1>14. GroupedIn(gs) = Scanned
  <2>1. GroupedIn(gs) \subseteq Scanned /\ Scanned \subseteq GroupedIn(gs)
    BY <1>12, <1>13
  <2>. QED  BY <2>1
<1>15. ASSUME NEW b \in bs
       PROVE  KeptApart(ToSet(part[b]), FamilyOf, Overruled, how)
  <2>. DEFINE members == ToSet(part[b])
  <2>1. \A e : e \in members <=> \E k \in b : e \in In(k)
    BY <1>6
  <2>2. b \in SUBSET Keys /\ b # {} /\ \A k, l \in b : KindOf[k] = KindOf[l]
    BY <1>1, <1>3
  <2>. HIDE DEF members
  <2>3. members \in SUBSET Scanned
    BY <1>12, <2>1, <2>2
  <2>4. KeptApart(members, FamilyOf, Overruled, how)
    BY <2>1, <2>2, <2>3, BlockKeptApart
  <2>. QED  BY <2>4 DEF members
<1>16. \A g \in Range(gs) : KeptApart(ToSet(g), FamilyOf, Overruled, how)
  BY <1>10, <1>15
<1>. QED  BY <1>4, <1>9, <1>14, <1>16

-----------------------------------------------------------------------------
(***************************************************************************)
(* The steps of a run.                                                     *)
(***************************************************************************)
\* A run starts with no groups.
LEMMA InitIInv == Init => IInv
<1>. SUFFICES ASSUME Init PROVE IInv
  OBVIOUS
<1>1. TypeInv /\ BlocksInv /\ DoneInv
  BY DEF Init, TypeInv, BlocksInv, DoneInv, Joining
<1>2. GroupsInv
  <2>1. groups = <<>> /\ Range(<<>>) = {} /\ GroupedIn(<<>>) = {}
    BY DEF Init, Range, GroupedIn
  <2>2. Listing(<<>>, Scanned)
    BY DEF Listing
  <2>. QED  BY <2>1, <2>2 DEF GroupsInv, OneFamily, WholeFamilies
<1>. QED  BY <1>1, <1>2 DEF IInv

\* A step of the clustering: what it makes of the groups.
LEMMA ClusteringStep ==
  ASSUME IInv, scan' = scan, strategy' = strategy, phase = "clustering", phase' = phase,
         Listing(groups', Scanned), OneFamily(groups', FamilyOf),
         WholeFamilies(groups', Scanned, FamilyOf)
  PROVE  IInv'
<1>1. Scanned' = Scanned /\ FamilyOf' = FamilyOf
  BY ScanStays
<1>2. TypeInv' /\ BlocksInv' /\ DoneInv'
  BY DEF IInv, TypeInv, BlocksInv, DoneInv, Joining
<1>3. GroupsInv'
  BY <1>1 DEF GroupsInv, Listing
<1>. QED  BY <1>2, <1>3 DEF IInv

\* A step of the joining: the groups stay and the blocks stay of one kind.
LEMMA JoiningStep ==
  ASSUME IInv, scan' = scan, strategy' = strategy, groups' = groups,
         Settled, GroupsInv, phase \in {"clustering"} \cup Joining, phase' \in Joining,
         blocks' \in Uniform(Keys, KindOf)
  PROVE  IInv'
<1>1. Scanned' = Scanned /\ FamilyOf' = FamilyOf
  BY ScanStays
<1>2. Keys' = Keys /\ KindOf' = KindOf
  BY <1>1 DEF Keys, KindOf
<1>3. TypeInv' /\ DoneInv'
  BY DEF IInv, TypeInv, DoneInv, Joining
<1>4. GroupsInv'
  BY <1>1 DEF GroupsInv
<1>5. GroupedIn(groups') = Scanned
  BY DEF Settled
<1>6. BlocksInv'
  BY <1>1, <1>2, <1>5 DEF BlocksInv
<1>. QED  BY <1>3, <1>4, <1>6 DEF IInv

\* The last step: what the groups come to.
LEMMA DoneStep ==
  ASSUME IInv, scan' = scan, strategy' = strategy, phase' = "done",
         Listing(groups', Scanned), GroupedIn(groups') = Scanned,
         \A g \in Range(groups') : KeptApart(ToSet(g), FamilyOf, Overruled, strategy)
  PROVE  IInv'
<1>1. Scanned' = Scanned /\ FamilyOf' = FamilyOf /\ Overruled' = Overruled
  BY ScanStays
<1>2. TypeInv' /\ GroupsInv' /\ BlocksInv'
  BY DEF IInv, TypeInv, GroupsInv, BlocksInv, Joining
<1>3. DoneInv'
  BY <1>1 DEF DoneInv
<1>. QED  BY <1>2, <1>3 DEF IInv

\* Every step keeps the invariant.
LEMMA StepIInv == IInv /\ [Next]_vars => IInv'
<1>. SUFFICES ASSUME IInv, [Next]_vars PROVE IInv'
  OBVIOUS
<1>1. TypeInv /\ scan \in Scan
  BY DEF IInv, TypeInv
<1>2. phase = "clustering" => /\ Listing(groups, Scanned) /\ OneFamily(groups, FamilyOf)
                              /\ WholeFamilies(groups, Scanned, FamilyOf)
  BY DEF IInv, GroupsInv
<1>3. phase \in Joining => /\ Settled /\ GroupsInv /\ OneFamily(groups, FamilyOf)
                           /\ blocks \in Uniform(Keys, KindOf)
  BY <1>1 DEF IInv, GroupsInv, BlocksInv, Settled
<1>4. CASE GroupFuzzy
  <2>. DEFINE gs == SetToSeq({InOrderOf(scan.order, b) : b \in FuzzyBlocks})
  <2>1. /\ scan' = scan /\ strategy' = strategy /\ phase' = "done" /\ groups' = gs
        /\ strategy # "llm"
    BY <1>4 DEF GroupFuzzy
  <2>2. /\ Listing(gs, Scanned) /\ GroupedIn(gs) = Scanned
        /\ \A g \in Range(gs) : KeptApart(ToSet(g), FamilyOf, Overruled, strategy)
    BY <1>1, <2>1, FuzzyGroups
  <2>. HIDE DEF gs
  <2>. QED  BY <2>1, <2>2, DoneStep
<1>5. CASE LeaveSmallFamily
  <2>. DEFINE gs == groups \o Singles(Batch)
  <2>1. /\ scan' = scan /\ strategy' = strategy /\ phase' = phase /\ groups' = gs
        /\ phase = "clustering" /\ Clustering
    BY <1>5 DEF LeaveSmallFamily, Clustering
  <2>2. PICK family : IsBatch(Batch, family)
    BY <2>1, BatchFacts
  <2>3. Grown(gs, Batch) /\ ToSet(Batch) \subseteq GroupedIn(gs)
    BY <1>2, <2>1, <2>2, LeaveGrows
  <2>. HIDE DEF gs
  <2>4. Listing(gs, Scanned) /\ OneFamily(gs, FamilyOf) /\ WholeFamilies(gs, Scanned, FamilyOf)
    BY <1>2, <2>1, <2>2, <2>3, GrownKeeps
  <2>. QED  BY <2>1, <2>4, ClusteringStep
<1>6. CASE \E answer \in Answer : AskModel(answer)
  <2>1. PICK answer \in Answer : AskModel(answer)
    BY <1>6
  <2>. DEFINE taken == FoldLeft(Take, groups, answer)
              gs == taken \o Singles(Unclaimed(Batch, taken))
  <2>2. /\ scan' = scan /\ strategy' = strategy /\ phase' = phase /\ groups' = gs
        /\ phase = "clustering" /\ Clustering
    BY <2>1 DEF AskModel, Asking, Clustering, Unclaimed
  <2>3. PICK family : IsBatch(Batch, family)
    BY <2>2, BatchFacts
  <2>4. Grown(gs, Batch) /\ ToSet(Batch) \subseteq GroupedIn(gs)
    BY <1>2, <2>2, <2>3, AskGrows
  <2>. HIDE DEF gs
  <2>5. Listing(gs, Scanned) /\ OneFamily(gs, FamilyOf) /\ WholeFamilies(gs, Scanned, FamilyOf)
    BY <1>2, <2>2, <2>3, <2>4, GrownKeeps
  <2>. QED  BY <2>2, <2>5, ClusteringStep
<1>7. CASE ModelFails
  <2>1. scan' = scan /\ strategy' = strategy /\ phase = "clustering"
    BY <1>7 DEF ModelFails, Asking, Clustering
  <2>2. CASE groups' = <<>> /\ phase' = phase
    <3>1. Range(<<>>) = {} /\ GroupedIn(<<>>) = {}
      BY DEF Range, GroupedIn
    <3>2. Listing(<<>>, Scanned)
      BY DEF Listing
    <3>3. OneFamily(<<>>, FamilyOf) /\ WholeFamilies(<<>>, Scanned, FamilyOf)
      BY <3>1 DEF OneFamily, WholeFamilies
    <3>. QED  BY <2>1, <2>2, <3>2, <3>3, ClusteringStep
  <2>3. CASE phase' = "failed"
    BY <2>1, <2>3 DEF IInv, TypeInv, GroupsInv, BlocksInv, DoneInv, Joining
  <2>. QED  BY <1>7, <2>2, <2>3 DEF ModelFails
<1>8. CASE CollapseSignatures
  <2>1. /\ scan' = scan /\ strategy' = strategy /\ groups' = groups /\ blocks' = BySignature
        /\ phase = "clustering" /\ phase' = "people" /\ Remaining = <<>>
    BY <1>8 DEF CollapseSignatures
  <2>2. Settled
    <3>1. Scanned \subseteq GroupedIn(groups)
      BY <1>1, <2>1, RemainingFacts
    <3>2. GroupedIn(groups) \subseteq Scanned
      BY <1>2, <2>1 DEF Listing, GroupedIn, ToSet
    <3>. QED  BY <1>1, <1>2, <2>1, <3>1, <3>2 DEF Settled
  <2>3. blocks' \in Uniform(Keys, KindOf)
    BY <2>1, <2>2, SignaturesUniform
  <2>4. GroupsInv /\ phase' \in Joining
    BY <2>1 DEF IInv, Joining
  <2>. QED  BY <2>1, <2>2, <2>3, <2>4, JoiningStep
<1>9. CASE CollapsePeople \/ CollapsePlaces \/ CollapseOrganizations
  <2>1. /\ scan' = scan /\ strategy' = strategy /\ groups' = groups
        /\ phase \in Joining /\ phase' \in Joining
    BY <1>9 DEF CollapsePeople, CollapsePlaces, CollapseOrganizations, Joining
  <2>2. blocks' \in Uniform(Keys, KindOf)
    BY <1>3, <1>9, <2>1, CollapsesUniform
  <2>. QED  BY <1>3, <2>1, <2>2, JoiningStep
<1>10. CASE CollapseGroups
  <2>1. /\ scan' = scan /\ strategy' = strategy /\ groups' = Collapsed
        /\ phase \in Joining /\ phase' = "done"
    BY <1>10 DEF CollapseGroups, Joining
  <2>2. /\ Listing(Collapsed, Scanned) /\ GroupedIn(Collapsed) = Scanned
        /\ \A g \in Range(Collapsed) : KeptApart(ToSet(g), FamilyOf, Overruled, strategy)
    BY <1>3, <2>1, CollapsedFacts
  <2>. QED  BY <2>1, <2>2, DoneStep
<1>11. CASE UNCHANGED vars
  <2>1. Scanned' = Scanned /\ FamilyOf' = FamilyOf /\ Overruled' = Overruled
    BY <1>11, ScanStays DEF vars
  <2>2. Keys' = Keys /\ KindOf' = KindOf
    BY <1>11, <2>1 DEF vars, Keys, KindOf
  <2>. QED  BY <1>11, <2>1, <2>2 DEF vars, IInv, TypeInv, GroupsInv, BlocksInv, DoneInv
<1>. QED  BY <1>4, <1>5, <1>6, <1>7, <1>8, <1>9, <1>10, <1>11 DEF Next

\* The invariant, of every run of the strategies.
THEOREM GroupsAreListed == Spec => []IInv
<1>1. Init => IInv
  BY InitIInv
<1>2. IInv /\ [Next]_vars => IInv'
  BY StepIInv
<1>. QED  BY <1>1, <1>2, PTL DEF Spec

\* Every entity scanned ends in exactly one group, whatever the answers were.
THEOREM GroupedOnce == Spec => []EntitiesGroupedOnce
<1>1. IInv => EntitiesGroupedOnce
  <2>. SUFFICES ASSUME IInv, phase = "done", NEW e \in Scanned
                PROVE  Cardinality({k \in DOMAIN groups : e \in ToSet(groups[k])}) = 1
    BY DEF EntitiesGroupedOnce
  <2>1. Listing(groups, Scanned) /\ GroupedIn(groups) = Scanned
    BY DEF IInv, DoneInv
  <2>2. PICK k \in DOMAIN groups : e \in ToSet(groups[k])
    BY <2>1 DEF GroupedIn
  <2>3. \A l \in DOMAIN groups : e \in ToSet(groups[l]) => l = k
    BY <2>1, <2>2 DEF Listing
  <2>4. {l \in DOMAIN groups : e \in ToSet(groups[l])} = {k}
    BY <2>2, <2>3
  <2>. QED  BY <2>4, FS_Singleton
<1>. QED  BY <1>1, GroupsAreListed, PTL

\* No group of either strategy brings together things of different families but
\* where a type is silent or overruled.
THEOREM FamiliesStayApart == Spec => []FamiliesKeptApart
<1>1. IInv => FamiliesKeptApart
  <2>. SUFFICES ASSUME IInv, phase = "done", NEW k \in DOMAIN groups
                PROVE  LET members == ToSet(groups[k])
                           families == {Family(e) : e \in members}
                       IN  Cardinality(families) > 1 =>
                             /\ \E e \in members : Ambiguous(e)
                             /\ strategy = "llm" => families = {"place", "unknown"}
    BY DEF FamiliesKeptApart
  <2>. DEFINE members == ToSet(groups[k])
  <2>1. KeptApart(members, FamilyOf, Overruled, strategy)
    BY DEF IInv, DoneInv, Range
  <2>2. members \subseteq Scanned
    BY DEF IInv, DoneInv, GroupedIn
  <2>. HIDE DEF members
  <2>3. {Family(e) : e \in members} = {FamilyOf[e] : e \in members}
    BY <2>2 DEF FamilyOf
  <2>4. (\E e \in members : e \in Overruled) => \E e \in members : Ambiguous(e)
    BY DEF Overruled
  <2>. QED  BY <2>1, <2>3, <2>4 DEF KeptApart, members
<1>. QED  BY <1>1, GroupsAreListed, PTL
===============================================================================
