--------------------------- MODULE ClusterResolution ---------------------------
(***************************************************************************)
(* How a run of core/auto_resolution.py forms its groups under the fuzzy   *)
(* and the LLM strategy; Identity models what the run then does with a     *)
(* group.  A mention is the entity with what the code reads off its type   *)
(* and its name; the text of names is abstracted to these readings.        *)
(*                                                                         *)
(* The LLM strategy asks a model once per resolution family.  The answer   *)
(* is any list of clusters: they may overlap, leave entities out, and name *)
(* entities of another family.  The code guards every cluster, and in the  *)
(* end collapses groups that share a signature or a bridge.  The fuzzy     *)
(* pre-filter only changes what the model is shown.                        *)
(***************************************************************************)
EXTENDS Lists

CONSTANTS
  Scan,         \* what the reads of a run may have found, see ScanAssumption
  None,         \* a reading the name does not give
  MinEntities,  \* min_entities_for_llm
  MaxCluster,   \* bounds on the answers tried: entities per cluster,
  MaxClusters   \* clusters per answer

Slugs == {"person", "organization", "place", "rank", "entity", "unknown", "untyped"}

\* What the name looks like, of the forms the code tests for in this order.
Looks == {"rank", "installation", "person", "organization", "other"}

ASSUME ScanAssumption ==
  \A s \in Scan :
    /\ DOMAIN s = {"order", "mention", "similar"}
    /\ s.order \in Seq(ToSet(s.order))
    /\ IsInjective(s.order)
    /\ DOMAIN s.mention = ToSet(s.order)
    /\ s.similar \subseteq ToSet(s.order) \X ToSet(s.order)
    /\ \A e \in ToSet(s.order) :
         /\ s.mention[e].slug \in Slugs
         /\ s.mention[e].looks \in Looks

ASSUME BoundAssumption == MaxCluster \in Nat /\ MaxClusters \in Nat

VARIABLES
  scan,      \* order: entity ids by age; mention: their readings; similar: name pairs
  strategy,
  attempt,   \* 1: with the configuration, 2: with the defaults
  groups,    \* all_groups: sequences of entities, in order of insertion
  blocks,    \* what union has joined: a partition of the keys of groups
  phase

vars == <<scan, strategy, attempt, groups, blocks, phase>>

Scanned == ToSet(scan.order)
Mention(e) == scan.mention[e]
GroupedIn(gs) == UNION {ToSet(gs[k]) : k \in DOMAIN gs}
Singles(seq) == [k \in DOMAIN seq |-> <<seq[k]>>]

Init ==
  /\ scan \in Scan
  /\ strategy \in {"fuzzy", "llm"}
  /\ attempt = 1
  /\ groups = <<>>
  /\ blocks = {}
  /\ phase = "clustering"

-----------------------------------------------------------------------------
(* Families, partitions *)

\* _resolution_type_family: by the type alone.
TypeFamily(e) == IF Mention(e).slug = "untyped" THEN "unknown" ELSE Mention(e).slug

Generic(e) == TypeFamily(e) \in {"entity", "unknown"}

\* _entity_resolution_family: the name may overrule the type.
Family(e) ==
  CASE Mention(e).slug = "rank" /\ Mention(e).looks # "rank" -> "person"
    [] Mention(e).looks = "installation" -> "place"
    [] Generic(e) /\ Mention(e).looks = "person" -> "person"
    [] Generic(e) /\ Mention(e).looks = "organization" -> "organization"
    [] OTHER -> TypeFamily(e)

\* union: the blocks of two members become one.
Merge(bs, x, y) ==
  LET touched == {b \in bs : b \cap {x, y} # {}}
  IN  (bs \ touched) \cup {UNION touched}

Joined(bs, pairs) == FoldSet(LAMBDA p, acc : Merge(acc, p[1], p[2]), bs, pairs)

\* The roots find returns for keys, one per block.
Roots(bs, keys) == {b \in bs : b \cap keys # {}}

Discrete(S) == {{x} : x \in S}

\* Members of a block, in the order of seq.
InOrderOf(seq, block) == Only(seq, LAMBDA x : x \in block)

-----------------------------------------------------------------------------
(* The fuzzy strategy *)

Compatible(e, f) ==
  \/ Mention(e).slug = "untyped"
  \/ Mention(f).slug = "untyped"
  \/ Mention(e).slug = Mention(f).slug
  \/ Family(e) = Family(f)

\* The guard is on pairs, the groups are the transitive closure.
FuzzyBlocks ==
  Joined(Discrete(Scanned), {p \in scan.similar : Compatible(p[1], p[2])})

GroupFuzzy ==
  /\ strategy = "fuzzy"
  /\ phase = "clustering"
  /\ groups' = SetToSeq({InOrderOf(scan.order, b) : b \in FuzzyBlocks})
  /\ phase' = "done"
  /\ UNCHANGED <<scan, strategy, attempt, blocks>>

-----------------------------------------------------------------------------
(* The LLM strategy: one call per family *)

Remaining ==
  LET grouped == GroupedIn(groups)
  IN  Only(scan.order, LAMBDA e : e \notin grouped)

\* The next family is the one of the earliest entity not grouped yet.
Batch ==
  LET family == Family(Remaining[1])
  IN  Only(scan.order, LAMBDA e : Family(e) = family)

Clustering == strategy = "llm" /\ phase = "clustering" /\ Remaining # <<>>

\* The defaults ask a model for two entities and more.
Least == IF attempt = 1 THEN MinEntities ELSE 2

Asking == Clustering /\ Len(Batch) >= Least

LeaveSmallFamily ==
  /\ Clustering
  /\ Len(Batch) < Least
  /\ groups' = groups \o Singles(Batch)
  /\ UNCHANGED <<scan, strategy, attempt, blocks, phase>>

\* The given names of members, and the one a mention goes with: its own, or the
\* only one its initial fits.
Givens(members) == {Mention(e).given : e \in members} \ {None}

Fitting(members, e) ==
  {g \in Givens(members) :
     \E f \in members : Mention(f).given = g /\ Mention(f).initial = Mention(e).initial}

Anchor(members, e) ==
  IF Mention(e).given # None THEN {Mention(e).given}
  ELSE IF Mention(e).initial # None /\ Cardinality(Fitting(members, e)) = 1
       THEN Fitting(members, e)
       ELSE {}

\* Members of a cluster with one surname, by their given names.
SplitByGiven(block) ==
  LET members == ToSet(block)
      Anchored(given) == Only(block, LAMBDA e : Anchor(members, e) = given)
  IN  IF Cardinality(Givens(members)) <= 1 THEN <<block>>
      ELSE SetToSeq({Anchored({g}) : g \in Givens(members)}) \o Singles(Anchored({}))

BlockKey(e) == IF Mention(e).surname = None THEN e ELSE Mention(e).surname

\* _postprocess_llm_cluster: clusters of people, by the type of the first, are
\* split by surname and given name.
Guarded(cluster) ==
  LET once == Thin(cluster, {k \in DOMAIN cluster : \A j \in 1..(k - 1) : cluster[j] # cluster[k]})
      bySurname == {Only(once, LAMBDA f : BlockKey(f) = BlockKey(e)) : e \in ToSet(once)}
  IN  IF Len(cluster) < 2 \/ TypeFamily(cluster[1]) # "person" THEN <<cluster>>
      ELSE FlattenSeq(SetToSeq({SplitByGiven(b) : b \in bySurname}))

\* Only entities of the batch that no earlier cluster claimed count.
Take(gs, cluster) ==
  LET open == ToSet(Batch) \ GroupedIn(gs)
      valid == Only(cluster, LAMBDA e : e \in open)
  IN  IF valid = <<>> THEN gs ELSE gs \o Guarded(valid)

\* Bound: only clusters of two are tried that name an entity twice.
Answer ==
  BoundedSeq({c \in BoundedSeq(Scanned, MaxCluster) : Len(c) <= 2 \/ IsInjective(c)},
             MaxClusters)

AskModel(answer) ==
  /\ Asking
  /\ LET taken == FoldLeft(Take, groups, answer)
         claimed == GroupedIn(taken)
     IN  groups' = taken \o Singles(Only(Batch, LAMBDA e : e \notin claimed))
  /\ UNCHANGED <<scan, strategy, attempt, blocks, phase>>

\* An error of the model, the prompt or the parser under the configuration
\* starts the grouping over with the defaults; the second is the caller's.
ModelFails ==
  /\ Asking
  /\ \/ /\ attempt = 1
        /\ attempt' = 2
        /\ groups' = <<>>
        /\ UNCHANGED phase
     \/ /\ attempt = 2
        /\ phase' = "failed"
        /\ UNCHANGED <<attempt, groups>>
  /\ UNCHANGED <<scan, strategy, blocks>>

-----------------------------------------------------------------------------
(* _collapse_equivalent_llm_groups: keys are the places of groups *)

Keys == DOMAIN groups
GroupFamily(k) == Family(groups[k][1])
In(k) == ToSet(groups[k])
Readings(k, field) == {Mention(e)[field] : e \in In(k)} \ {None}

\* The orders in which a dictionary may hold the labels: by the first key a label
\* occurs at, and as a set iterates where that is the same.
ByFirstKey(keysOf) ==
  {order \in SetToSeqs({l \in DOMAIN keysOf : keysOf[l] # {}}) :
     \A m, n \in DOMAIN order : m < n => Min(keysOf[order[m]]) <= Min(keysOf[order[n]])}

Signatures(k) ==
  IF GroupFamily(k) = "person"
  THEN {<<Mention(e).given, Mention(e).surname>> :
          e \in {f \in In(k) : Mention(f).given # None /\ Mention(f).surname # None}}
  ELSE UNION {Mention(e).signs : e \in In(k)}

BySignature ==
  Joined(Discrete(Keys),
         {p \in Keys \X Keys :
            /\ p[1] < p[2]
            /\ GroupFamily(p[1]) = GroupFamily(p[2])
            /\ Signatures(p[1]) \cap Signatures(p[2]) # {}})

\* _person_group_bridge_info: groups of people who all have one surname.
PersonKeys(surname) ==
  {k \in Keys : GroupFamily(k) = "person" /\ Readings(k, "surname") = {surname}}

Titled(k) == {e \in In(k) : Mention(e).titled}
FullGivens(k) == Readings(k, "given")
TitledGivens(k) == {Mention(e).given : e \in Titled(k)} \ {None}
TitledInitials(k) == {Mention(e).initial : e \in Titled(k)} \ {None}
TitledSurnameOnly(k) ==
  \E e \in Titled(k) : Mention(e).surname # None /\ Mention(e).initial = None

AnchorInitials(k) ==
  IF TitledInitials(k) # {} THEN TitledInitials(k)
  ELSE {Mention(e).initial : e \in {f \in In(k) : Mention(f).given # None}}

\* A titled initial or a titled bare surname goes with the one group it can
\* mean: a titled full name, or the one untitled full name there is.
BridgePeople(bs, surname) ==
  LET keys == PersonKeys(surname)
      titled == {k \in keys : TitledGivens(k) # {}}
      full == {k \in keys : FullGivens(k) # {}}
      oneFull == Cardinality(Roots(bs, full)) = 1
      anchors == IF titled = {} /\ oneFull THEN full ELSE titled
      ForInitial(k) == {a \in anchors : TitledInitials(k) \cap AnchorInitials(a) # {}}
      initials ==
        {p \in {k \in keys : TitledInitials(k) # {} /\ TitledGivens(k) = {}} \X anchors :
           ForInitial(p[1]) = {p[2]}}
      ForSurname(k) ==
        {a \in anchors :
           /\ FullGivens(k) # {} => FullGivens(k) \cap TitledGivens(a) # {}
           /\ FullGivens(k) = {} /\ Readings(k, "initial") # {} =>
                Readings(k, "initial") \cap TitledInitials(a) # {}}
      surnames ==
        {p \in {k \in keys : TitledSurnameOnly(k)} \X anchors : ForSurname(p[1]) = {p[2]}}
  IN  Joined(bs,
             initials \cup IF oneFull \/ Cardinality(Roots(bs, titled)) = 1
                           THEN surnames ELSE {})

PlaceKeys == {k \in Keys : GroupFamily(k) \in {"place", "unknown"}}
HeadKeys(head) == {k \in PlaceKeys : GroupFamily(k) = "place" /\ head \in Readings(k, "head")}

\* Mutant: district names collapse whatever family bears them.
BridgeAnyPlace(bs, head) ==
  LET heads == HeadKeys(head)
  IN  IF Cardinality(Roots(bs, heads)) # 1 THEN bs
      ELSE Joined(bs,
             {k \in Keys : head \in Readings(k, "token") \/ TRUE \in Readings(k, "dc")}
               \X {Min(heads)})

\* "Washington" and "DC" go with the one district they can mean.
BridgePlaces(bs, head) ==
  LET heads == HeadKeys(head)
  IN  IF Cardinality(Roots(bs, heads)) # 1 THEN bs
      ELSE Joined(bs,
             {k \in PlaceKeys : head \in Readings(k, "token") \/ TRUE \in Readings(k, "dc")}
               \X {Min(heads)})

OrganizationKeys == {k \in Keys : GroupFamily(k) = "organization"}
SurfaceKeys(d) == {k \in OrganizationKeys : d \in Readings(k, "descriptor")}
ContextKeys(d) == {k \in OrganizationKeys : d \in Readings(k, "attested")}

\* "the Command" goes with the one group whose text speaks of the command.
BridgeDescriptors(bs, d) ==
  IF /\ Cardinality(Roots(bs, SurfaceKeys(d))) = 1
     /\ Cardinality(Roots(bs, ContextKeys(d))) = 1
  THEN Merge(bs, Min(SurfaceKeys(d)), Min(ContextKeys(d)))
  ELSE bs

AllReadings(field) == UNION {Readings(k, field) : k \in Keys}

CollapseSignatures ==
  /\ strategy = "llm"
  /\ phase = "clustering"
  /\ Remaining = <<>>
  /\ blocks' = BySignature
  /\ phase' = "people"
  /\ UNCHANGED <<scan, strategy, attempt, groups>>

CollapsePeople ==
  /\ phase = "people"
  /\ \E order \in ByFirstKey([l \in AllReadings("surname") |-> PersonKeys(l)]) :
       blocks' = FoldLeft(BridgePeople, blocks, order)
  /\ phase' = "places"
  /\ UNCHANGED <<scan, strategy, attempt, groups>>

CollapsePlaces ==
  /\ phase = "places"
  /\ \E order \in ByFirstKey([l \in AllReadings("head") |-> HeadKeys(l)]) :
       blocks' = FoldLeft(BridgePlaces, blocks, order)
  /\ phase' = "organizations"
  /\ UNCHANGED <<scan, strategy, attempt, groups>>

CollapseOrganizations ==
  /\ phase = "organizations"
  /\ \E order \in ByFirstKey([l \in AllReadings("descriptor") |-> SurfaceKeys(l)]) :
       blocks' = FoldLeft(BridgeDescriptors, blocks, order)
  /\ phase' = "joined"
  /\ UNCHANGED <<scan, strategy, attempt, groups>>

\* The members of a block follow each other in the order of its keys.
BlockMembers(b) == FlattenSeq(Thin(groups, b))

\* Mutant: the collapsed groups are stored under every key, not under its root.
CollapsedPerKey ==
  [k \in Keys |-> BlockMembers(CHOOSE b \in blocks : k \in b)]

Collapsed == SetToSeq({BlockMembers(b) : b \in blocks})

CollapseGroups ==
  /\ phase = "joined"
  /\ groups' = Collapsed
  /\ blocks' = {}
  /\ phase' = "done"
  /\ UNCHANGED <<scan, strategy, attempt>>

Next ==
  \/ GroupFuzzy
  \/ LeaveSmallFamily
  \/ \E answer \in Answer : AskModel(answer)
  \/ ModelFails
  \/ CollapseSignatures
  \/ CollapsePeople
  \/ CollapsePlaces
  \/ CollapseOrganizations
  \/ CollapseGroups

Spec == Init /\ [][Next]_vars

-----------------------------------------------------------------------------
(* Properties *)

\* Whatever the model answers, overlapping clusters, entities left out or of
\* another family, a first attempt given up: every entity scanned is in exactly
\* one group, so that the calls that follow resolve each of them, once.
EntitiesGroupedOnce ==
  phase = "done" =>
    \A e \in Scanned : Cardinality({k \in DOMAIN groups : e \in ToSet(groups[k])}) = 1

\* The type is silent or the name overrules it.
Ambiguous(e) == TypeFamily(e) = "unknown" \/ Family(e) # TypeFamily(e)

\* The false-positive guard through all joins, which are transitive while the
\* guard is on pairs: the LLM strategy brings nothing together across families
\* but places and mentions of unknown kind, and under either strategy a group
\* spans families only where a member's type is silent or overruled.
FamiliesKeptApart ==
  phase = "done" =>
    \A k \in DOMAIN groups :
      LET members == ToSet(groups[k])
          families == {Family(e) : e \in members}
      IN  Cardinality(families) > 1 =>
            /\ \E e \in members : Ambiguous(e)
            /\ strategy = "llm" => families = {"place", "unknown"}

\* docs/plans/0036 on the bridge logic: it must not merge two incompatible
\* explicit full person names only because they share a surname and title.
GivenNamesKeptApart ==
  strategy = "llm" /\ phase = "done" =>
    \A k \in DOMAIN groups : \A e, f \in ToSet(groups[k]) :
      (/\ TypeFamily(e) = "person" /\ TypeFamily(f) = "person"
       /\ Mention(e).surname = Mention(f).surname
       /\ None \notin {Mention(e).given, Mention(f).given})
      => Mention(e).given = Mention(f).given
=============================================================================
