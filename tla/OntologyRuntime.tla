--------------------------- MODULE OntologyRuntime ---------------------------
(***************************************************************************)
(* ontology_runtime/: what the loaders make of the files of a pack and of  *)
(* a profile, and what validation finds in a payload under the profile.    *)
(*                                                                         *)
(* A finding is its code: severities depend on nothing else.  A payload is *)
(* a predicate and, per role, the list of its fillers; what is no list     *)
(* counts as an empty one everywhere.  A filler is an entity, a value, or  *)
(* no object at all.                                                       *)
(***************************************************************************)
EXTENDS Naturals, Sequences, FiniteSets

CONSTANTS
  PackFile,     \* PackFile[k]: the rows of pack k's files
  ProfileFile,  \* ProfileFile[p]: manifest and severity map of profile p
  EntityType,
  LookupKey,    \* LookupKey[n]: identifier n stripped and in lower case
  Unnamed,      \* a predicate that is no non-empty string
  Untyped,      \* an entity filler without a type
  Unkinded      \* a value filler without a value kind

-----------------------------------------------------------------------------
(* Loading *)

ActivePredicates(k) ==
  {row.id : row \in {r \in PackFile[k].predicates : r.status = "active"}}

RowsFor(rows, v, r) == {i \in DOMAIN rows : rows[i].predicate = v /\ rows[i].role = r}

LastOf(rows, I) == rows[CHOOSE i \in I : \A j \in I : j <= i]

PackRoles(k, v) ==
  LET edges == PackFile[k].edges
  IN  {edges[i].role : i \in {j \in DOMAIN edges : edges[j].predicate = v}}

\* The last constraint of a kind on a role is the one that counts.
Expected(k, v, kind) ==
  LET rows == SelectSeq(PackFile[k].constraints, LAMBDA row : row.kind = kind)
  IN  [r \in {rows[i].role : i \in {j \in DOMAIN rows : rows[j].predicate = v}} |->
         LastOf(rows, RowsFor(rows, v, r)).expects]

\* A role is required when one of its edges says so; its cardinality is the
\* last edge's.
PackRule(k, v) ==
  LET edges == PackFile[k].edges
      roles == PackRoles(k, v)
  IN  [allowed |-> roles,
       required |-> {r \in roles : \E i \in RowsFor(edges, v, r) : edges[i].required},
       cardinality |-> [r \in roles |-> LastOf(edges, RowsFor(edges, v, r)).count],
       types |-> Expected(k, v, "entity_type"),
       kinds |-> Expected(k, v, "value_kind")]

RuledByPack(k) == {e.predicate : e \in {PackFile[k].edges[i] : i \in DOMAIN PackFile[k].edges}}

HasAllowlist(p) == ProfileFile[p].allowed # {} \/ ProfileFile[p].pack # {}

DeclaredPredicates(p) ==
  IF ProfileFile[p].allowed # {} THEN ProfileFile[p].allowed
  ELSE UNION {ActivePredicates(k) : k \in ProfileFile[p].pack}

\* A rule of the profile replaces the pack's for that predicate as a whole.
Rules == [p \in DOMAIN ProfileFile |->
  LET own == ProfileFile[p].rules
  IN  [v \in DOMAIN own \cup UNION {RuledByPack(k) : k \in ProfileFile[p].pack} |->
         IF v \in DOMAIN own THEN own[v]
         ELSE PackRule(CHOOSE k \in ProfileFile[p].pack : TRUE, v)]]

TypeParents == [p \in DOMAIN ProfileFile |->
  [t \in EntityType |->
     {h.parent : h \in {g \in UNION {PackFile[k].hierarchy : k \in ProfileFile[p].pack} :
                          /\ ProfileFile[p].adapter = "ontology_pack"
                          /\ g.edge = "subtype_of" /\ g.child = t}}
     \cup {h.parent : h \in {g \in ProfileFile[p].overrides : g.child = t}}]]

\* Every identifier is an alias of itself; of two that differ in case only, the
\* one that happens to come last.
Seeds(ids) == [key \in {LookupKey[id] : id \in ids} |-> CHOOSE id \in ids : LookupKey[id] = key]

\* What the alias rows and the source mappings add: keys and what they stand for.
PredicateRows(k) ==
  {<<LookupKey[row.alias], row.canonical>> :
     row \in {r \in PackFile[k].aliases : r.canonical \in ActivePredicates(k)}}
  \cup {<<LookupKey[row.source], row.predicate>> : row \in PackFile[k].mappings}

RoleRows(k) ==
  {<<LookupKey[row.alias], row.canonical>> :
     row \in {r \in PackFile[k].aliases :
               r.canonical \in PackFile[k].roles \ ActivePredicates(k)}}

Unambiguous(seeds, rows) ==
  \A row \in rows :
    /\ row[1] \in DOMAIN seeds => seeds[row[1]] = row[2]
    /\ \A other \in rows : other[1] = row[1] => other[2] = row[2]

AliasMap(seeds, rows) ==
  [key \in DOMAIN seeds \cup {row[1] : row \in rows} |->
     IF key \in DOMAIN seeds THEN seeds[key] ELSE (CHOOSE row \in rows : row[1] = key)[2]]

PredicateAliases(k) == AliasMap(Seeds(ActivePredicates(k)), PredicateRows(k))

RoleAliases(k) == AliasMap(Seeds(PackFile[k].roles), RoleRows(k))

\* Edges are those of declared predicates, constraints those of predicates with
\* edges, and no alias stands for two things; other packs fail to load.
PackAccepted(k) ==
  /\ RuledByPack(k) \subseteq ActivePredicates(k)
  /\ \A i \in DOMAIN PackFile[k].edges : PackFile[k].edges[i].role \in PackFile[k].roles
  /\ \A i \in DOMAIN PackFile[k].constraints :
       /\ PackFile[k].constraints[i].predicate \in RuledByPack(k)
       /\ PackFile[k].constraints[i].role \in PackFile[k].roles
  /\ \A row \in PackFile[k].mappings : row.predicate \in ActivePredicates(k)
  /\ Unambiguous(Seeds(ActivePredicates(k)), PredicateRows(k))
  /\ Unambiguous(Seeds(PackFile[k].roles), RoleRows(k))

LoaderAccepts(p) ==
  LET file == ProfileFile[p]
  IN  /\ \A k \in file.pack : PackAccepted(k)
      /\ file.mode = "open" => ~file.proposals
      /\ file.mode = "mixed" => file.proposals
      /\ file.mode # "open" => HasAllowlist(p)
      /\ file.mode # "open" =>
           /\ "unknown_predicate" \in DOMAIN file.severity
           /\ file.severity["unknown_predicate"] = IF file.mode = "closed" THEN "hard" ELSE "soft"
      /\ file.adapter = "ontology_pack" => file.pack # {}
      /\ file.severity \in [DOMAIN file.severity -> {"hard", "soft"}]

-----------------------------------------------------------------------------
(* Entity types *)

\* The types found from t on by going up the hierarchy, level by level.
Ancestors(parents, t) ==
  LET seen[n \in 0..Cardinality(EntityType)] ==
        IF n = 0 THEN {t} ELSE seen[n - 1] \cup UNION {parents[u] : u \in seen[n - 1]}
  IN  seen[Cardinality(EntityType)]

KnownTypes == [p \in DOMAIN ProfileFile |->
  (UNION {{t} \cup TypeParents[p][t] : t \in {u \in EntityType : TypeParents[p][u] # {}}})
  \cup (UNION {{Rules[p][v].types[r] : r \in DOMAIN Rules[p][v].types} : v \in DOMAIN Rules[p]})]

HierarchyFinding(p, actual, expected) ==
  IF expected \in Ancestors(TypeParents[p], actual) THEN {}
  ELSE IF actual \notin KnownTypes[p] /\ expected \notin KnownTypes[p]
  THEN {"role_type_unknown_relationship"}
  ELSE {"role_type_violation"}

TypeFinding(p, filler, expected) ==
  IF filler.kind # "entity" THEN {}
  ELSE IF filler.type = Untyped THEN {"missing_entity_type"}
  ELSE IF ProfileFile[p].typePolicy = "skip" THEN {}
  ELSE IF ProfileFile[p].typePolicy = "hierarchical" THEN HierarchyFinding(p, filler.type, expected)
  ELSE IF filler.type = expected THEN {} ELSE {"role_type_violation"}

KindFinding(filler, expected) ==
  IF filler.kind = "none" THEN {}
  ELSE IF filler.kind = "value" /\ filler.type = Unkinded THEN {"missing_value_kind"}
  ELSE IF filler.kind = "value" /\ filler.type = expected THEN {}
  ELSE {"role_value_kind_violation"}

-----------------------------------------------------------------------------
(* Validation of a payload *)

Found(code, condition) == IF condition THEN {code} ELSE {}

FillersOf(x, r) == IF r \in DOMAIN x.roles THEN x.roles[r] ELSE <<>>

ListedFillers(x, R) == UNION {{FillersOf(x, r)[i] : i \in DOMAIN FillersOf(x, r)} : r \in R}

Runs(x) == x.predicate # Unnamed /\ DOMAIN x.roles # {}

StructureFindings(x) ==
  LET fillers == ListedFillers(x, DOMAIN x.roles)
  IN  Found("missing_predicate", x.predicate = Unnamed)
      \cup Found("missing_roles", DOMAIN x.roles = {})
      \cup Found("missing_role_fillers", \E r \in DOMAIN x.roles : x.roles[r] = <<>>)
      \cup Found("invalid_role_filler", \E f \in fillers : f.kind = "none")
      \cup Found("missing_entity_id", \E f \in fillers : f.kind = "entity" /\ f.id = "missing")
      \cup Found("noncanonical_entity_id", \E f \in fillers : f.kind = "entity" /\ f.id = "foreign")

Admits(count, n) == count.min <= n /\ \A m \in count.max : n <= m

\* allowed: the predicates the profile knows, its overlay included.  Of one it
\* does not know nothing but that is looked at, whatever its rule says.
RuleFindings(p, x, allowed) ==
  IF x.predicate \notin allowed
  THEN Found("unknown_predicate", ProfileFile[p].mode # "open")
  ELSE IF x.predicate \notin DOMAIN Rules[p] THEN {}
  ELSE LET rule == Rules[p][x.predicate]
       IN  Found("disallowed_role", rule.allowed # {} /\ ~(DOMAIN x.roles \subseteq rule.allowed))
           \cup Found("missing_required_role", \E r \in rule.required : FillersOf(x, r) = <<>>)
           \cup Found("role_cardinality_violation",
                      \E r \in DOMAIN rule.cardinality :
                        ~Admits(rule.cardinality[r], Len(FillersOf(x, r))))

\* Types and value kinds are looked at even of a predicate that is not allowed.
FillerFindings(p, x) ==
  IF x.predicate \notin DOMAIN Rules[p] THEN {}
  ELSE LET rule == Rules[p][x.predicate]
           TypesOf(r) == {TypeFinding(p, f, rule.types[r]) : f \in ListedFillers(x, {r})}
           KindsOf(r) == {KindFinding(f, rule.kinds[r]) : f \in ListedFillers(x, {r})}
       IN  UNION ((UNION {TypesOf(r) : r \in DOMAIN rule.types})
                  \cup (UNION {KindsOf(r) : r \in DOMAIN rule.kinds}))

Findings(p, x, allowed) ==
  StructureFindings(x)
  \cup (IF Runs(x) THEN RuleFindings(p, x, allowed) \cup FillerFindings(p, x) ELSE {})

SoftByDefault ==
  {"noncanonical_entity_id", "role_cardinality_violation", "role_type_unknown_relationship"}

SeverityOf(p, code) ==
  IF code \in DOMAIN ProfileFile[p].severity THEN ProfileFile[p].severity[code]
  ELSE IF code \in SoftByDefault THEN "soft" ELSE "hard"

=============================================================================
