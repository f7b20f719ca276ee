----------------------------- MODULE GraphExport -----------------------------
(***************************************************************************)
(* export_for_digimon: the promoted graph as nodes and relationships, for  *)
(* a consumer that knows nothing of assertions.                            *)
(*                                                                         *)
(* The export selects the assertions, then the entities, then the fillers  *)
(* of one assertion after the other, on one connection but in no           *)
(* transaction: promotions and rewrites commit in between.  It writes      *)
(* nothing, so one export at a time is as good as many.                    *)
(*                                                                         *)
(* A node and the ends of a relationship are labelled through one map of   *)
(* entity identifiers, built from the listed bodies; they are told apart   *)
(* by the entity here.  Weight, claim text and provenance are left out.    *)
(***************************************************************************)
EXTENDS GraphPromotion

CONSTANTS ARG0, ARG1   \* the roles that become source and target

VARIABLE export   \* what the export under way has read and made of it

Relationship ==
  [assertion : CandidateId, name : Predicate,
   src : EntityId \cup {NoEntity}, tgt : EntityId \cup {NoEntity}]

ListedTask == [op : {"entities"}, listed : [CandidateId -> Body \cup {NoRow}]]

FillersTask ==
  [op : {"fillers"}, listed : [CandidateId -> Body \cup {NoRow}],
   nodes : SUBSET EntityId, left : SUBSET CandidateId,
   relationships : SUBSET Relationship]

ExportTask == {Idle} \cup ListedTask \cup FillersTask

ExportInit ==
  /\ Init
  /\ export = Idle

-----------------------------------------------------------------------------
(* One relationship per assertion *)

Rows(listed) == {c \in CandidateId : listed[c] # NoRow}

EntityFillers(S, r) == {s \in S : s.role = r /\ s.entity # NoEntity}

EntityRoles(S) == {r \in Role : EntityFillers(S, r) # {}}

\* The first entity of a role; a missing end is the empty string.
EntityByRole(S, r) ==
  LET T == EntityFillers(S, r)
  IN  IF T = {} THEN NoEntity ELSE (CHOOSE s \in T : IsFirstOf(s, T)).entity

\* The nth of the sorted roles that have an entity, if there are so many.
NthRole(S, n) ==
  {r \in EntityRoles(S) :
     Cardinality({q \in EntityRoles(S) : RoleRank[q] < RoleRank[r]}) = n - 1}

\* Mutant: an assertion is expected to have one of the two roles.
EndRolesNumbered(S) == <<{ARG0}, {ARG1}>>

\* Source and target; whatever roles there are serve if it has neither.
EndRoles(S) ==
  IF EntityRoles(S) \cap {ARG0, ARG1} # {} THEN <<{ARG0}, {ARG1}>>
  ELSE <<NthRole(S, 1), NthRole(S, 2)>>

End(S, roles) == IF roles = {} THEN NoEntity ELSE EntityByRole(S, CHOOSE r \in roles : TRUE)

\* An assertion over values alone becomes no relationship.
ConvertRelationship(c, b, S) ==
  IF EntityRoles(S) = {} THEN {}
  ELSE {[assertion |-> c, name |-> b.predicate,
         src |-> End(S, EndRoles(S)[1]), tgt |-> End(S, EndRoles(S)[2])]}

-----------------------------------------------------------------------------
(* export_for_digimon *)

\* Mutant: the body is taken from the candidate.
ListedBodyAsFiled(c) == IF assertions[c] = NoRow THEN NoRow ELSE Payload[c]

ListedBody(c) == assertions[c]

ExportAssertions ==
  /\ export = Idle
  /\ export' = [op |-> "entities", listed |-> [c \in CandidateId |-> ListedBody(c)]]
  /\ UNCHANGED vars

ExportEntities ==
  /\ export.op = "entities"
  /\ export' = [op |-> "fillers", listed |-> export.listed,
                nodes |-> {e \in EntityId : entities[e] # NoRow},
                left |-> Rows(export.listed), relationships |-> {}]
  /\ UNCHANGED vars

\* Assertions come in the order of their promotion; here in any.
ExportFillers(c) ==
  /\ export.op = "fillers"
  /\ c \in export.left
  /\ export' = [export EXCEPT
       !.left = @ \ {c},
       !.relationships = @ \cup ConvertRelationship(c, export.listed[c], fillers[c])]
  /\ UNCHANGED vars

Exported == export.op = "fillers" /\ export.left = {}

\* The bundle is returned; or the process dies.
ExportEnd ==
  /\ export # Idle
  /\ export' = Idle
  /\ UNCHANGED vars

ExportOn ==
  \/ ExportEntities
  \/ \E c \in CandidateId : ExportFillers(c)
  \/ ExportEnd

ExportNext ==
  \/ Next /\ UNCHANGED export
  \/ ExportAssertions
  \/ ExportOn

exportVars == <<vars, export>>

ExportSpec == ExportInit /\ [][ExportNext]_exportVars

\* An export that was begun ends, and repair is asked for again and again.
FairExportSpec == ExportSpec /\ RepairFairness /\ WF_exportVars(ExportOn)

-----------------------------------------------------------------------------
(* Properties *)

RelationshipsOf(c) == {r \in export.relationships : r.assertion = c}

\* R is what a bundle with these nodes has to say of a promoted assertion: one
\* relationship if it was filed with an entity, with an end, and every end is a
\* node of the bundle and an entity the candidate was filed with.
RelationshipSound(c, R, nodes) ==
  /\ \A r, q \in R : r = q
  /\ R # {} <=> Mentions(Payload[c].slots) # {}
  /\ \A r \in R :
       /\ {r.src, r.tgt} # {NoEntity}
       /\ {r.src, r.tgt} \ {NoEntity} \subseteq nodes \cap Mentions(Payload[c].slots)

\* Whatever is promoted and rewritten while an export reads on, its bundle is a
\* graph over the listed assertions: no relationship is lost, doubled, without an
\* end or with one that is no node, and no other assertion has any.
ExportIsGraph ==
  Exported => \A c \in CandidateId :
    IF c \in Rows(export.listed) THEN RelationshipSound(c, RelationshipsOf(c), export.nodes)
    ELSE RelationshipsOf(c) = {}

\* As long as somebody keeps asking for repair, the bundles come to say of every
\* assertion that can be canonicalized what its canonical form says: exports that
\* joined an old body with new fillers, or stray ones, die out.
ExportSettles ==
  \A c \in CandidateId : Canonicalizable(Payload[c]) =>
    LET b == CanonicalizeBody(Payload[c])
    IN  <>[](Exported => RelationshipsOf(c) \subseteq ConvertRelationship(c, b, b.slots))

\* Repair prevails in the graph and in what is exported from it.
RepairPrevails == GraphConverges /\ ExportSettles

-----------------------------------------------------------------------------
(* The inductive invariant *)

\* What an export under way has read: bodies of promoted assertions, then all of
\* their entities, then for each assertion that is done its relationship.
ExportInv ==
  /\ export \in ExportTask
  /\ export.op \in {"entities", "fillers"} =>
       \A c \in Rows(export.listed) : assertions[c] # NoRow
  /\ export.op = "fillers" =>
       /\ export.left \subseteq Rows(export.listed)
       /\ \A c \in Rows(export.listed) : Mentions(Payload[c].slots) \subseteq export.nodes
       /\ \A r \in export.relationships : r.assertion \in Rows(export.listed) \ export.left
       /\ \A c \in Rows(export.listed) \ export.left :
            RelationshipSound(c, RelationshipsOf(c), export.nodes)
=============================================================================
