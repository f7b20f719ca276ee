------------------------------- MODULE Identity -------------------------------
(***************************************************************************)
(* Stable identities over the promoted entities of core/, made by hand or  *)
(* by automatic resolution with the exact-name strategy.  identity_id is a *)
(* digest of the entity an identity was created for, so identities are     *)
(* keyed by that entity.                                                   *)
(*                                                                         *)
(* Each service call reads in autocommitted SELECTs and then writes in one *)
(* transaction (see ReviewWorkflow).  A resolution run is a scan of the    *)
(* graph, in two SELECTs, followed by one service call per group and one   *)
(* per further member, each its own transaction.                           *)
(***************************************************************************)
EXTENDS Naturals, FiniteSets

CONSTANTS
  Worker,     \* concurrent processes
  EntityId,
  NameOf,     \* NameOf[e]: normalized name e is first mentioned by
  Name,
  Actor,      \* people who create identities and attach aliases
  Resolver,       \* ACTOR_ID of automatic resolution
  Reference,  \* external references, resolved or not, with provider and actor
  NoRow

ASSUME NameAssumption == NameOf \in [EntityId -> Name]

ASSUME EntityAssumption == IsFiniteSet(EntityId)

\* An entity without a name is grouped by its own identifier.
ASSUME KeyAssumption == Name \cap EntityId = {}

Author == Actor \cup {Resolver}

Membership ==
  [identity : EntityId, kind : {"canonical", "alias"}, by : Author]

ASSUME SentinelAssumption ==
  /\ Resolver \notin Actor
  /\ NoRow \notin Author \cup Membership

\* What resolution takes to be one thing; the earliest member comes first.
Group == [first : EntityId, rest : SUBSET EntityId]

Idle == [op |-> "idle"]
CreateTask == [op : {"create"}, entity : EntityId, by : Author]
AttachTask == [op : {"attach"}, identity : EntityId, entity : EntityId, by : Author]
ReferenceTask == [op : {"reference"}, identity : EntityId, reference : Reference]
ScanTask == [op : {"scan"}, named : SUBSET EntityId]
GroupsTask == [op : {"groups"}, left : SUBSET Group]
CanonicalTask == [op : {"canonical"}, left : SUBSET Group, group : Group]
AliasesTask ==
  [op : {"aliases"}, left : SUBSET Group, identity : EntityId, rest : SUBSET EntityId]
AliasTask ==
  [op : {"alias"}, left : SUBSET Group, identity : EntityId, rest : SUBSET EntityId,
   entity : EntityId]

Task ==
  {Idle} \cup CreateTask \cup AttachTask \cup ReferenceTask \cup ScanTask
         \cup GroupsTask \cup CanonicalTask \cup AliasesTask \cup AliasTask

VARIABLES
  born,        \* born[e]: place of e by created_at in promoted_graph_entities, or 0
  identities,  \* graph_identities: created_by, by primary key
  membership,  \* graph_identity_memberships (UNIQUE entity_id)
  references,  \* graph_external_references: copies of each, no UNIQUE
  task         \* task[w]: the call process w is in, and what it read

tables == <<identities, membership, references>>
vars == <<born, identities, membership, references, task>>

TypeOK ==
  /\ born \in [EntityId -> Nat]
  /\ identities \in [EntityId -> Author \cup {NoRow}]
  /\ membership \in [EntityId -> Membership \cup {NoRow}]
  /\ references \in [EntityId -> [Reference -> Nat]]
  /\ task \in [Worker -> Task]

Init ==
  /\ born = [e \in EntityId |-> 0]
  /\ identities = [e \in EntityId |-> NoRow]
  /\ membership = [e \in EntityId |-> NoRow]
  /\ references = [e \in EntityId |-> [r \in Reference |-> 0]]
  /\ task = [w \in Worker |-> Idle]

Promoted == {e \in EntityId : born[e] # 0}

\* An assertion that mentions e is promoted, the call of another service.
Promote(e) ==
  /\ born[e] = 0
  /\ born' = [born EXCEPT ![e] = Cardinality(Promoted) + 1]
  /\ UNCHANGED <<tables, task>>

-----------------------------------------------------------------------------
(* What a call writes, under the lock *)

\* Mutant: an entity that was attached elsewhere meanwhile loses only its
\* membership, the new identity is kept.
CreateIdentityUnguarded(e, by) ==
  /\ identities[e] = NoRow
  /\ identities' = [identities EXCEPT ![e] = by]
  /\ membership' = IF membership[e] = NoRow
       THEN [membership EXCEPT ![e] = [identity |-> e, kind |-> "canonical", by |-> by]]
       ELSE membership

\* insert_identity and insert_membership
CreateIdentity(e, by) ==
  /\ identities[e] = NoRow
  /\ membership[e] = NoRow
  /\ identities' = [identities EXCEPT ![e] = by]
  /\ membership' = [membership EXCEPT ![e] =
       [identity |-> e, kind |-> "canonical", by |-> by]]

\* Somebody has created the same identity meanwhile: both rows are returned.
SameIdentity(e, by) ==
  /\ identities[e] = by
  /\ membership[e] = [identity |-> e, kind |-> "canonical", by |-> by]

\* Mutant: graph_identity_memberships.entity_id without its UNIQUE constraint.
AttachAliasReplacing(i, e, by) ==
  membership' = [membership EXCEPT ![e] = [identity |-> i, kind |-> "alias", by |-> by]]

AttachAlias(i, e, by) ==
  /\ membership[e] = NoRow
  /\ membership' = [membership EXCEPT ![e] = [identity |-> i, kind |-> "alias", by |-> by]]

-----------------------------------------------------------------------------
(* create_identity_for_entity, attach_entity_alias, external references *)

\* An entity that has an identity is answered with it.
CreateRead(w, e, by) ==
  /\ task[w] = Idle
  /\ e \in Promoted
  /\ membership[e] = NoRow
  /\ task' = [task EXCEPT ![w] = [op |-> "create", entity |-> e, by |-> by]]
  /\ UNCHANGED <<born, tables>>

CreateCommit(w) ==
  /\ task[w].op = "create"
  /\ CreateIdentity(task[w].entity, task[w].by)
  /\ task' = [task EXCEPT ![w] = Idle]
  /\ UNCHANGED <<born, references>>

\* A membership of the same identity and content is returned, any other one
\* refuses the call.
AttachRead(w, i, e, by) ==
  /\ task[w] = Idle
  /\ identities[i] # NoRow
  /\ e \in Promoted
  /\ membership[e] = NoRow
  /\ task' = [task EXCEPT ![w] =
       [op |-> "attach", identity |-> i, entity |-> e, by |-> by]]
  /\ UNCHANGED <<born, tables>>

AttachCommit(w) ==
  /\ task[w].op = "attach"
  /\ AttachAlias(task[w].identity, task[w].entity, task[w].by)
  /\ task' = [task EXCEPT ![w] = Idle]
  /\ UNCHANGED <<born, identities, references>>

ReferenceUnknown(i, r) == references[i][r] = 0

ReferenceRead(w, i, r) ==
  /\ task[w] = Idle
  /\ identities[i] # NoRow
  /\ ReferenceUnknown(i, r)
  /\ task' = [task EXCEPT ![w] = [op |-> "reference", identity |-> i, reference |-> r]]
  /\ UNCHANGED <<born, tables>>

ReferenceCommit(w) ==
  /\ task[w].op = "reference"
  /\ references' = [references EXCEPT ![task[w].identity][task[w].reference] = @ + 1]
  /\ task' = [task EXCEPT ![w] = Idle]
  /\ UNCHANGED <<born, identities, membership>>

-----------------------------------------------------------------------------
(* auto_resolve_identities *)

\* First SELECT: the assertions, which carry the names.
ResolveAssertions(w) ==
  /\ task[w] = Idle
  /\ task' = [task EXCEPT ![w] = [op |-> "scan", named |-> Promoted]]
  /\ UNCHANGED <<born, tables>>

Key(e, named) == IF e \in named THEN NameOf[e] ELSE e

\* Mutant: the key is normalized down to nothing.
MembersUnkeyed(e, named) == Promoted

Members(e, named) == {f \in Promoted : Key(f, named) = Key(e, named)}

Earliest(S) == CHOOSE e \in S : \A f \in S : born[e] <= born[f]

GroupOf(e, named) ==
  LET members == Members(e, named)
  IN  [first |-> Earliest(members), rest |-> members \ {Earliest(members)}]

\* What is left to do: the rest of a group with identity i, then other groups.
NextGroup(left) == IF left = {} THEN Idle ELSE [op |-> "groups", left |-> left]

NextMember(left, i, rest) ==
  IF rest = {} THEN NextGroup(left)
  ELSE [op |-> "aliases", left |-> left, identity |-> i, rest |-> rest]

\* Second SELECT: the entities, in order of creation.
ResolveEntities(w) ==
  /\ task[w].op = "scan"
  /\ task' = [task EXCEPT ![w] =
       NextGroup({GroupOf(e, task[w].named) : e \in Promoted})]
  /\ UNCHANGED <<born, tables>>

\* The first member's identity is found, its own or one it is an alias in.
\* (Groups are taken in an order of their keys; here in any.)
ResolveReuse(w, g) ==
  /\ task[w].op = "groups"
  /\ g \in task[w].left
  /\ membership[g.first] # NoRow
  /\ task' = [task EXCEPT ![w] =
       NextMember(@.left \ {g}, membership[g.first].identity, g.rest)]
  /\ UNCHANGED <<born, tables>>

ResolveCreateRead(w, g) ==
  /\ task[w].op = "groups"
  /\ g \in task[w].left
  /\ membership[g.first] = NoRow
  /\ task' = [task EXCEPT ![w] =
       [op |-> "canonical", left |-> @.left \ {g}, group |-> g]]
  /\ UNCHANGED <<born, tables>>

ResolveCreateCommit(w) ==
  /\ task[w].op = "canonical"
  /\ LET g == task[w].group
     IN  /\ \/ CreateIdentity(g.first, Resolver)
            \/ SameIdentity(g.first, Resolver) /\ UNCHANGED <<identities, membership>>
         /\ task' = [task EXCEPT ![w] = NextMember(@.left, g.first, g.rest)]
  /\ UNCHANGED <<born, references>>

\* Any exception, a constraint or the busy timeout, skips the group.
ResolveCreateFail(w) ==
  /\ task[w].op = "canonical"
  /\ task' = [task EXCEPT ![w] = NextGroup(@.left)]
  /\ UNCHANGED <<born, tables>>

\* A member that has an identity is passed over, in the same one or another.
ResolveAliasSkip(w, e) ==
  /\ task[w].op = "aliases"
  /\ e \in task[w].rest
  /\ membership[e] # NoRow
  /\ task' = [task EXCEPT ![w] = NextMember(@.left, @.identity, @.rest \ {e})]
  /\ UNCHANGED <<born, tables>>

ResolveAliasRead(w, e) ==
  /\ task[w].op = "aliases"
  /\ e \in task[w].rest
  /\ membership[e] = NoRow
  /\ task' = [task EXCEPT ![w] =
       [op |-> "alias", left |-> @.left, identity |-> @.identity,
        rest |-> @.rest \ {e}, entity |-> e]]
  /\ UNCHANGED <<born, tables>>

ResolveAliasCommit(w) ==
  /\ task[w].op = "alias"
  /\ AttachAlias(task[w].identity, task[w].entity, Resolver)
  /\ task' = [task EXCEPT ![w] = NextMember(@.left, @.identity, @.rest)]
  /\ UNCHANGED <<born, identities, references>>

\* Any exception passes over the member.
ResolveAliasFail(w) ==
  /\ task[w].op = "alias"
  /\ task' = [task EXCEPT ![w] = NextMember(@.left, @.identity, @.rest)]
  /\ UNCHANGED <<born, tables>>

-----------------------------------------------------------------------------
\* The process dies; or a call made by hand fails on a constraint or on the
\* busy timeout.
Abandon(w) ==
  /\ task[w] # Idle
  /\ task' = [task EXCEPT ![w] = Idle]
  /\ UNCHANGED <<born, tables>>

Resolve(w) ==
  \/ ResolveAssertions(w)
  \/ ResolveEntities(w)
  \/ \E g \in Group : ResolveReuse(w, g) \/ ResolveCreateRead(w, g)
  \/ ResolveCreateCommit(w)
  \/ ResolveCreateFail(w)
  \/ \E e \in EntityId : ResolveAliasSkip(w, e) \/ ResolveAliasRead(w, e)
  \/ ResolveAliasCommit(w)
  \/ ResolveAliasFail(w)

Step(w) ==
  \/ \E e \in EntityId, by \in Actor : CreateRead(w, e, by)
  \/ CreateCommit(w)
  \/ \E i, e \in EntityId, by \in Actor : AttachRead(w, i, e, by)
  \/ AttachCommit(w)
  \/ \E i \in EntityId, r \in Reference : ReferenceRead(w, i, r)
  \/ ReferenceCommit(w)
  \/ Resolve(w)
  \/ Abandon(w)

Next == (\E e \in EntityId : Promote(e)) \/ \E w \in Worker : Step(w)

Spec == Init /\ [][Next]_vars

-----------------------------------------------------------------------------
(* Properties *)

\* Every identity has the entity it was created for as its one canonical
\* member, and every other member is an alias of an identity that exists: a
\* creation that lost its entity to an alias leaves no identity behind.
CanonicalAnchored ==
  /\ \A i \in EntityId : identities[i] # NoRow =>
       membership[i] = [identity |-> i, kind |-> "canonical", by |-> identities[i]]
  /\ \A e \in EntityId : membership[e] # NoRow =>
       /\ e \in Promoted
       /\ identities[membership[e].identity] # NoRow
       /\ membership[e].kind = "canonical" <=> membership[e].identity = e

\* Nobody moves an entity to another identity, whatever runs and calls overlap.
MembersForGood ==
  [][\A e \in EntityId :
       /\ membership[e] # NoRow => membership'[e] = membership[e]
       /\ identities[e] # NoRow => identities'[e] = identities[e]]_vars

\* Another member of the identity goes by the same name.
HasNamesake(i, e) ==
  \E f \in EntityId \ {e} :
    /\ membership[f] # NoRow
    /\ membership[f].identity = i
    /\ NameOf[f] = NameOf[e]

\* Automatic resolution makes an entity an alias only where a namesake is,
\* also when a group's identity was found rather than created, or its creation
\* failed: "zero false positives", however names are mixed by hand.
AutoMergesByName ==
  \A e \in EntityId : membership[e] # NoRow =>
    (membership[e].kind = "alias" /\ membership[e].by = Resolver =>
       HasNamesake(membership[e].identity, e))

\* The docstring of auto_resolve_identities: stable identities are created for
\* each group of entities with the same name.
OneIdentityPerName ==
  \A e, f \in EntityId :
    (/\ NameOf[e] = NameOf[f]
     /\ membership[e] # NoRow
     /\ membership[f] # NoRow)
    => membership[e].identity = membership[f].identity

-----------------------------------------------------------------------------
(* The inductive invariant *)

SameName(g) == \A e \in g.rest : e # g.first /\ NameOf[e] = NameOf[g.first]

\* What a call in flight knows: identities stay, and so do the namesakes of the
\* members a resolution run still has to attach.
Knows(t) ==
  /\ t.op \in {"create", "attach"} => t.entity \in Promoted /\ t.by # Resolver
  /\ t.op \in {"attach", "reference"} => identities[t.identity] # NoRow
  /\ t.op \in {"groups", "canonical", "aliases", "alias"} =>
       \A g \in t.left : SameName(g) /\ {g.first} \cup g.rest \subseteq Promoted
  /\ t.op = "canonical" =>
       SameName(t.group) /\ {t.group.first} \cup t.group.rest \subseteq Promoted
  /\ t.op \in {"aliases", "alias"} =>
       /\ t.rest \subseteq Promoted
       /\ \A e \in t.rest : HasNamesake(t.identity, e)
  /\ t.op = "alias" =>
       t.entity \in Promoted /\ HasNamesake(t.identity, t.entity)

TasksKnow == \A w \in Worker : Knows(task[w])

IInv ==
  /\ TypeOK
  /\ CanonicalAnchored
  /\ AutoMergesByName
  /\ TasksKnow
=============================================================================
