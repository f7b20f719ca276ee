---------------------------- MODULE GraphPromotion ----------------------------
(***************************************************************************)
(* The promoted graph of core/: accepted candidates are promoted into      *)
(* assertions, role fillers and entities, and a promoted assertion may be  *)
(* recanonicalized through the alias maps of its ontology pack.  Reviews   *)
(* are steps of the ledger that ReviewWorkflow is shown to implement.      *)
(*                                                                         *)
(* As in ReviewWorkflow, SELECTs before the first write of a call are      *)
(* autocommitted reads, everything from the first write on is one atomic   *)
(* step.  assertion_id is a digest of the source candidate's identifier,   *)
(* so both tables of an assertion are keyed by the candidate here.         *)
(***************************************************************************)
EXTENDS Integers, FiniteSets, Sequences

CONSTANTS
  Worker,          \* concurrent processes
  CandidateId,     \* candidates of the review tables
  EntityId,        \* entity identifiers carried by role fillers
  EntityType,
  Predicate,
  Role,
  RoleRank,        \* RoleRank[r]: place of r among sorted role identifiers
  PredicateAlias,  \* PredicateAlias[p]: canonical predicate, or NoAlias
  RoleAlias,       \* RoleAlias[r]: canonical role, or NoAlias
  Payload,         \* Payload[c]: normalized payload c was filed with
  NoAlias, NoEntity, NoType, NoRow

\* A filler of a role, at its place in the role's list.  A value filler has no
\* entity; an entity filler may come without a type.
Slot ==
  [role : Role, index : Nat, entity : EntityId \cup {NoEntity},
   etype : EntityType \cup {NoType}]

Body == [predicate : Predicate, slots : {S \in SUBSET Slot : IsFiniteSet(S)}]

EntityRow == [etype : EntityType \cup {NoType}, first : CandidateId]

Event == [before : Body, after : Body]

ASSUME AliasAssumption ==
  /\ RoleRank \in [Role -> Nat]
  /\ \A r1, r2 \in Role : RoleRank[r1] = RoleRank[r2] => r1 = r2
  /\ PredicateAlias \in [Predicate -> Predicate \cup {NoAlias}]
  /\ RoleAlias \in [Role -> Role \cup {NoAlias}]
  /\ NoAlias \notin Predicate \cup Role

\* In a pack that loads, canonical identifiers are their own aliases.
ASSUME IdempotentAssumption ==
  /\ \A p \in Predicate : PredicateAlias[p] # NoAlias =>
       PredicateAlias[PredicateAlias[p]] = PredicateAlias[p]
  /\ \A r \in Role : RoleAlias[r] # NoAlias => RoleAlias[RoleAlias[r]] = RoleAlias[r]

ASSUME PayloadAssumption == Payload \in [CandidateId -> Body]

\* Fillers of a role are a list: one at each place, numbered from zero.
ASSUME ListAssumption ==
  \A c \in CandidateId : \A s, t \in Payload[c].slots :
    /\ s.role = t.role /\ s.index = t.index => s = t
    /\ s.index > 0 => \E u \in Payload[c].slots : u.role = s.role /\ u.index = s.index - 1

ASSUME SentinelAssumption ==
  /\ NoEntity \notin EntityId
  /\ NoType \notin EntityType
  /\ NoRow \notin Body \cup EntityRow

Idle == [op |-> "idle"]
PromoteTask == [op : {"promote"}, candidate : CandidateId]
AdoptTask == [op : {"adopt"}, candidate : CandidateId, left : SUBSET Slot]
RecanonTask == [op : {"compare", "rewrite"}, candidate : CandidateId, before : Body]

Task == {Idle} \cup PromoteTask \cup AdoptTask \cup RecanonTask

VARIABLES
  verdict,    \* verdict[c]: the candidate as the review ledger has it
  assertions, \* promoted_graph_assertions, by source candidate (UNIQUE)
  entities,   \* promoted_graph_entities, by primary key
  fillers,    \* promoted_graph_role_fillers of each assertion
  events,     \* promoted_graph_recanonicalization_events of each assertion
  task        \* task[w]: the call process w is in, and what it read

graph == <<assertions, entities, fillers, events>>
vars == <<verdict, assertions, entities, fillers, events, task>>

Ledger == INSTANCE ReviewLedger WITH
  Item <- CandidateId, published <- {}, settled <- {}

TypeOK ==
  /\ verdict \in [CandidateId -> {"unfiled", "open", "recorded", "rejected"}]
  /\ assertions \in [CandidateId -> Body \cup {NoRow}]
  /\ entities \in [EntityId -> EntityRow \cup {NoRow}]
  /\ fillers \in [CandidateId -> SUBSET Slot]
  /\ events \in [CandidateId -> Seq(Event)]
  /\ task \in [Worker -> Task]

Init ==
  /\ Ledger!Init
  /\ assertions = [c \in CandidateId |-> NoRow]
  /\ entities = [e \in EntityId |-> NoRow]
  /\ fillers = [c \in CandidateId |-> {}]
  /\ events = [c \in CandidateId |-> <<>>]
  /\ task = [w \in Worker |-> Idle]

-----------------------------------------------------------------------------
(* Candidates come and are decided on elsewhere. *)

Review ==
  /\ \/ \E c \in CandidateId : Ledger!File({c})
     \/ \E c \in CandidateId, v \in {"recorded", "rejected"} : Ledger!Decide(c, v)
  /\ UNCHANGED <<graph, task>>

-----------------------------------------------------------------------------
(* Materializing role fillers and entities *)

\* Roles are stored sorted, the fillers of a role in list order.
Precedes(s, t) ==
  \/ RoleRank[s.role] < RoleRank[t.role]
  \/ s.role = t.role /\ s.index < t.index

IsFirstOf(s, S) == \A t \in S \ {s} : Precedes(s, t)

SamePlace(s, t) == s.role = t.role /\ s.index = t.index

Mentions(S) == {s.entity : s \in S} \ {NoEntity}

FirstType(e, S) ==
  LET mentions == {s \in S : s.entity = e}
  IN  (CHOOSE s \in mentions : IsFirstOf(s, mentions)).etype

\* upsert_entity keeps the row there is; its type is the one it came with.
EntityAfter(e, S, c) ==
  IF entities[e] # NoRow \/ e \notin Mentions(S) THEN entities[e]
  ELSE [etype |-> FirstType(e, S), first |-> c]

\* Mutant: types are not compared.
TypeClashUnchecked(S, c) == FALSE

\* Some mention has a type, the entity another one.
TypeClash(S, c) ==
  \E s \in S :
    /\ s.entity # NoEntity
    /\ s.etype # NoType
    /\ EntityAfter(s.entity, S, c).etype \notin {NoType, s.etype}

MaterializeEntities(S, c) == entities' = [e \in EntityId |-> EntityAfter(e, S, c)]

\* Mutant: returning early for an entity already there skips its filler too.
MaterializeFillersOfNewEntities(S, c) ==
  fillers' = [fillers EXCEPT ![c] = @ \cup
    {s \in S : s.entity = NoEntity \/ entities[s.entity] = NoRow}]

MaterializeFillers(S, c) == fillers' = [fillers EXCEPT ![c] = @ \cup S]

-----------------------------------------------------------------------------
(* promote_candidate *)

\* Mutant: the review status is not looked at.
PromotableOnceFiled(c) == verdict[c] # "unfiled"

Promotable(c) == verdict[c] = "recorded"

\* A candidate that has an assertion is answered with it.
PromoteRead(w, c) ==
  /\ task[w] = Idle
  /\ Promotable(c)
  /\ assertions[c] = NoRow
  /\ task' = [task EXCEPT ![w] = [op |-> "promote", candidate |-> c]]
  /\ UNCHANGED <<verdict, graph>>

\* Mutant: what was written before the conflict is committed.
PromoteRollbackPartial(c) ==
  /\ MaterializeEntities(Payload[c].slots, c)
  /\ UNCHANGED <<assertions, fillers>>

PromoteRollback(c) == UNCHANGED <<assertions, entities, fillers>>

PromoteInsert(c) ==
  /\ assertions' = [assertions EXCEPT ![c] = Payload[c]]
  /\ MaterializeEntities(Payload[c].slots, c)
  /\ MaterializeFillers(Payload[c].slots, c)

PromoteCommit(w) ==
  /\ task[w].op = "promote"
  /\ LET c == task[w].candidate
     IN  /\ assertions[c] = NoRow
         /\ \/ ~TypeClash(Payload[c].slots, c) /\ PromoteInsert(c)
            \/ TypeClash(Payload[c].slots, c) /\ PromoteRollback(c)
  /\ task' = [task EXCEPT ![w] = Idle]
  /\ UNCHANGED <<verdict, events>>

\* insert_promoted_assertion finds a row that was not there at the first look:
\* with the same content it is adopted, and no transaction has begun.
PromoteAdopt(w) ==
  /\ task[w].op = "promote"
  /\ LET c == task[w].candidate
     IN  /\ assertions[c] = Payload[c]
         /\ task' = [task EXCEPT ![w] =
              [op |-> "adopt", candidate |-> c, left |-> Payload[c].slots]]
  /\ UNCHANGED <<verdict, graph>>

\* insert_role_filler, one filler after the other: an equal one is passed over,
\* a different one at its place fails the call ...
AdoptFiller(w) ==
  /\ task[w].op = "adopt"
  /\ \E s \in task[w].left :
       /\ IsFirstOf(s, task[w].left)
       /\ s \in fillers[task[w].candidate]
       /\ task' = [task EXCEPT ![w].left = @ \ {s}]
  /\ UNCHANGED <<verdict, graph>>

\* ... and the first missing one begins the transaction in which it and the
\* others are inserted.
AdoptInsert(w) ==
  /\ task[w].op = "adopt"
  /\ LET c == task[w].candidate
         left == task[w].left
     IN  /\ \E s \in left :
              /\ IsFirstOf(s, left)
              /\ \A t \in fillers[c] : ~SamePlace(s, t)
         /\ \A s \in left, t \in fillers[c] : SamePlace(s, t) => s = t
         /\ ~TypeClash(left, c)
         /\ MaterializeEntities(left, c)
         /\ MaterializeFillers(left, c)
  /\ task' = [task EXCEPT ![w] = Idle]
  /\ UNCHANGED <<verdict, assertions, events>>

AdoptReturn(w) ==
  /\ task[w].op = "adopt"
  /\ task[w].left = {}
  /\ task' = [task EXCEPT ![w] = Idle]
  /\ UNCHANGED <<verdict, graph>>

-----------------------------------------------------------------------------
(* recanonicalize_promoted_assertion *)

\* An alias missing from the pack, or a body without roles, is refused.
Canonicalizable(b) ==
  /\ b.slots # {}
  /\ PredicateAlias[b.predicate] # NoAlias
  /\ \A s \in b.slots : RoleAlias[s.role] # NoAlias

\* Mutant: the offset of the earlier roles is taken over all fillers before.
CanonicalIndexOffset(s, S) ==
  s.index + Cardinality({t \in S : RoleAlias[t.role] = RoleAlias[s.role] /\ Precedes(t, s)})

\* Roles with the same canonical identifier are concatenated.
CanonicalIndex(s, S) ==
  Cardinality({t \in S : RoleAlias[t.role] = RoleAlias[s.role] /\ Precedes(t, s)})

CanonicalSlot(s, S) ==
  [s EXCEPT !.role = RoleAlias[s.role], !.index = CanonicalIndex(s, S)]

CanonicalizeBody(b) ==
  [predicate |-> PredicateAlias[b.predicate],
   slots |-> {CanonicalSlot(s, b.slots) : s \in b.slots}]

Layout(S) == {<<s.role, s.index>> : s \in S}

\* The rewritten body also has to pass the validation of the profile as it is
\* now; a call that fails it ends like one that is abandoned.
RecanonRead(w, c) ==
  /\ task[w] = Idle
  /\ assertions[c] # NoRow
  /\ Canonicalizable(assertions[c])
  /\ task' = [task EXCEPT ![w] =
       [op |-> "compare", candidate |-> c, before |-> assertions[c]]]
  /\ UNCHANGED <<verdict, graph>>

\* Mutant: only the body is compared.
IsAlreadyCanonicalBody(b, S) == CanonicalizeBody(b) = b

IsAlreadyCanonical(b, S) == CanonicalizeBody(b) = b /\ Layout(S) = Layout(b.slots)

\* The fillers are selected after the body.
RecanonCompare(w) ==
  /\ task[w].op = "compare"
  /\ IF IsAlreadyCanonical(task[w].before, fillers[task[w].candidate])
     THEN task' = [task EXCEPT ![w] = Idle]
     ELSE task' = [task EXCEPT ![w].op = "rewrite"]
  /\ UNCHANGED <<verdict, graph>>

RewriteAssertion(c, b) ==
  /\ assertions' = [assertions EXCEPT ![c] = b]
  /\ fillers' = [fillers EXCEPT ![c] = b.slots]

\* Mutant: the snapshots change places.
RecordEventSwapped(c, before, after) ==
  events' = [events EXCEPT ![c] = Append(@, [before |-> after, after |-> before])]

RecordEvent(c, before, after) ==
  events' = [events EXCEPT ![c] = Append(@, [before |-> before, after |-> after])]

RecanonCommit(w) ==
  /\ task[w].op = "rewrite"
  /\ LET c == task[w].candidate
         before == task[w].before
         after == CanonicalizeBody(before)
     IN  /\ assertions[c] # NoRow
         /\ \A e \in Mentions(after.slots) : entities[e] # NoRow
         /\ RewriteAssertion(c, after)
         /\ RecordEvent(c, before, after)
  /\ task' = [task EXCEPT ![w] = Idle]
  /\ UNCHANGED <<verdict, entities>>

-----------------------------------------------------------------------------
\* The process dies, waits out the busy timeout, or the call raises: on the
\* UNIQUE source_candidate_id, on different content, on a failed validation.
Abandon(w) ==
  /\ task[w] # Idle
  /\ task' = [task EXCEPT ![w] = Idle]
  /\ UNCHANGED <<verdict, graph>>

Step(w) ==
  \/ \E c \in CandidateId : PromoteRead(w, c)
  \/ PromoteCommit(w)
  \/ PromoteAdopt(w)
  \/ AdoptFiller(w)
  \/ AdoptInsert(w)
  \/ AdoptReturn(w)
  \/ \E c \in CandidateId : RecanonRead(w, c)
  \/ RecanonCompare(w)
  \/ RecanonCommit(w)
  \/ Abandon(w)

Next == Review \/ \E w \in Worker : Step(w)

Spec == Init /\ [][Next]_vars

\* Repair is asked for again and again, by calls some of which get through.
RepairFairness ==
  \A w \in Worker :
    /\ \A c \in CandidateId :
         /\ SF_vars(RecanonRead(w, c))
         /\ SF_vars(RecanonCompare(w) /\ task[w].candidate = c)
         /\ SF_vars(RecanonCommit(w) /\ task[w].candidate = c)
    /\ WF_vars(Abandon(w))

FairSpec == Spec /\ RepairFairness

-----------------------------------------------------------------------------
(* Properties *)

\* Only accepted candidates are in the graph, although acceptance is looked at
\* before the transaction that promotes them.
PromotedAreAccepted ==
  \A c \in CandidateId : assertions[c] # NoRow => verdict[c] = "recorded"

\* A promotion is whole or absent, and so is a rewrite: whatever crashes,
\* conflicts or runs concurrently, every filler of an assertion's body is
\* stored, and no filler without its assertion.
NoPartialPromotion ==
  \A c \in CandidateId :
    IF assertions[c] = NoRow THEN fillers[c] = {}
    ELSE assertions[c].slots \subseteq fillers[c]

\* An entity is in the graph because its first candidate is and mentions it: a
\* promotion that failed leaves none behind.
EntitiesEarned ==
  \A e \in EntityId : entities[e] # NoRow =>
    /\ assertions[entities[e].first] # NoRow
    /\ e \in Mentions(Payload[entities[e].first].slots)

\* Every entity a filler points to exists, and has no other type than the
\* filler's when both have one.
TypesHold ==
  \A c \in CandidateId : \A s \in fillers[c] : s.entity # NoEntity =>
    /\ entities[s.entity] # NoRow
    /\ s.etype # NoType => entities[s.entity].etype \in {NoType, s.etype}

\* An assertion's body is what its candidate was filed with or the canonical
\* form of that, and its fillers are those of these two bodies: the overlap of
\* a late promoter with a rewrite adds nothing else.
NothingInvented ==
  \A c \in CandidateId : assertions[c] # NoRow =>
    /\ assertions[c] \in {Payload[c], CanonicalizeBody(Payload[c])}
    /\ fillers[c] \subseteq Payload[c].slots \cup assertions[c].slots

AtDistinctPlaces(S) == \A s, t \in S : SamePlace(s, t) => s = t

WithoutGaps(S) ==
  \A s \in S : s.index > 0 => \E u \in S : u.role = s.role /\ u.index = s.index - 1

\* Merging the roles of aliases keeps every role a list, with one filler at each
\* place from zero on, and no place of an assertion is ever taken twice.
RolesAreLists ==
  \A c \in CandidateId : assertions[c] # NoRow =>
    /\ WithoutGaps(assertions[c].slots)
    /\ AtDistinctPlaces(fillers[c])
    /\ Cardinality(assertions[c].slots) = Cardinality(Payload[c].slots)

\* Canonicalization neither adds nor loses nor displaces a filler, and the repair
\* by a late promoter puts back nothing else than what was filed.
RewritesAreFaithful == NothingInvented /\ RolesAreLists

\* The recorded events explain the body there is: from the payload to the first
\* "before", from the last "after" to the body.
BodyHasHistory ==
  \A c \in CandidateId : assertions[c] # NoRow =>
    IF events[c] = <<>> THEN assertions[c] = Payload[c]
    ELSE /\ events[c][1].before = Payload[c]
         /\ events[c][Len(events[c])].after = assertions[c]

\* As long as somebody keeps asking for it, every promoted assertion that can be
\* canonicalized ends up canonical for good, stale fillers removed.
GraphConverges ==
  \A c \in CandidateId : Canonicalizable(Payload[c]) =>
    <>[](assertions[c] # NoRow =>
           /\ assertions[c] = CanonicalizeBody(Payload[c])
           /\ fillers[c] = CanonicalizeBody(Payload[c]).slots)

\* The docstring of rewrite_promoted_assertion: fillers are kept aligned with
\* the body instead of drifting over time.
FillersFollowBody ==
  \A c \in CandidateId : assertions[c] # NoRow => fillers[c] = assertions[c].slots

\* The docstring of upsert_entity: conflicting type changes fail loudly.
OneTypePerEntity ==
  \A c, d \in CandidateId : \A s \in fillers[c], t \in fillers[d] :
    s.entity = t.entity => s.etype = t.etype \/ NoType \in {s.etype, t.etype}

-----------------------------------------------------------------------------
(* The inductive invariant *)

SameFilling(s, u) == s.entity = u.entity /\ s.etype = u.etype

\* S is filled by what c was filed with, at whatever roles and places.
FilledFrom(S, c) == \A s \in S : \E u \in Payload[c].slots : SameFilling(s, u)

\* The entities as they are bear the filler s.
Bears(s) ==
  s.entity # NoEntity =>
    /\ entities[s.entity] # NoRow
    /\ s.etype # NoType => entities[s.entity].etype \in {NoType, s.etype}

\* What a call knows: the candidate it promotes is accepted, the fillers it
\* still has to look at are the candidate's, and the body it rewrites came from
\* the payload, and is the payload if nobody has rewritten it yet.
Knows(t) ==
  /\ t.op \in {"promote", "adopt"} => verdict[t.candidate] = "recorded"
  /\ t.op = "adopt" =>
       /\ assertions[t.candidate] # NoRow
       /\ t.left \subseteq Payload[t.candidate].slots
  /\ t.op \in {"compare", "rewrite"} =>
       /\ assertions[t.candidate] # NoRow
       /\ Canonicalizable(t.before)
       /\ FilledFrom(t.before.slots, t.candidate)
       /\ events[t.candidate] = <<>> => t.before = Payload[t.candidate]

TasksKnow == \A w \in Worker : Knows(task[w])

\* Payload, body and fillers of one assertion.
AssertionSound(c) ==
  IF assertions[c] = NoRow THEN fillers[c] = {} /\ events[c] = <<>>
  ELSE /\ \A s \in Payload[c].slots : Bears(s)
       /\ FilledFrom(assertions[c].slots, c)
       /\ FilledFrom(fillers[c], c)

IInv ==
  /\ TypeOK
  /\ PromotedAreAccepted
  /\ NoPartialPromotion
  /\ EntitiesEarned
  /\ BodyHasHistory
  /\ \A c \in CandidateId : AssertionSound(c)
  /\ TasksKnow

\* What a payload may be in the graph: as it was filed, or canonical.
Formed(b, c) ==
  \/ b = Payload[c]
  \/ Canonicalizable(Payload[c]) /\ b = CanonicalizeBody(Payload[c])

\* The forms of assertions and of what calls are about to rewrite, and where
\* the fillers stand.
FaithInv ==
  /\ \A c \in CandidateId : assertions[c] # NoRow =>
       /\ Formed(assertions[c], c)
       /\ fillers[c] \subseteq Payload[c].slots \cup assertions[c].slots
       /\ AtDistinctPlaces(fillers[c])
  /\ \A w \in Worker : task[w].op \in {"compare", "rewrite"} =>
       Formed(task[w].before, task[w].candidate)
=============================================================================
