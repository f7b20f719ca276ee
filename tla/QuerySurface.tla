----------------------------- MODULE QuerySurface -----------------------------
(***************************************************************************)
(* The entity queries of surfaces/query_surface.py beside the processes    *)
(* that change what they read: list_entities, search_entities and          *)
(* get_entity.  Each builds its answer from autocommitted SELECTs, the     *)
(* assertions, the identities, every identity's members, the entities, and *)
(* get_entity by identity reads that identity once more.                   *)
(*                                                                         *)
(* An answer is modelled by what it is built from; labels, counts, filters *)
(* and the ranking of matches are functions of it.                         *)
(***************************************************************************)
EXTENDS Identity

VARIABLE query  \* query[w]: the query process w is in, and what it read

queryVars == <<vars, query>>

NoQuery == [op |-> "none"]

\* shown[e]: the identity whose bundle lists e, or NoRow
Shown == [EntityId -> EntityId \cup {NoRow}]

AssertionsRead == [op : {"assertions"}, named : SUBSET EntityId]
BundlesRead ==
  [op : {"bundles"}, named : SUBSET EntityId, left : SUBSET EntityId, shown : Shown]
Contexts ==
  [op : {"contexts"}, named : SUBSET EntityId, shown : Shown, listed : SUBSET EntityId]
Conflict == [op : {"conflict"}, named : SUBSET EntityId, identity : EntityId]
Detail ==
  [op : {"detail"}, identity : EntityId, entity : EntityId,
   members : SUBSET EntityId, linked : SUBSET EntityId]

Query == {NoQuery} \cup AssertionsRead \cup BundlesRead \cup Contexts \cup Conflict \cup Detail

QueryTypeOK == TypeOK /\ query \in [Worker -> Query]

QueryInit == Init /\ query = [w \in Worker |-> NoQuery]

Identities == {i \in EntityId : identities[i] # NoRow}

MembersNow(i) == {e \in EntityId : membership[e] # NoRow /\ membership[e].identity = i}

\* Entities the assertions of the answer mention, of e or of its identity.
Linked(c, e) ==
  IF c.shown[e] = NoRow THEN {e} \cap c.named
  ELSE {f \in c.named : c.shown[f] = c.shown[e]}

-----------------------------------------------------------------------------
\* The assertions, with the names in them; every promoted entity is in one.
QueryAssertions(w) ==
  /\ query[w] = NoQuery
  /\ query' = [query EXCEPT ![w] = [op |-> "assertions", named |-> Promoted]]

QueryIdentities(w) ==
  /\ query[w].op = "assertions"
  /\ query' = [query EXCEPT ![w] =
       [op |-> "bundles", named |-> @.named, left |-> Identities,
        shown |-> [e \in EntityId |-> NoRow]]]

\* list_identities takes the bundles one by one.
QueryBundle(w, i) ==
  /\ query[w].op = "bundles"
  /\ i \in query[w].left
  /\ query' = [query EXCEPT
       ![w].left = @ \ {i},
       ![w].shown = [e \in EntityId |-> IF e \in MembersNow(i) THEN i ELSE @[e]]]

\* Mutant: the entities are those the assertions mention.
EntitiesNamed(q) == q.named

EntitiesListed(q) == Promoted

\* list_entities, search_entities and get_entity by entity answer from this.
QueryEntities(w) ==
  /\ query[w].op = "bundles"
  /\ query[w].left = {}
  /\ query' = [query EXCEPT ![w] =
       [op |-> "contexts", named |-> @.named, shown |-> @.shown,
        listed |-> EntitiesListed(@)]]

\* get_entity by identity: the identity's canonical entity is looked up in what
\* was listed, with the bundle of then, or with this one if it had none then.
QueryIdentity(w, i) ==
  /\ query[w].op = "contexts"
  /\ identities[i] # NoRow
  /\ LET c == query[w]
         detail(members, linked) ==
           [op |-> "detail", identity |-> i, entity |-> i,
            members |-> members, linked |-> linked]
     IN  query' = [query EXCEPT ![w] =
           IF i \notin c.listed THEN [op |-> "conflict", named |-> c.named, identity |-> i]
           ELSE IF c.shown[i] = NoRow THEN detail(MembersNow(i), {i} \cap c.named)
           ELSE detail({e \in EntityId : c.shown[e] = c.shown[i]}, Linked(c, i))]

\* The answer is returned, or the process dies.
QueryEnd(w) ==
  /\ query[w] # NoQuery
  /\ query' = [query EXCEPT ![w] = NoQuery]

QueryStep(w) ==
  /\ \/ QueryAssertions(w)
     \/ QueryIdentities(w)
     \/ \E i \in EntityId : QueryBundle(w, i) \/ QueryIdentity(w, i)
     \/ QueryEntities(w)
     \/ QueryEnd(w)
  /\ UNCHANGED vars

\* A process is in one call at a time.
QueryNext ==
  \/ (\E e \in EntityId : Promote(e)) /\ UNCHANGED query
  \/ \E w \in Worker : query[w] = NoQuery /\ Step(w) /\ UNCHANGED query
  \/ \E w \in Worker : task[w] = Idle /\ QueryStep(w)

QuerySpec == QueryInit /\ [][QueryNext]_queryVars

-----------------------------------------------------------------------------
(* Properties *)

\* Entities are shown in the identity they belong to, with its canonical member.
ShownTruly(shown) ==
  \A e \in EntityId : shown[e] # NoRow =>
    /\ membership[e] # NoRow /\ membership[e].identity = shown[e]
    /\ shown[shown[e]] = shown[e]

\* What one query says of all entities is one story, whatever is promoted,
\* created and attached between its SELECTs: no entity an assertion mentions is
\* left out, and whoever is shown in an identity is listed, as is the canonical
\* member.
ContextsAgree(c) ==
  /\ c.named \subseteq c.listed
  /\ ShownTruly(c.shown)
  /\ \A e \in EntityId : c.shown[e] # NoRow => {e, c.shown[e]} \subseteq c.listed

\* One identity is described by its canonical entity and members of its own.
DetailAgrees(d) ==
  /\ d.entity \in d.members
  /\ d.members \subseteq MembersNow(d.identity)
  /\ d.linked \subseteq d.members

\* The answers of the query surface add up, and get_entity calls an identity
\* inconsistent only when its entity was promoted after the query had begun.
AnswersAddUp ==
  \A w \in Worker :
    /\ query[w].op = "contexts" => ContextsAgree(query[w])
    /\ query[w].op = "detail" => DetailAgrees(query[w])
    /\ query[w].op = "conflict" => query[w].identity \notin query[w].named

-----------------------------------------------------------------------------
(* The inductive invariant *)

\* What a query has read so far still stands.
AddsUp(q) ==
  /\ q.op \in {"assertions", "bundles", "contexts", "conflict"} => q.named \subseteq Promoted
  /\ q.op = "bundles" => q.left \subseteq Identities /\ ShownTruly(q.shown)
  /\ q.op = "contexts" => ContextsAgree(q)
  /\ q.op = "detail" => DetailAgrees(q)
  /\ q.op = "conflict" => q.identity \notin q.named

QueryInv ==
  /\ QueryTypeOK
  /\ IInv
  /\ \A w \in Worker : AddsUp(query[w])
===============================================================================
