--------------------------- MODULE Identity_proofs ---------------------------
(***************************************************************************)
(* Proofs about Identity and QuerySurface for every set of processes,      *)
(* entities, names, people and references.                                 *)
(***************************************************************************)
EXTENDS QuerySurface, FiniteSetTheorems, WellFoundedInduction, TLAPS

USE NameAssumption, KeyAssumption, SentinelAssumption

-----------------------------------------------------------------------------
(* Groups *)

\* A set of naturals that is not empty has a least element.
LEMMA LeastNatural ==
  ASSUME NEW T \in SUBSET Nat, T # {}
  PROVE  \E n \in T : \A m \in T : n <= m
<1> DEFINE R == {ss \in Nat \X Nat : ss[1] < ss[2]}
<1>1. IsWellFoundedOn(R, Nat)
  BY NatLessThanWellFounded DEF OpToRel
<1> HIDE DEF R
<1>2. PICK n \in T : \A m \in T : <<m, n>> \notin R
  BY <1>1, WFMin
<1>3. \A m \in T : <<m, n>> \notin R => n <= m
  BY DEF R
<1> QED
  BY <1>2, <1>3

\* Among any entities there is an earliest one.
LEMMA EarliestMember ==
  ASSUME TypeOK, NEW S \in SUBSET EntityId, S # {}
  PROVE  Earliest(S) \in S
<1> DEFINE Births == {born[e] : e \in S}
<1>1. Births \in SUBSET Nat /\ Births # {}
  BY DEF TypeOK
<1> HIDE DEF Births
<1>2. PICK n \in Births : \A m \in Births : n <= m
  BY <1>1, LeastNatural
<1>3. \E e \in S : \A f \in S : born[e] <= born[f]
  BY <1>2 DEF Births
<1> QED
  BY <1>3 DEF Earliest

GroupSound(g) == SameName(g) /\ {g.first} \cup g.rest \subseteq Promoted

\* A group is made of promoted namesakes, although some of its members may
\* have been promoted after the names were read.
LEMMA GroupOfNamesakes ==
  ASSUME TypeOK, NEW named \in SUBSET EntityId, NEW e \in Promoted
  PROVE  GroupOf(e, named) \in Group /\ GroupSound(GroupOf(e, named))
<1> DEFINE M == Members(e, named)
           a == Earliest(M)
<1>1. M \subseteq Promoted /\ M \in SUBSET EntityId /\ e \in M
  BY DEF Members, Promoted
<1>2. \A f \in M : Key(f, named) = Key(e, named)
  BY DEF Members
<1>3. a \in M
  BY <1>1, EarliestMember
<1>4. GroupOf(e, named) = [first |-> a, rest |-> M \ {a}]
  BY DEF GroupOf
<1> HIDE DEF M, a
<1>5. ASSUME NEW f \in M \ {a}
      PROVE  NameOf[f] = NameOf[a]
  <2>1. Key(f, named) = Key(a, named)
    BY <1>2, <1>3
  <2>2. f \in EntityId /\ a \in EntityId /\ f # a
    BY <1>1, <1>3
  <2>3. NameOf[f] \notin EntityId /\ NameOf[a] \notin EntityId
    BY <2>2
  <2> QED
    BY <2>1, <2>2, <2>3 DEF Key
<1> QED
  BY <1>1, <1>3, <1>4, <1>5 DEF Group, GroupSound, SameName

-----------------------------------------------------------------------------
(* Types *)

\* A task of each shape has the fields its shape promises.
LEMMA TaskFields ==
  ASSUME NEW t \in Task
  PROVE  /\ t.op \in {"idle", "create", "attach", "reference", "scan", "groups",
                      "canonical", "aliases", "alias"}
         /\ t.op = "create" => t \in CreateTask
         /\ t.op = "attach" => t \in AttachTask
         /\ t.op = "reference" => t \in ReferenceTask
         /\ t.op = "scan" => t \in ScanTask
         /\ t.op = "groups" => t \in GroupsTask
         /\ t.op = "canonical" => t \in CanonicalTask
         /\ t.op = "aliases" => t \in AliasesTask
         /\ t.op = "alias" => t \in AliasTask
  BY DEF Task, Idle, CreateTask, AttachTask, ReferenceTask, ScanTask, GroupsTask,
     CanonicalTask, AliasesTask, AliasTask

LEMMA NextMemberType ==
  ASSUME NEW left \in SUBSET Group, NEW i \in EntityId, NEW rest \in SUBSET EntityId
  PROVE  NextMember(left, i, rest) \in Task /\ NextGroup(left) \in Task
  BY DEF NextMember, NextGroup, Task, Idle, GroupsTask, AliasesTask

LEMMA TypeInit == Init => TypeOK
  BY DEF Init, TypeOK, Task

\* The rows that a call writes are rows.
LEMMA WriteTypes ==
  ASSUME TypeOK, NEW e \in EntityId, NEW i \in EntityId, NEW by \in Author
  PROVE  /\ CreateIdentity(e, by) =>
              /\ identities' \in [EntityId -> Author \cup {NoRow}]
              /\ membership' \in [EntityId -> Membership \cup {NoRow}]
         /\ AttachAlias(i, e, by) => membership' \in [EntityId -> Membership \cup {NoRow}]
<1>1. [identity |-> e, kind |-> "canonical", by |-> by] \in Membership
  BY DEF Membership
<1>2. [identity |-> i, kind |-> "alias", by |-> by] \in Membership
  BY DEF Membership
<1>3. ASSUME CreateIdentity(e, by)
      PROVE  /\ identities' \in [EntityId -> Author \cup {NoRow}]
             /\ membership' \in [EntityId -> Membership \cup {NoRow}]
  BY <1>1, <1>3 DEF TypeOK, CreateIdentity
<1>4. ASSUME AttachAlias(i, e, by)
      PROVE  membership' \in [EntityId -> Membership \cup {NoRow}]
  BY <1>2, <1>4 DEF TypeOK, AttachAlias
<1> QED
  BY <1>3, <1>4

LEMMA MembershipType ==
  ASSUME TypeOK, NEW e \in EntityId, membership[e] # NoRow
  PROVE  /\ membership[e] \in Membership
         /\ membership[e].identity \in EntityId
         /\ membership[e].by \in Author
<1>1. membership[e] \in Membership
  BY DEF TypeOK
<1> QED
  BY <1>1 DEF Membership

LEMMA TypeStep == TypeOK /\ [Next]_vars => TypeOK'
<1> SUFFICES ASSUME TypeOK, [Next]_vars PROVE TypeOK'
  OBVIOUS
<1>a. Resolver \in Author
  BY DEF Author
<1>1. ASSUME NEW e \in EntityId, Promote(e)
      PROVE  TypeOK'
  <2>1. IsFiniteSet(Promoted)
    BY EntityAssumption, FS_Subset DEF Promoted
  <2>2. Cardinality(Promoted) \in Nat
    BY <2>1, FS_CardinalityType
  <2> QED
    BY <1>1, <2>2 DEF Promote, TypeOK, tables
<1>2. ASSUME NEW w \in Worker, NEW e \in EntityId, NEW by \in Actor, CreateRead(w, e, by)
      PROVE  TypeOK'
  BY <1>2 DEF CreateRead, TypeOK, tables, Task, CreateTask, Author
<1>3. ASSUME NEW w \in Worker, CreateCommit(w)
      PROVE  TypeOK'
  <2>1. task[w] \in CreateTask
    BY <1>3, TaskFields DEF CreateCommit, TypeOK
  <2>2. task[w].entity \in EntityId /\ task[w].by \in Author
    BY <2>1 DEF CreateTask
  <2> QED
    BY <1>3, <2>2, WriteTypes DEF CreateCommit, TypeOK, Task
<1>4. ASSUME NEW w \in Worker, NEW i \in EntityId, NEW e \in EntityId, NEW by \in Actor,
             AttachRead(w, i, e, by)
      PROVE  TypeOK'
  BY <1>4 DEF AttachRead, TypeOK, tables, Task, AttachTask, Author
<1>5. ASSUME NEW w \in Worker, AttachCommit(w)
      PROVE  TypeOK'
  <2>1. task[w] \in AttachTask
    BY <1>5, TaskFields DEF AttachCommit, TypeOK
  <2>2. task[w].identity \in EntityId /\ task[w].entity \in EntityId /\ task[w].by \in Author
    BY <2>1 DEF AttachTask
  <2> QED
    BY <1>5, <2>2, WriteTypes DEF AttachCommit, TypeOK, Task
<1>6. ASSUME NEW w \in Worker, NEW i \in EntityId, NEW r \in Reference, ReferenceRead(w, i, r)
      PROVE  TypeOK'
  BY <1>6 DEF ReferenceRead, TypeOK, tables, Task, ReferenceTask
<1>7. ASSUME NEW w \in Worker, ReferenceCommit(w)
      PROVE  TypeOK'
  <2>1. task[w] \in ReferenceTask
    BY <1>7, TaskFields DEF ReferenceCommit, TypeOK
  <2>2. PICK i \in EntityId, r \in Reference : i = task[w].identity /\ r = task[w].reference
    BY <2>1 DEF ReferenceTask
  <2>3. references' = [references EXCEPT ![i][r] = @ + 1]
    BY <1>7, <2>2 DEF ReferenceCommit
  <2>4. references' \in [EntityId -> [Reference -> Nat]]
    BY <2>3 DEF TypeOK
  <2> QED
    BY <1>7, <2>4 DEF ReferenceCommit, TypeOK, Task
<1>8. ASSUME NEW w \in Worker, ResolveAssertions(w)
      PROVE  TypeOK'
  BY <1>8 DEF ResolveAssertions, TypeOK, tables, Task, ScanTask, Promoted
<1>9. ASSUME NEW w \in Worker, ResolveEntities(w)
      PROVE  TypeOK'
  <2>1. task[w] \in ScanTask
    BY <1>9, TaskFields DEF ResolveEntities, TypeOK
  <2>2. PICK named \in SUBSET EntityId : named = task[w].named
    BY <2>1 DEF ScanTask
  <2>3. {GroupOf(e, named) : e \in Promoted} \in SUBSET Group
    BY GroupOfNamesakes
  <2>4. NextGroup({GroupOf(e, named) : e \in Promoted}) \in Task
    BY <2>3 DEF NextGroup, Task, GroupsTask
  <2> QED
    BY <1>9, <2>2, <2>4 DEF ResolveEntities, TypeOK, tables
<1>10. ASSUME NEW w \in Worker, NEW g \in Group, ResolveReuse(w, g)
       PROVE  TypeOK'
  <2>1. task[w].left \in SUBSET Group
    BY <1>10, TaskFields DEF ResolveReuse, TypeOK, GroupsTask
  <2>2. g.first \in EntityId /\ g.rest \in SUBSET EntityId
    BY DEF Group
  <2>3. membership[g.first].identity \in EntityId
    BY <1>10, <2>2, MembershipType DEF ResolveReuse
  <2>4. NextMember(task[w].left \ {g}, membership[g.first].identity, g.rest) \in Task
    BY <2>1, <2>2, <2>3, NextMemberType
  <2> QED
    BY <1>10, <2>4 DEF ResolveReuse, TypeOK, tables
<1>11. ASSUME NEW w \in Worker, NEW g \in Group, ResolveCreateRead(w, g)
       PROVE  TypeOK'
  <2>1. task[w].left \in SUBSET Group
    BY <1>11, TaskFields DEF ResolveCreateRead, TypeOK, GroupsTask
  <2> QED
    BY <1>11, <2>1 DEF ResolveCreateRead, TypeOK, tables, Task, CanonicalTask
<1>12. ASSUME NEW w \in Worker, ResolveCreateCommit(w)
       PROVE  TypeOK'
  <2>1. task[w] \in CanonicalTask
    BY <1>12, TaskFields DEF ResolveCreateCommit, TypeOK
  <2>2. PICK left \in SUBSET Group, g \in Group : left = task[w].left /\ g = task[w].group
    BY <2>1 DEF CanonicalTask
  <2>3. g.first \in EntityId /\ g.rest \in SUBSET EntityId
    BY DEF Group
  <2>4. NextMember(left, g.first, g.rest) \in Task
    BY <2>3, NextMemberType
  <2>5. task' = [task EXCEPT ![w] = NextMember(left, g.first, g.rest)]
    BY <1>12, <2>2 DEF ResolveCreateCommit
  <2>6. CreateIdentity(g.first, Resolver) \/ (identities' = identities /\ membership' = membership)
    BY <1>12, <2>2 DEF ResolveCreateCommit
  <2>7. /\ identities' \in [EntityId -> Author \cup {NoRow}]
        /\ membership' \in [EntityId -> Membership \cup {NoRow}]
    BY <1>a, <2>3, <2>6, WriteTypes DEF TypeOK
  <2>8. born' = born /\ references' = references
    BY <1>12 DEF ResolveCreateCommit
  <2> QED
    BY <2>4, <2>5, <2>7, <2>8 DEF TypeOK
<1>13. ASSUME NEW w \in Worker, ResolveCreateFail(w)
       PROVE  TypeOK'
  <2>1. task[w].left \in SUBSET Group
    BY <1>13, TaskFields DEF ResolveCreateFail, TypeOK, CanonicalTask
  <2>2. NextGroup(task[w].left) \in Task
    BY <2>1 DEF NextGroup, Task, GroupsTask
  <2> QED
    BY <1>13, <2>2 DEF ResolveCreateFail, TypeOK, tables
<1>14. ASSUME NEW w \in Worker, NEW e \in EntityId, ResolveAliasSkip(w, e)
       PROVE  TypeOK'
  <2>1. task[w] \in AliasesTask
    BY <1>14, TaskFields DEF ResolveAliasSkip, TypeOK
  <2>2. NextMember(task[w].left, task[w].identity, task[w].rest \ {e}) \in Task
    BY <2>1, NextMemberType DEF AliasesTask
  <2> QED
    BY <1>14, <2>2 DEF ResolveAliasSkip, TypeOK, tables
<1>15. ASSUME NEW w \in Worker, NEW e \in EntityId, ResolveAliasRead(w, e)
       PROVE  TypeOK'
  <2>1. task[w] \in AliasesTask
    BY <1>15, TaskFields DEF ResolveAliasRead, TypeOK
  <2> QED
    BY <1>15, <2>1 DEF ResolveAliasRead, TypeOK, tables, Task, AliasesTask, AliasTask
<1>16. ASSUME NEW w \in Worker, ResolveAliasCommit(w)
       PROVE  TypeOK'
  <2>1. task[w] \in AliasTask
    BY <1>16, TaskFields DEF ResolveAliasCommit, TypeOK
  <2>2. NextMember(task[w].left, task[w].identity, task[w].rest) \in Task
    BY <2>1, NextMemberType DEF AliasTask
  <2>3. task[w].identity \in EntityId /\ task[w].entity \in EntityId
    BY <2>1 DEF AliasTask
  <2>4. AttachAlias(task[w].identity, task[w].entity, Resolver)
    BY <1>16 DEF ResolveAliasCommit
  <2>5. membership' \in [EntityId -> Membership \cup {NoRow}]
    BY <1>a, <2>3, <2>4, WriteTypes
  <2> QED
    BY <1>16, <2>2, <2>5 DEF ResolveAliasCommit, TypeOK
<1>17. ASSUME NEW w \in Worker, ResolveAliasFail(w)
       PROVE  TypeOK'
  <2>1. task[w] \in AliasTask
    BY <1>17, TaskFields DEF ResolveAliasFail, TypeOK
  <2>2. NextMember(task[w].left, task[w].identity, task[w].rest) \in Task
    BY <2>1, NextMemberType DEF AliasTask
  <2> QED
    BY <1>17, <2>2 DEF ResolveAliasFail, TypeOK, tables
<1>18. ASSUME NEW w \in Worker, Abandon(w)
       PROVE  TypeOK'
  BY <1>18 DEF Abandon, TypeOK, tables, Task
<1>19. CASE UNCHANGED vars
  BY <1>19 DEF vars, TypeOK
<1> QED
  BY <1>1, <1>2, <1>3, <1>4, <1>5, <1>6, <1>7, <1>8, <1>9, <1>10, <1>11, <1>12, <1>13,
     <1>14, <1>15, <1>16, <1>17, <1>18, <1>19 DEF Next, Step, Resolve

\* Tables and calls keep their types.
THEOREM TypeCorrect == Spec => []TypeOK
<1> QED
  BY TypeInit, TypeStep, PTL DEF Spec

-----------------------------------------------------------------------------
(* What is never taken back *)

Keeps ==
  /\ \A e \in EntityId : membership[e] # NoRow => membership'[e] = membership[e]
  /\ \A e \in EntityId : identities[e] # NoRow => identities'[e] = identities[e]

Grows == Keeps /\ \A e \in EntityId : e \in Promoted => born'[e] # 0

LEMMA WritesKeep ==
  ASSUME TypeOK
  PROVE  /\ \A e \in EntityId, by \in Author : CreateIdentity(e, by) => Keeps
         /\ \A i, e \in EntityId, by \in Author :
              AttachAlias(i, e, by) /\ identities' = identities => Keeps
  BY DEF TypeOK, Keeps, CreateIdentity, AttachAlias

LEMMA StepGrows == TypeOK /\ [Next]_vars => Grows
<1> SUFFICES ASSUME TypeOK, [Next]_vars PROVE Grows
  OBVIOUS
<1>a. Resolver \in Author
  BY DEF Author
<1>1. ASSUME NEW e \in EntityId, Promote(e)
      PROVE  Grows
  BY <1>1 DEF Promote, TypeOK, tables, Keeps, Grows, Promoted
<1>2. ASSUME NEW w \in Worker, CreateCommit(w)
      PROVE  Grows
  <2>1. task[w].entity \in EntityId /\ task[w].by \in Author
    BY <1>2, TaskFields DEF CreateCommit, TypeOK, CreateTask
  <2>2. Keeps
    BY <1>2, <2>1, WritesKeep DEF CreateCommit
  <2> QED
    BY <1>2, <2>2 DEF CreateCommit, Grows, Promoted
<1>3. ASSUME NEW w \in Worker, AttachCommit(w)
      PROVE  Grows
  <2>1. task[w].identity \in EntityId /\ task[w].entity \in EntityId /\ task[w].by \in Author
    BY <1>3, TaskFields DEF AttachCommit, TypeOK, AttachTask
  <2>2. Keeps
    BY <1>3, <2>1, WritesKeep DEF AttachCommit
  <2> QED
    BY <1>3, <2>2 DEF AttachCommit, Grows, Promoted
<1>4. ASSUME NEW w \in Worker, ResolveCreateCommit(w)
      PROVE  Grows
  <2>1. task[w].group.first \in EntityId
    BY <1>4, TaskFields DEF ResolveCreateCommit, TypeOK, CanonicalTask, Group
  <2>2. Keeps
    <3>1. CASE CreateIdentity(task[w].group.first, Resolver)
      BY <1>a, <2>1, <3>1, WritesKeep
    <3>2. CASE identities' = identities /\ membership' = membership
      BY <3>2 DEF Keeps
    <3> QED
      BY <1>4, <3>1, <3>2 DEF ResolveCreateCommit
  <2> QED
    BY <1>4, <2>2 DEF ResolveCreateCommit, Grows, Promoted
<1>5. ASSUME NEW w \in Worker, ResolveAliasCommit(w)
      PROVE  Grows
  <2>1. task[w].identity \in EntityId /\ task[w].entity \in EntityId
    BY <1>5, TaskFields DEF ResolveAliasCommit, TypeOK, AliasTask
  <2>2. Keeps
    BY <1>5, <1>a, <2>1, WritesKeep DEF ResolveAliasCommit
  <2> QED
    BY <1>5, <2>2 DEF ResolveAliasCommit, Grows, Promoted
<1>6. CASE UNCHANGED <<born, identities, membership>>
  BY <1>6 DEF Keeps, Grows, Promoted
<1> QED
  BY <1>1, <1>2, <1>3, <1>4, <1>5, <1>6 DEF Next, Step, Resolve, vars, tables,
     CreateRead, AttachRead, ReferenceRead, ReferenceCommit, ResolveAssertions, ResolveEntities,
     ResolveReuse, ResolveCreateRead, ResolveCreateFail, ResolveAliasSkip, ResolveAliasRead,
     ResolveAliasFail, Abandon

\* No entity ever changes its identity, and no identity its author.
THEOREM MembershipIsForGood == Spec => MembersForGood
<1>1. TypeOK /\ [Next]_vars => [Keeps]_vars
  BY StepGrows DEF Grows
<1>2. Keeps => \A e \in EntityId :
                 /\ membership[e] # NoRow => membership'[e] = membership[e]
                 /\ identities[e] # NoRow => identities'[e] = identities[e]
  BY DEF Keeps
<1> QED
  BY <1>1, <1>2, TypeCorrect, PTL DEF Spec, MembersForGood

-----------------------------------------------------------------------------
(* What a call in flight knows *)

LEMMA NamesakeStays ==
  ASSUME NEW i \in EntityId, NEW e \in EntityId, HasNamesake(i, e), Grows
  PROVE  HasNamesake(i, e)'
<1>1. PICK f \in EntityId \ {e} :
        membership[f] # NoRow /\ membership[f].identity = i /\ NameOf[f] = NameOf[e]
  BY DEF HasNamesake
<1>2. membership'[f] = membership[f]
  BY <1>1 DEF Grows, Keeps
<1> QED
  BY <1>1, <1>2 DEF HasNamesake

LEMMA GroupStaysSound ==
  ASSUME NEW g \in Group, GroupSound(g), Grows
  PROVE  GroupSound(g)'
  BY DEF GroupSound, SameName, Promoted, Grows, Group

\* Nothing a call in flight knows is undone by another one.
LEMMA KnowsStable ==
  ASSUME NEW t \in Task, Knows(t), Grows
  PROVE  Knows(t)'
<1>1. CASE t.op \in {"create", "attach", "reference"}
  BY <1>1, TaskFields DEF Knows, Grows, Keeps, Promoted, CreateTask, AttachTask, ReferenceTask
<1>2. CASE t.op \in {"groups", "canonical", "aliases", "alias"}
  <2>1. t.left \in SUBSET Group
    BY <1>2, TaskFields DEF GroupsTask, CanonicalTask, AliasesTask, AliasTask
  <2>2. \A g \in t.left : GroupSound(g)'
    BY <1>2, <2>1, GroupStaysSound DEF Knows, GroupSound
  <2>3. ASSUME t.op = "canonical"
        PROVE  GroupSound(t.group)'
    <3>1. t.group \in Group
      BY <2>3, TaskFields DEF CanonicalTask
    <3> QED
      BY <2>3, <3>1, GroupStaysSound DEF Knows, GroupSound
  <2>4. ASSUME t.op \in {"aliases", "alias"}
        PROVE  (t.rest \subseteq Promoted)' /\ \A e \in t.rest : HasNamesake(t.identity, e)'
    <3>1. t.identity \in EntityId /\ t.rest \in SUBSET EntityId
      BY <2>4, TaskFields DEF AliasesTask, AliasTask
    <3>2. \A e \in t.rest : HasNamesake(t.identity, e)'
      BY <2>4, <3>1, NamesakeStays DEF Knows
    <3>3. (t.rest \subseteq Promoted)'
      BY <2>4, <3>1 DEF Knows, Promoted, Grows
    <3> QED
      BY <3>2, <3>3
  <2>5. ASSUME t.op = "alias"
        PROVE  (t.entity \in Promoted)' /\ HasNamesake(t.identity, t.entity)'
    <3>1. t.identity \in EntityId /\ t.entity \in EntityId
      BY <2>5, TaskFields DEF AliasTask
    <3>2. HasNamesake(t.identity, t.entity)'
      BY <2>5, <3>1, NamesakeStays DEF Knows
    <3>3. (t.entity \in Promoted)'
      BY <2>5, <3>1 DEF Knows, Promoted, Grows
    <3> QED
      BY <3>2, <3>3
  <2> QED
    BY <1>2, <2>2, <2>3, <2>4, <2>5 DEF Knows, GroupSound
<1>3. CASE t.op \in {"idle", "scan"}
  BY <1>3 DEF Knows
<1> QED
  BY <1>1, <1>2, <1>3, TaskFields

\* So it is enough to look at the call that takes the step.
LEMMA TasksKnowStep ==
  ASSUME TypeOK, TasksKnow, Grows, NEW w \in Worker, NEW t \in Task,
         task' = [task EXCEPT ![w] = t], Knows(t)'
  PROVE  TasksKnow'
<1>1. task'[w] = t /\ \A v \in Worker \ {w} : task'[v] = task[v]
  BY DEF TypeOK
<1>2. ASSUME NEW v \in Worker \ {w}
      PROVE  Knows(task[v])'
  <2>1. PICK u \in Task : u = task[v]
    BY DEF TypeOK
  <2>2. Knows(u)'
    BY <2>1, KnowsStable DEF TasksKnow
  <2> QED
    BY <1>1, <1>2, <2>1, <2>2
<1> QED
  BY <1>1, <1>2 DEF TasksKnow

\* A resolution run that moves on knows what it knew of the groups left.
LEMMA NextMemberKnows ==
  ASSUME NEW left \in SUBSET Group, NEW i \in EntityId, NEW rest \in SUBSET EntityId,
         \A g \in left : GroupSound(g), rest \subseteq Promoted,
         \A e \in rest : HasNamesake(i, e)
  PROVE  Knows(NextMember(left, i, rest)) /\ Knows(NextGroup(left))
  BY DEF NextMember, NextGroup, Knows, Idle, GroupSound

LEMMA IdleKnows == Idle \in Task /\ Knows(Idle) /\ Knows(Idle)'
  BY DEF Knows, Idle, Task

-----------------------------------------------------------------------------
(* The tables *)

\* A created identity is anchored in its entity.
LEMMA CreateSound ==
  ASSUME TypeOK, CanonicalAnchored, AutoMergesByName, Grows,
         NEW e \in EntityId, NEW by \in Author, e \in Promoted, CreateIdentity(e, by)
  PROVE  CanonicalAnchored' /\ AutoMergesByName'
<1>1. /\ identities' = [identities EXCEPT ![e] = by]
      /\ membership' = [membership EXCEPT ![e] =
           [identity |-> e, kind |-> "canonical", by |-> by]]
      /\ identities[e] = NoRow /\ membership[e] = NoRow
  BY DEF CreateIdentity
<1>2. by # NoRow /\ [identity |-> e, kind |-> "canonical", by |-> by] # NoRow
  BY DEF Author, Membership
<1>3. \A d \in EntityId \ {e} : membership'[d] = membership[d] /\ identities'[d] = identities[d]
  BY <1>1 DEF TypeOK
<1>4. membership'[e] = [identity |-> e, kind |-> "canonical", by |-> by] /\ identities'[e] = by
  BY <1>1 DEF TypeOK
<1>5. \A d \in EntityId : d \in Promoted => d \in Promoted'
  BY DEF Grows, Promoted
<1>6. ASSUME NEW i \in EntityId, identities'[i] # NoRow
      PROVE  membership'[i] = [identity |-> i, kind |-> "canonical", by |-> identities'[i]]
  BY <1>3, <1>4, <1>6 DEF CanonicalAnchored
<1>7. ASSUME NEW d \in EntityId, membership'[d] # NoRow
      PROVE  /\ d \in Promoted'
             /\ identities'[membership'[d].identity] # NoRow
             /\ membership'[d].kind = "canonical" <=> membership'[d].identity = d
  <2>1. CASE d = e
    BY <1>2, <1>4, <1>5, <2>1
  <2>2. CASE d # e
    <3>1. membership'[d] = membership[d] /\ membership[d] # NoRow
      BY <1>3, <1>7, <2>2
    <3>2. membership[d].identity \in EntityId
      BY <3>1, MembershipType
    <3>3. identities[membership[d].identity] # NoRow
      BY <3>1 DEF CanonicalAnchored
    <3>4. identities'[membership[d].identity] # NoRow
      BY <3>2, <3>3 DEF Grows, Keeps
    <3> QED
      BY <1>5, <3>1, <3>4 DEF CanonicalAnchored
  <2> QED
    BY <2>1, <2>2
<1>8. ASSUME NEW d \in EntityId, membership'[d] # NoRow,
             membership'[d].kind = "alias", membership'[d].by = Resolver
      PROVE  HasNamesake(membership[d].identity, d)'
  <2>1. d # e
    BY <1>4, <1>8
  <2>2. membership'[d] = membership[d]
    BY <1>3, <2>1
  <2>3. PICK i \in EntityId : i = membership[d].identity
    BY <1>8, <2>2, MembershipType
  <2>4. HasNamesake(i, d)'
    BY <1>8, <2>2, <2>3, NamesakeStays DEF AutoMergesByName
  <2> QED
    BY <2>2, <2>3, <2>4
<1> QED
  BY <1>6, <1>7, <1>8 DEF CanonicalAnchored, AutoMergesByName

\* An alias joins an identity that exists, and resolution only a namesake's.
LEMMA AttachSound ==
  ASSUME TypeOK, CanonicalAnchored, AutoMergesByName, Grows,
         NEW i \in EntityId, NEW e \in EntityId, NEW by \in Author, e \in Promoted,
         identities[i] # NoRow, AttachAlias(i, e, by), identities' = identities,
         by = Resolver => HasNamesake(i, e)
  PROVE  CanonicalAnchored' /\ AutoMergesByName'
<1>1. /\ membership' = [membership EXCEPT ![e] =
           [identity |-> i, kind |-> "alias", by |-> by]]
      /\ membership[e] = NoRow
  BY DEF AttachAlias
<1>2. i # e
  <2>1. membership[i] = [identity |-> i, kind |-> "canonical", by |-> identities[i]]
    BY DEF CanonicalAnchored
  <2>2. identities[i] \in Author
    BY DEF TypeOK
  <2>3. membership[i] # NoRow
    BY <2>1, <2>2 DEF Membership
  <2> QED
    BY <1>1, <2>3
<1>3. \A d \in EntityId \ {e} : membership'[d] = membership[d]
  BY <1>1 DEF TypeOK
<1>4. membership'[e] = [identity |-> i, kind |-> "alias", by |-> by]
  BY <1>1 DEF TypeOK
<1>5. \A d \in EntityId : d \in Promoted => d \in Promoted'
  BY DEF Grows, Promoted
<1>6. identities[e] = NoRow
  <2>1. ASSUME identities[e] # NoRow PROVE FALSE
    <3>1. membership[e] = [identity |-> e, kind |-> "canonical", by |-> identities[e]]
      BY <2>1 DEF CanonicalAnchored
    <3>2. identities[e] \in Author
      BY <2>1 DEF TypeOK
    <3> QED
      BY <1>1, <3>1, <3>2 DEF Membership
  <2> QED
    BY <2>1
<1>7. ASSUME NEW j \in EntityId, identities'[j] # NoRow
      PROVE  membership'[j] = [identity |-> j, kind |-> "canonical", by |-> identities'[j]]
  BY <1>3, <1>6, <1>7 DEF CanonicalAnchored
<1>8. ASSUME NEW d \in EntityId, membership'[d] # NoRow
      PROVE  /\ d \in Promoted'
             /\ identities'[membership'[d].identity] # NoRow
             /\ membership'[d].kind = "canonical" <=> membership'[d].identity = d
  BY <1>2, <1>3, <1>4, <1>5, <1>8 DEF CanonicalAnchored
<1>9. ASSUME NEW d \in EntityId, membership'[d] # NoRow,
             membership'[d].kind = "alias", membership'[d].by = Resolver
      PROVE  HasNamesake(membership[d].identity, d)'
  <2>1. CASE d = e
    <3>1. HasNamesake(i, e)'
      BY <1>4, <1>9, <2>1, NamesakeStays
    <3> QED
      BY <1>4, <2>1, <3>1
  <2>2. CASE d # e
    <3>1. membership'[d] = membership[d]
      BY <1>3, <2>2
    <3>2. PICK j \in EntityId : j = membership[d].identity
      BY <1>9, <3>1, MembershipType
    <3>3. HasNamesake(j, d)'
      BY <1>9, <3>1, <3>2, NamesakeStays DEF AutoMergesByName
    <3> QED
      BY <3>1, <3>2, <3>3
  <2> QED
    BY <2>1, <2>2
<1> QED
  BY <1>7, <1>8, <1>9 DEF CanonicalAnchored, AutoMergesByName

\* Steps that write neither identities nor memberships.
LEMMA TablesFrame ==
  ASSUME CanonicalAnchored, AutoMergesByName, Grows,
         identities' = identities, membership' = membership
  PROVE  CanonicalAnchored' /\ AutoMergesByName'
<1>1. \A d \in EntityId : d \in Promoted => d \in Promoted'
  BY DEF Grows, Promoted
<1> QED
  BY <1>1 DEF CanonicalAnchored, AutoMergesByName, HasNamesake

-----------------------------------------------------------------------------
(* The inductive invariant *)

LEMMA InitIInv == Init => IInv
  BY TypeInit DEF Init, IInv, CanonicalAnchored, AutoMergesByName, TasksKnow, Knows, Idle

\* A run that has just found or created an identity knows the rest of the group.
LEMMA NextMemberWillKnow ==
  ASSUME NEW left \in SUBSET Group, NEW i \in EntityId, NEW rest \in SUBSET EntityId,
         \A g \in left : GroupSound(g)', (rest \subseteq Promoted)',
         \A e \in rest : HasNamesake(i, e)'
  PROVE  Knows(NextMember(left, i, rest))'
  BY DEF NextMember, NextGroup, Knows, Idle, GroupSound

\* Promotions change no call in flight.
LEMMA TasksKnowFrame ==
  ASSUME TypeOK, TasksKnow, Grows, task' = task
  PROVE  TasksKnow'
<1>1. ASSUME NEW v \in Worker
      PROVE  Knows(task[v])'
  <2>1. PICK u \in Task : u = task[v]
    BY DEF TypeOK
  <2>2. Knows(u)'
    BY <2>1, KnowsStable DEF TasksKnow
  <2> QED
    BY <2>1, <2>2
<1> QED
  BY <1>1 DEF TasksKnow

\* A call of a resolution run that goes on with what it knew already.
LEMMA MovesOn ==
  ASSUME TypeOK, TasksKnow, Grows, NEW w \in Worker,
         NEW left \in SUBSET Group, NEW i \in EntityId, NEW rest \in SUBSET EntityId,
         \A g \in left : GroupSound(g), rest \subseteq Promoted,
         \A e \in rest : HasNamesake(i, e),
         \/ task' = [task EXCEPT ![w] = NextMember(left, i, rest)]
         \/ task' = [task EXCEPT ![w] = NextGroup(left)]
  PROVE  TasksKnow'
<1>1. CASE task' = [task EXCEPT ![w] = NextMember(left, i, rest)]
  <2>1. PICK t \in Task : t = NextMember(left, i, rest)
    BY NextMemberType
  <2>2. Knows(t)
    BY <2>1, NextMemberKnows
  <2>3. Knows(t)'
    BY <2>2, KnowsStable
  <2> QED
    BY <1>1, <2>1, <2>3, TasksKnowStep
<1>2. CASE task' = [task EXCEPT ![w] = NextGroup(left)]
  <2>1. PICK t \in Task : t = NextGroup(left)
    BY NextMemberType
  <2>2. Knows(t)
    BY <2>1, NextMemberKnows
  <2>3. Knows(t)'
    BY <2>2, KnowsStable
  <2> QED
    BY <1>2, <2>1, <2>3, TasksKnowStep
<1> QED
  BY <1>1, <1>2

LEMMA TasksStep == IInv /\ [Next]_vars => TasksKnow'
<1> SUFFICES ASSUME IInv, [Next]_vars PROVE TasksKnow'
  OBVIOUS
<1>a. TypeOK /\ CanonicalAnchored /\ TasksKnow /\ Grows
  BY StepGrows DEF IInv
<1>b. ASSUME NEW w \in Worker, task' = [task EXCEPT ![w] = Idle]
      PROVE  TasksKnow'
  BY <1>a, <1>b, IdleKnows, TasksKnowStep
<1>1. ASSUME NEW e \in EntityId, Promote(e)
      PROVE  TasksKnow'
  BY <1>a, <1>1, TasksKnowFrame DEF Promote
<1>2. ASSUME NEW w \in Worker, NEW e \in EntityId, NEW by \in Actor, CreateRead(w, e, by)
      PROVE  TasksKnow'
  <2>1. PICK t \in Task : t = [op |-> "create", entity |-> e, by |-> by]
    BY DEF Task, CreateTask, Author
  <2>2. Knows(t)
    BY <1>2, <2>1 DEF CreateRead, Knows
  <2>3. Knows(t)'
    BY <1>a, <2>2, KnowsStable
  <2> QED
    BY <1>a, <1>2, <2>1, <2>3, TasksKnowStep DEF CreateRead
<1>3. ASSUME NEW w \in Worker, NEW i \in EntityId, NEW e \in EntityId, NEW by \in Actor,
             AttachRead(w, i, e, by)
      PROVE  TasksKnow'
  <2>1. PICK t \in Task : t = [op |-> "attach", identity |-> i, entity |-> e, by |-> by]
    BY DEF Task, AttachTask, Author
  <2>2. Knows(t)
    BY <1>3, <2>1 DEF AttachRead, Knows
  <2>3. Knows(t)'
    BY <1>a, <2>2, KnowsStable
  <2> QED
    BY <1>a, <1>3, <2>1, <2>3, TasksKnowStep DEF AttachRead
<1>4. ASSUME NEW w \in Worker, NEW i \in EntityId, NEW r \in Reference, ReferenceRead(w, i, r)
      PROVE  TasksKnow'
  <2>1. PICK t \in Task : t = [op |-> "reference", identity |-> i, reference |-> r]
    BY DEF Task, ReferenceTask
  <2>2. Knows(t)
    BY <1>4, <2>1 DEF ReferenceRead, Knows
  <2>3. Knows(t)'
    BY <1>a, <2>2, KnowsStable
  <2> QED
    BY <1>a, <1>4, <2>1, <2>3, TasksKnowStep DEF ReferenceRead
<1>5. ASSUME NEW w \in Worker, ResolveAssertions(w)
      PROVE  TasksKnow'
  <2>1. PICK t \in Task : t = [op |-> "scan", named |-> Promoted]
    BY DEF Task, ScanTask, Promoted
  <2>2. Knows(t)'
    BY <2>1 DEF Knows
  <2> QED
    BY <1>a, <1>5, <2>1, <2>2, TasksKnowStep DEF ResolveAssertions
<1>6. ASSUME NEW w \in Worker, ResolveEntities(w)
      PROVE  TasksKnow'
  <2>1. PICK named \in SUBSET EntityId : named = task[w].named
    BY <1>a, <1>6, TaskFields DEF ResolveEntities, TypeOK, ScanTask
  <2>2. \A e \in Promoted : GroupOf(e, named) \in Group /\ GroupSound(GroupOf(e, named))
    BY <1>a, GroupOfNamesakes
  <2>3. PICK left \in SUBSET Group : left = {GroupOf(e, named) : e \in Promoted}
    BY <2>2
  <2>4. \A g \in left : GroupSound(g)
    BY <2>2, <2>3
  <2>5. PICK t \in Task : t = NextGroup(left)
    BY DEF NextGroup, Task, GroupsTask, Idle
  <2>6. Knows(t)
    BY <2>4, <2>5 DEF NextGroup, Knows, Idle, GroupSound
  <2>7. Knows(t)'
    BY <1>a, <2>6, KnowsStable
  <2> QED
    BY <1>a, <1>6, <2>1, <2>3, <2>5, <2>7, TasksKnowStep DEF ResolveEntities
<1>7. ASSUME NEW w \in Worker, NEW g \in Group, ResolveReuse(w, g)
      PROVE  TasksKnow'
  <2>1. PICK left \in SUBSET Group : left = task[w].left \ {g}
    BY <1>a, <1>7, TaskFields DEF ResolveReuse, TypeOK, GroupsTask
  <2>2. GroupSound(g) /\ \A h \in left : GroupSound(h)
    BY <1>a, <1>7, <2>1 DEF ResolveReuse, TasksKnow, Knows, GroupSound
  <2>3. g.first \in EntityId /\ g.rest \in SUBSET EntityId
    BY DEF Group
  <2>4. PICK i \in EntityId : i = membership[g.first].identity
    BY <1>a, <1>7, <2>3, MembershipType DEF ResolveReuse
  <2>5. \A e \in g.rest : HasNamesake(i, e)
    BY <1>7, <2>2, <2>3, <2>4 DEF ResolveReuse, HasNamesake, GroupSound, SameName
  <2> QED
    BY <1>a, <1>7, <2>1, <2>2, <2>3, <2>4, <2>5, MovesOn DEF ResolveReuse, GroupSound
<1>8. ASSUME NEW w \in Worker, NEW g \in Group, ResolveCreateRead(w, g)
      PROVE  TasksKnow'
  <2>1. PICK left \in SUBSET Group : left = task[w].left \ {g}
    BY <1>a, <1>8, TaskFields DEF ResolveCreateRead, TypeOK, GroupsTask
  <2>2. GroupSound(g) /\ \A h \in left : GroupSound(h)
    BY <1>a, <1>8, <2>1 DEF ResolveCreateRead, TasksKnow, Knows, GroupSound
  <2>3. PICK t \in Task : t = [op |-> "canonical", left |-> left, group |-> g]
    BY DEF Task, CanonicalTask
  <2>4. Knows(t)
    BY <2>2, <2>3 DEF Knows, GroupSound
  <2>5. Knows(t)'
    BY <1>a, <2>4, KnowsStable
  <2> QED
    BY <1>a, <1>8, <2>1, <2>3, <2>5, TasksKnowStep DEF ResolveCreateRead
<1>9. ASSUME NEW w \in Worker, ResolveCreateCommit(w)
      PROVE  TasksKnow'
  <2>1. PICK left \in SUBSET Group, g \in Group : left = task[w].left /\ g = task[w].group
    BY <1>a, <1>9, TaskFields DEF ResolveCreateCommit, TypeOK, CanonicalTask
  <2>2. GroupSound(g) /\ \A h \in left : GroupSound(h)
    BY <1>a, <1>9, <2>1 DEF ResolveCreateCommit, TasksKnow, Knows, GroupSound
  <2>3. GroupSound(g)' /\ \A h \in left : GroupSound(h)'
    BY <1>a, <2>2, GroupStaysSound
  <2>4. g.first \in EntityId /\ g.rest \in SUBSET EntityId
    BY DEF Group
  <2>5. [identity |-> g.first, kind |-> "canonical", by |-> Resolver] # NoRow
    BY <2>4 DEF Membership, Author
  <2>6. membership'[g.first] = [identity |-> g.first, kind |-> "canonical", by |-> Resolver]
    BY <1>a, <1>9, <2>1, <2>4 DEF ResolveCreateCommit, CreateIdentity, SameIdentity, TypeOK
  <2>7. \A e \in g.rest : HasNamesake(g.first, e)'
    BY <2>2, <2>4, <2>5, <2>6 DEF HasNamesake, GroupSound, SameName
  <2>8. PICK t \in Task : t = NextMember(left, g.first, g.rest)
    BY <2>4, NextMemberType
  <2>9. PICK i \in EntityId, rest \in SUBSET EntityId : i = g.first /\ rest = g.rest
    BY <2>4
  <2>10. Knows(t)'
    BY <2>3, <2>7, <2>8, <2>9, NextMemberWillKnow DEF GroupSound
  <2> QED
    BY <1>a, <1>9, <2>1, <2>8, <2>10, TasksKnowStep DEF ResolveCreateCommit
<1>10. ASSUME NEW w \in Worker, ResolveCreateFail(w)
       PROVE  TasksKnow'
  <2>1. PICK left \in SUBSET Group, g \in Group : left = task[w].left /\ g = task[w].group
    BY <1>a, <1>10, TaskFields DEF ResolveCreateFail, TypeOK, CanonicalTask
  <2>2. \A h \in left : GroupSound(h)
    BY <1>a, <1>10, <2>1 DEF ResolveCreateFail, TasksKnow, Knows, GroupSound
  <2>3. PICK t \in Task : t = NextGroup(left)
    BY DEF NextGroup, Task, GroupsTask, Idle
  <2>4. Knows(t)
    BY <2>2, <2>3 DEF NextGroup, Knows, Idle, GroupSound
  <2>5. Knows(t)'
    BY <1>a, <2>4, KnowsStable
  <2> QED
    BY <1>a, <1>10, <2>1, <2>3, <2>5, TasksKnowStep DEF ResolveCreateFail
<1>11. ASSUME NEW w \in Worker, NEW e \in EntityId, ResolveAliasSkip(w, e)
       PROVE  TasksKnow'
  <2>1. PICK left \in SUBSET Group, i \in EntityId, rest \in SUBSET EntityId :
          left = task[w].left /\ i = task[w].identity /\ rest = task[w].rest \ {e}
    BY <1>a, <1>11, TaskFields DEF ResolveAliasSkip, TypeOK, AliasesTask
  <2>2. /\ \A h \in left : GroupSound(h)
        /\ rest \subseteq Promoted
        /\ \A f \in rest : HasNamesake(i, f)
    BY <1>a, <1>11, <2>1 DEF ResolveAliasSkip, TasksKnow, Knows, GroupSound
  <2> QED
    BY <1>a, <1>11, <2>1, <2>2, MovesOn DEF ResolveAliasSkip
<1>12. ASSUME NEW w \in Worker, NEW e \in EntityId, ResolveAliasRead(w, e)
       PROVE  TasksKnow'
  <2>1. PICK left \in SUBSET Group, i \in EntityId, rest \in SUBSET EntityId :
          left = task[w].left /\ i = task[w].identity /\ rest = task[w].rest \ {e}
    BY <1>a, <1>12, TaskFields DEF ResolveAliasRead, TypeOK, AliasesTask
  <2>2. /\ \A h \in left : GroupSound(h)
        /\ rest \cup {e} \subseteq Promoted
        /\ \A f \in rest \cup {e} : HasNamesake(i, f)
    BY <1>a, <1>12, <2>1 DEF ResolveAliasRead, TasksKnow, Knows, GroupSound
  <2>3. PICK t \in Task :
          t = [op |-> "alias", left |-> left, identity |-> i, rest |-> rest, entity |-> e]
    BY DEF Task, AliasTask
  <2>4. Knows(t)
    BY <2>2, <2>3 DEF Knows, GroupSound
  <2>5. Knows(t)'
    BY <1>a, <2>4, KnowsStable
  <2> QED
    BY <1>a, <1>12, <2>1, <2>3, <2>5, TasksKnowStep DEF ResolveAliasRead
<1>13. ASSUME NEW w \in Worker, ResolveAliasCommit(w) \/ ResolveAliasFail(w)
       PROVE  TasksKnow'
  <2>1. PICK left \in SUBSET Group, i \in EntityId, rest \in SUBSET EntityId :
          left = task[w].left /\ i = task[w].identity /\ rest = task[w].rest
    BY <1>a, <1>13, TaskFields DEF ResolveAliasCommit, ResolveAliasFail, TypeOK, AliasTask
  <2>2. /\ \A h \in left : GroupSound(h)
        /\ rest \subseteq Promoted
        /\ \A f \in rest : HasNamesake(i, f)
    BY <1>a, <1>13, <2>1 DEF ResolveAliasCommit, ResolveAliasFail, TasksKnow, Knows, GroupSound
  <2> QED
    BY <1>a, <1>13, <2>1, <2>2, MovesOn DEF ResolveAliasCommit, ResolveAliasFail
<1>14. ASSUME NEW w \in Worker,
              \/ CreateCommit(w)
              \/ AttachCommit(w)
              \/ ReferenceCommit(w)
              \/ Abandon(w)
       PROVE  TasksKnow'
  BY <1>b, <1>14 DEF CreateCommit, AttachCommit, ReferenceCommit, Abandon
<1>15. CASE UNCHANGED vars
  BY <1>a, <1>15, TasksKnowFrame DEF vars
<1> QED
  BY <1>1, <1>2, <1>3, <1>4, <1>5, <1>6, <1>7, <1>8, <1>9, <1>10, <1>11, <1>12, <1>13,
     <1>14, <1>15 DEF Next, Step, Resolve

LEMMA TablesStep == IInv /\ [Next]_vars => CanonicalAnchored' /\ AutoMergesByName'
<1> SUFFICES ASSUME IInv, [Next]_vars PROVE CanonicalAnchored' /\ AutoMergesByName'
  OBVIOUS
<1>a. TypeOK /\ CanonicalAnchored /\ AutoMergesByName /\ TasksKnow /\ Grows /\ Resolver \in Author
  BY StepGrows DEF IInv, Author
<1>1. ASSUME NEW w \in Worker, CreateCommit(w)
      PROVE  CanonicalAnchored' /\ AutoMergesByName'
  <2>1. PICK e \in EntityId, by \in Author : e = task[w].entity /\ by = task[w].by
    BY <1>a, <1>1, TaskFields DEF CreateCommit, TypeOK, CreateTask
  <2>2. e \in Promoted
    BY <1>a, <1>1, <2>1 DEF CreateCommit, TasksKnow, Knows
  <2>3. CreateIdentity(e, by)
    BY <1>1, <2>1 DEF CreateCommit
  <2> QED
    BY <1>a, <2>2, <2>3, CreateSound
<1>2. ASSUME NEW w \in Worker, AttachCommit(w)
      PROVE  CanonicalAnchored' /\ AutoMergesByName'
  <2>1. PICK i \in EntityId, e \in EntityId, by \in Author :
          i = task[w].identity /\ e = task[w].entity /\ by = task[w].by
    BY <1>a, <1>2, TaskFields DEF AttachCommit, TypeOK, AttachTask
  <2>2. e \in Promoted /\ by # Resolver /\ identities[i] # NoRow
    BY <1>a, <1>2, <2>1 DEF AttachCommit, TasksKnow, Knows
  <2>3. AttachAlias(i, e, by) /\ identities' = identities
    BY <1>2, <2>1 DEF AttachCommit
  <2> QED
    BY <1>a, <2>2, <2>3, AttachSound
<1>3. ASSUME NEW w \in Worker, ResolveCreateCommit(w)
      PROVE  CanonicalAnchored' /\ AutoMergesByName'
  <2>1. PICK e \in EntityId : e = task[w].group.first
    BY <1>a, <1>3, TaskFields DEF ResolveCreateCommit, TypeOK, CanonicalTask, Group
  <2>2. e \in Promoted
    BY <1>a, <1>3, <2>1 DEF ResolveCreateCommit, TasksKnow, Knows
  <2>3. CASE CreateIdentity(e, Resolver)
    BY <1>a, <2>2, <2>3, CreateSound
  <2>4. CASE UNCHANGED <<identities, membership>>
    BY <1>a, <2>4, TablesFrame
  <2> QED
    BY <1>3, <2>1, <2>3, <2>4 DEF ResolveCreateCommit
<1>4. ASSUME NEW w \in Worker, ResolveAliasCommit(w)
      PROVE  CanonicalAnchored' /\ AutoMergesByName'
  <2>1. PICK i \in EntityId, e \in EntityId : i = task[w].identity /\ e = task[w].entity
    BY <1>a, <1>4, TaskFields DEF ResolveAliasCommit, TypeOK, AliasTask
  <2>2. e \in Promoted /\ HasNamesake(i, e)
    BY <1>a, <1>4, <2>1 DEF ResolveAliasCommit, TasksKnow, Knows
  <2>3. identities[i] # NoRow
    BY <1>a, <2>2, MembershipType DEF HasNamesake, CanonicalAnchored
  <2>4. AttachAlias(i, e, Resolver) /\ identities' = identities
    BY <1>4, <2>1 DEF ResolveAliasCommit
  <2> QED
    BY <1>a, <2>2, <2>3, <2>4, AttachSound
<1>5. CASE UNCHANGED <<identities, membership>>
  BY <1>a, <1>5, TablesFrame
<1> QED
  BY <1>1, <1>2, <1>3, <1>4, <1>5 DEF Next, Step, Resolve, vars, tables, Promote,
     CreateRead, AttachRead, ReferenceRead, ReferenceCommit, ResolveAssertions, ResolveEntities,
     ResolveReuse, ResolveCreateRead, ResolveCreateFail, ResolveAliasSkip, ResolveAliasRead,
     ResolveAliasFail, Abandon

\* The tables stay sound, because every call in flight knows namesakes and
\* identities that nobody takes away before it writes.
THEOREM Inductive == Spec => []IInv
<1>1. IInv /\ [Next]_vars => IInv'
  <2> SUFFICES ASSUME IInv, [Next]_vars PROVE IInv'
    OBVIOUS
  <2>1. TypeOK'
    BY TypeStep DEF IInv
  <2> QED
    BY <2>1, TasksStep, TablesStep DEF IInv
<1> QED
  BY InitIInv, <1>1, PTL DEF Spec

\* Every identity keeps its entity as its one canonical member, and every alias
\* an identity that exists.
THEOREM IdentitiesAnchored == Spec => []CanonicalAnchored
<1>1. IInv => CanonicalAnchored
  BY DEF IInv
<1> QED
  BY <1>1, Inductive, PTL

\* Automatic resolution merges entities by their names only.
THEOREM ResolutionMergesByName == Spec => []AutoMergesByName
<1>1. IInv => AutoMergesByName
  BY DEF IInv
<1> QED
  BY <1>1, Inductive, PTL

-----------------------------------------------------------------------------
(* Queries *)

\* A query of each shape has the fields its shape promises.
LEMMA QueryFields ==
  ASSUME NEW q \in Query
  PROVE  /\ q.op \in {"none", "assertions", "bundles", "contexts", "conflict", "detail"}
         /\ q.op = "assertions" => q \in AssertionsRead
         /\ q.op = "bundles" => q \in BundlesRead
         /\ q.op = "contexts" => q \in Contexts
         /\ q.op = "conflict" => q \in Conflict
         /\ q.op = "detail" => q \in Detail
  BY DEF Query, NoQuery, AssertionsRead, BundlesRead, Contexts, Conflict, Detail

\* What a query adds up to needs rows only, and rows stay.
LEMMA AddsUpStable ==
  ASSUME TypeOK, Grows, NEW q \in Query, AddsUp(q)
  PROVE  AddsUp(q)'
<1>1. \A e \in EntityId : membership[e] # NoRow => membership'[e] = membership[e]
  BY DEF Grows, Keeps
<1>2. Promoted \subseteq Promoted' /\ Identities \subseteq Identities'
  BY DEF Grows, Keeps, Promoted, Identities, TypeOK
<1>3. \A i : MembersNow(i) \subseteq MembersNow(i)'
  BY <1>1, MembershipType DEF MembersNow, Membership
<1>4. \A shown \in Shown : ShownTruly(shown) => ShownTruly(shown)'
  BY <1>1 DEF Shown, ShownTruly
<1> QED
  BY <1>2, <1>3, <1>4, QueryFields DEF AddsUp, AssertionsRead, BundlesRead, Contexts, Conflict,
     Detail, ContextsAgree, DetailAgrees, ShownTruly

LEMMA CanonicalIsMember ==
  ASSUME TypeOK, CanonicalAnchored, NEW i \in EntityId, identities[i] # NoRow
  PROVE  membership[i] # NoRow /\ membership[i].identity = i /\ i \in MembersNow(i)
<1> DEFINE row == [identity |-> i, kind |-> "canonical", by |-> identities[i]]
<1>1. membership[i] = row
  BY DEF CanonicalAnchored
<1>2. identities[i] \in Author
  BY DEF TypeOK
<1>3. row \in Membership
  BY <1>2 DEF Membership
<1>4. row.identity = i
  OBVIOUS
<1> HIDE DEF row
<1> QED
  BY <1>1, <1>3, <1>4 DEF MembersNow

LEMMA EarlierQueries ==
  ASSUME QueryTypeOK, TypeOK', \A w \in Worker : AddsUp(query[w]), [Next]_vars, UNCHANGED query
  PROVE  QueryTypeOK' /\ (\A w \in Worker : AddsUp(query[w]))'
<1>1. TypeOK /\ Grows /\ query \in [Worker -> Query]
  BY StepGrows DEF QueryTypeOK
<1>2. \A w \in Worker : AddsUp(query[w])'
  BY <1>1, AddsUpStable
<1> QED
  BY <1>1, <1>2 DEF QueryTypeOK

\* What a query reads next adds up with what it has read, since the identities
\* come after the assertions, the members after the identities, and the
\* entities last.
LEMMA QueryStepAddsUp ==
  ASSUME QueryInv, NEW w \in Worker, QueryStep(w)
  PROVE  /\ query' \in [Worker -> Query]
         /\ \E q \in Query : AddsUp(q) /\ query' = [query EXCEPT ![w] = q]
<1>1. TypeOK /\ CanonicalAnchored /\ query \in [Worker -> Query]
  BY DEF QueryInv, QueryTypeOK, IInv
<1>2. query[w] \in Query /\ AddsUp(query[w])
  BY <1>1 DEF QueryInv
<1>3. Promoted \in SUBSET EntityId /\ Identities \in SUBSET EntityId
  BY DEF Promoted, Identities
<1>4. \A i : MembersNow(i) \in SUBSET EntityId
  BY DEF MembersNow
<1> SUFFICES \E q \in Query : AddsUp(q) /\ query' = [query EXCEPT ![w] = q]
  BY <1>1
<1>a. CASE QueryAssertions(w)
  <2> DEFINE q == [op |-> "assertions", named |-> Promoted]
  <2>1. q \in Query /\ AddsUp(q)
    BY <1>3 DEF Query, AssertionsRead, AddsUp
  <2> QED
    BY <1>a, <2>1 DEF QueryAssertions
<1>b. CASE QueryIdentities(w)
  <2> DEFINE none == [e \in EntityId |-> NoRow]
             q == [op |-> "bundles", named |-> query[w].named, left |-> Identities, shown |-> none]
  <2>1. query[w] \in AssertionsRead /\ query[w].named \subseteq Promoted
    BY <1>2, <1>b, QueryFields DEF QueryIdentities, AddsUp
  <2>2. none \in Shown /\ ShownTruly(none)
    BY DEF Shown, ShownTruly
  <2> HIDE DEF none
  <2>3. q \in Query /\ AddsUp(q)
    BY <1>3, <2>1, <2>2 DEF Query, AssertionsRead, BundlesRead, AddsUp
  <2>4. query' = [query EXCEPT ![w] = q]
    BY <1>1, <1>b DEF QueryIdentities, none
  <2> QED
    BY <2>3, <2>4
<1>c. ASSUME NEW i \in EntityId, QueryBundle(w, i)
      PROVE  \E q \in Query : AddsUp(q) /\ query' = [query EXCEPT ![w] = q]
  <2> DEFINE old == query[w].shown
             new == [e \in EntityId |-> IF e \in MembersNow(i) THEN i ELSE old[e]]
             q == [query[w] EXCEPT !.left = @ \ {i}, !.shown = new]
  <2>1. /\ query[w] \in BundlesRead /\ query[w].named \subseteq Promoted
        /\ query[w].left \subseteq Identities /\ ShownTruly(old) /\ i \in query[w].left
    BY <1>2, <1>c, QueryFields DEF QueryBundle, AddsUp
  <2>2. old \in Shown
    BY <2>1 DEF BundlesRead
  <2>3. i \in MembersNow(i)
    BY <1>1, <2>1, CanonicalIsMember DEF Identities
  <2> HIDE DEF old
  <2>4. new \in Shown
    BY <2>2 DEF Shown
  <2>5. ShownTruly(new)
    <3> SUFFICES ASSUME NEW e \in EntityId, new[e] # NoRow
                 PROVE  /\ membership[e] # NoRow /\ membership[e].identity = new[e]
                        /\ new[new[e]] = new[e]
      BY DEF ShownTruly
    <3>1. CASE e \in MembersNow(i)
      BY <2>3, <3>1 DEF MembersNow
    <3>2. CASE e \notin MembersNow(i)
      <4>1. new[e] = old[e] /\ old[e] \in EntityId
        BY <2>2, <3>2 DEF Shown
      <4>2. /\ membership[e] # NoRow /\ membership[e].identity = old[e]
            /\ old[old[e]] = old[e]
        BY <2>1, <4>1 DEF ShownTruly
      <4>3. new[old[e]] = old[e]
        BY <2>1, <4>1, <4>2 DEF ShownTruly, MembersNow
      <4> QED
        BY <4>1, <4>2, <4>3
    <3> QED
      BY <3>1, <3>2
  <2> HIDE DEF new
  <2>6. q \in BundlesRead /\ q.op = "bundles" /\ q.named = query[w].named
        /\ q.left \subseteq Identities /\ q.shown = new
    BY <2>1, <2>4 DEF BundlesRead
  <2>7. q \in Query /\ AddsUp(q)
    BY <2>1, <2>5, <2>6 DEF Query, AddsUp
  <2>8. query' = [query EXCEPT ![w] = q]
    BY <1>1, <1>c, <2>1 DEF QueryBundle, BundlesRead, new, old
  <2> QED
    BY <2>7, <2>8
<1>d. ASSUME NEW i \in EntityId, QueryIdentity(w, i)
      PROVE  \E q \in Query : AddsUp(q) /\ query' = [query EXCEPT ![w] = q]
  <2> DEFINE c == query[w]
             detail(members, linked) ==
               [op |-> "detail", identity |-> i, entity |-> i,
                members |-> members, linked |-> linked]
             together == {e \in EntityId : c.shown[e] = c.shown[i]}
  <2>1. c \in Contexts /\ c.named \subseteq Promoted /\ ContextsAgree(c) /\ identities[i] # NoRow
    BY <1>2, <1>d, QueryFields DEF QueryIdentity, AddsUp
  <2>2. c.named \in SUBSET EntityId /\ c.shown \in Shown /\ c.named \subseteq c.listed
    BY <2>1 DEF Contexts, ContextsAgree
  <2>3. membership[i] # NoRow /\ membership[i].identity = i
    BY <1>1, <2>1, CanonicalIsMember
  <2>4. ASSUME NEW members \in SUBSET MembersNow(i), NEW linked \in SUBSET members, i \in members
        PROVE  detail(members, linked) \in Query /\ AddsUp(detail(members, linked))
    BY <1>4, <2>4 DEF Query, Detail, AddsUp, DetailAgrees
  <2>5. CASE i \notin c.listed
    <3> DEFINE q == [op |-> "conflict", named |-> c.named, identity |-> i]
    <3>1. q \in Query /\ AddsUp(q)
      BY <2>1, <2>2, <2>5 DEF Query, Conflict, AddsUp
    <3>2. query' = [query EXCEPT ![w] = q]
      BY <1>d, <2>5 DEF QueryIdentity
    <3> QED
      BY <3>1, <3>2
  <2>6. CASE i \in c.listed /\ c.shown[i] = NoRow
    <3>1. i \in MembersNow(i)
      BY <2>3 DEF MembersNow
    <3>2. query' = [query EXCEPT ![w] = detail(MembersNow(i), {i} \cap c.named)]
      BY <1>d, <2>6 DEF QueryIdentity
    <3> QED
      BY <2>4, <3>1, <3>2
  <2>7. CASE i \in c.listed /\ c.shown[i] # NoRow
    <3>1. c.shown[i] = i
      BY <2>1, <2>3, <2>7 DEF ContextsAgree, ShownTruly
    <3>2. together \in SUBSET MembersNow(i) /\ i \in together
      BY <2>1, <2>7, <3>1 DEF ContextsAgree, ShownTruly, MembersNow
    <3>3. Linked(c, i) \in SUBSET together
      BY <2>2, <2>7 DEF Linked
    <3>4. query' = [query EXCEPT ![w] = detail(together, Linked(c, i))]
      BY <1>d, <2>7 DEF QueryIdentity
    <3> QED
      BY <2>4, <3>2, <3>3, <3>4
  <2> QED
    BY <2>5, <2>6, <2>7
<1>e. CASE QueryEntities(w)
  <2> DEFINE old == query[w]
             q == [op |-> "contexts", named |-> old.named, shown |-> old.shown,
                   listed |-> Promoted]
  <2>1. old \in BundlesRead /\ old.named \subseteq Promoted /\ ShownTruly(old.shown)
    BY <1>2, <1>e, QueryFields DEF QueryEntities, AddsUp
  <2>2. old.shown \in Shown /\ old.named \in SUBSET EntityId
    BY <2>1 DEF BundlesRead
  <2>3. ASSUME NEW e \in EntityId, old.shown[e] # NoRow
        PROVE  {e, old.shown[e]} \subseteq Promoted
    <3>1. old.shown[e] \in EntityId
      BY <2>2, <2>3 DEF Shown
    <3>2. membership[e] # NoRow /\ membership[old.shown[e]] # NoRow
      BY <2>1, <2>3, <3>1 DEF ShownTruly
    <3> QED
      BY <1>1, <3>1, <3>2 DEF CanonicalAnchored
  <2>4. q \in Query /\ AddsUp(q)
    BY <1>3, <2>1, <2>2, <2>3 DEF Query, Contexts, AddsUp, ContextsAgree
  <2>5. query' = [query EXCEPT ![w] = q]
    BY <1>1, <1>e DEF QueryEntities, EntitiesListed
  <2> QED
    BY <2>4, <2>5
<1>f. CASE QueryEnd(w)
  <2>1. NoQuery \in Query /\ AddsUp(NoQuery)
    BY DEF Query, NoQuery, AddsUp
  <2> QED
    BY <1>f, <2>1 DEF QueryEnd
<1> QED
  BY <1>a, <1>b, <1>c, <1>d, <1>e, <1>f DEF QueryStep

\* Queries read only: everything proved of Identity holds beside them.
LEMMA QueriesStep == [QueryNext]_queryVars => [Next]_vars
  BY DEF QueryNext, QueryStep, Next, vars, queryVars

THEOREM QueriesReadOnly == QuerySpec => Spec
<1>1. QueryInit => Init
  BY DEF QueryInit
<1> QED
  BY <1>1, QueriesStep, PTL DEF QuerySpec, Spec

\* What an entity query answers is one story, whatever is promoted, created and
\* attached between its SELECTs.
THEOREM QueriesAddUp == QuerySpec => []AnswersAddUp
<1>1. QueryInit => QueryInv
  <2> SUFFICES ASSUME QueryInit PROVE QueryInv
    OBVIOUS
  <2>1. IInv /\ TypeOK
    BY InitIInv DEF QueryInit, IInv
  <2>2. NoQuery \in Query /\ AddsUp(NoQuery)
    BY DEF Query, NoQuery, AddsUp
  <2> QED
    BY <2>1, <2>2 DEF QueryInit, QueryInv, QueryTypeOK
<1>2. QueryInv /\ [QueryNext]_queryVars => QueryInv'
  <2> SUFFICES ASSUME QueryInv, [QueryNext]_queryVars PROVE QueryInv'
    OBVIOUS
  <2>1. [Next]_vars /\ IInv /\ TypeOK /\ query \in [Worker -> Query]
    BY QueriesStep DEF QueryInv, QueryTypeOK
  <2>2. IInv' /\ TypeOK'
    BY <2>1, TypeStep, TasksStep, TablesStep DEF IInv
  <2>3. CASE UNCHANGED query
    BY <2>1, <2>2, <2>3, EarlierQueries DEF QueryInv
  <2>4. ASSUME NEW w \in Worker, QueryStep(w)
        PROVE  QueryInv'
    <3>1. PICK q \in Query : AddsUp(q) /\ query' = [query EXCEPT ![w] = q]
      BY <2>4, QueryStepAddsUp
    <3>2. \A v \in Worker : query'[v] \in Query /\ AddsUp(query'[v])
      BY <2>1, <3>1 DEF QueryInv
    <3>3. UNCHANGED vars
      BY <2>4 DEF QueryStep
    <3>4. \A v \in Worker : AddsUp(query[v])'
      BY <2>1, <3>2, <3>3, StepGrows, AddsUpStable
    <3> QED
      BY <2>1, <2>2, <3>1, <3>4 DEF QueryInv, QueryTypeOK
  <2> QED
    BY <2>3, <2>4 DEF QueryNext, queryVars
<1>3. QueryInv => AnswersAddUp
  BY DEF QueryInv, AnswersAddUp, AddsUp
<1> QED
  BY <1>1, <1>2, <1>3, PTL DEF QuerySpec
=============================================================================
