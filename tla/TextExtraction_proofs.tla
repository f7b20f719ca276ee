------------------------- MODULE TextExtraction_proofs -------------------------
(***************************************************************************)
(* Proofs about GraphPromotion and GraphExport for every set of processes, *)
(* candidates, payloads, entities and aliases, and about TextExtraction:   *)
(* the pipeline accepts without a person only what cleared every bar, and  *)
(* it uses the promoted graph as GraphPromotion specifies.                 *)
(***************************************************************************)
EXTENDS TextExtraction, GraphExport, FiniteSetTheorems, FunctionTheorems, WellFoundedInduction, TLAPS

USE AliasAssumption, PayloadAssumption, SentinelAssumption

-----------------------------------------------------------------------------
(* Lists of fillers *)

\* A set of naturals that is not empty has a least element.
LEMMA LeastNatural ==
  ASSUME NEW T \in SUBSET Nat, T # {}
  PROVE  \E n \in T : \A m \in T : n <= m
<1> DEFINE R == {ss \in Nat \X Nat : ss[1] < ss[2]}
<1>1. IsWellFoundedOn(R, Nat)
  BY NatLessThanWellFounded DEF OpToRel
<1> HIDE DEF R
<1>2. PICK n \in T : \A m \in T : <<m, n>> \notin R
  BY <1>1, WFMin
<1>3. \A m \in T : <<m, n>> \notin R => n <= m
  BY DEF R
<1> QED
  BY <1>2, <1>3

\* Among fillers at distinct places there is a first one.
LEMMA FirstFiller ==
  ASSUME NEW S \in SUBSET Slot, S # {},
         \A s, t \in S : SamePlace(s, t) => s = t
  PROVE  \E s \in S : IsFirstOf(s, S)
<1> DEFINE Ranks == {RoleRank[s.role] : s \in S}
<1>1. Ranks \in SUBSET Nat /\ Ranks # {}
  BY DEF Slot
<1> HIDE DEF Ranks
<1>2. PICK n \in Ranks : \A m \in Ranks : n <= m
  BY <1>1, LeastNatural
<1> DEFINE L == {s \in S : RoleRank[s.role] = n}
           Places == {s.index : s \in L}
<1>3. Places \in SUBSET Nat /\ Places # {}
  BY <1>2 DEF Slot, Ranks
<1> HIDE DEF Places
<1>4. PICK i \in Places : \A j \in Places : i <= j
  BY <1>3, LeastNatural
<1>5. PICK s \in L : s.index = i
  BY DEF Places
<1>6. ASSUME NEW t \in S \ {s}
      PROVE  Precedes(s, t)
  <2>1. CASE RoleRank[t.role] = n
    <3>1. t \in L /\ t.role = s.role
      BY <1>5, <2>1 DEF Slot
    <3>2. s.index <= t.index
      BY <1>4, <1>5, <3>1 DEF Places
    <3>3. s.index # t.index
      BY <1>5, <1>6, <3>1 DEF SamePlace
    <3> QED
      BY <1>5, <3>1, <3>2, <3>3 DEF Precedes, Slot
  <2>2. CASE RoleRank[t.role] # n
    <3>1. RoleRank[t.role] \in Ranks /\ RoleRank[t.role] \in Nat /\ n \in Nat
      BY <1>1, <1>2, <1>6 DEF Slot, Ranks, AliasAssumption
    <3> QED
      BY <1>2, <1>5, <2>2, <3>1 DEF Precedes
  <2> QED
    BY <2>1, <2>2
<1> QED
  BY <1>5, <1>6 DEF IsFirstOf

\* The type an entity gets from its first mention is a type or none.
LEMMA FirstTypeType ==
  ASSUME NEW c \in CandidateId, NEW S \in SUBSET Payload[c].slots, NEW e \in Mentions(S)
  PROVE  FirstType(e, S) \in EntityType \cup {NoType}
<1> DEFINE M == {s \in S : s.entity = e}
<1>1. M \in SUBSET Slot /\ M # {}
  BY DEF Mentions, Body
<1>2. \A s, t \in M : SamePlace(s, t) => s = t
  BY ListAssumption DEF SamePlace
<1>3. \E s \in M : IsFirstOf(s, M)
  BY <1>1, <1>2, FirstFiller
<1>4. (CHOOSE s \in M : IsFirstOf(s, M)) \in M
  BY <1>3
<1> QED
  BY <1>1, <1>4 DEF FirstType, Slot

\* The canonical form of a body is a body with the same entities and types.
LEMMA CanonicalBody ==
  ASSUME NEW b \in Body, Canonicalizable(b)
  PROVE  /\ CanonicalizeBody(b) \in Body
         /\ \A s \in CanonicalizeBody(b).slots : \E u \in b.slots :
              s.entity = u.entity /\ s.etype = u.etype
<1> DEFINE T == {CanonicalSlot(s, b.slots) : s \in b.slots}
           f == [s \in b.slots |-> CanonicalSlot(s, b.slots)]
<1>1. b.slots \in SUBSET Slot /\ IsFiniteSet(b.slots)
  BY DEF Body
<1>2. \A s \in b.slots : CanonicalIndex(s, b.slots) \in Nat
  <2> SUFFICES ASSUME NEW s \in b.slots
               PROVE  CanonicalIndex(s, b.slots) \in Nat
    OBVIOUS
  <2> DEFINE P == {t \in b.slots : RoleAlias[t.role] = RoleAlias[s.role] /\ Precedes(t, s)}
  <2>1. IsFiniteSet(P)
    BY <1>1, FS_Subset
  <2> QED
    BY <2>1, FS_CardinalityType DEF CanonicalIndex
<1>3. \A s \in b.slots : RoleAlias[s.role] \in Role
  BY <1>1 DEF Canonicalizable, Slot
<1>4. \A s \in b.slots : /\ CanonicalSlot(s, b.slots) \in Slot
                         /\ CanonicalSlot(s, b.slots).entity = s.entity
                         /\ CanonicalSlot(s, b.slots).etype = s.etype
  <2> SUFFICES ASSUME NEW s \in b.slots
               PROVE  /\ CanonicalSlot(s, b.slots) \in Slot
                      /\ CanonicalSlot(s, b.slots).entity = s.entity
                      /\ CanonicalSlot(s, b.slots).etype = s.etype
    OBVIOUS
  <2>1. s \in Slot /\ CanonicalIndex(s, b.slots) \in Nat /\ RoleAlias[s.role] \in Role
    BY <1>1, <1>2, <1>3
  <2> QED
    BY <2>1 DEF CanonicalSlot, Slot
<1>5. f \in Surjection(b.slots, T)
  BY DEF Surjection
<1>6. IsFiniteSet(T)
  BY <1>1, <1>5, FS_Surjection
<1>7. PredicateAlias[b.predicate] \in Predicate
  BY DEF Canonicalizable, Body
<1> QED
  BY <1>4, <1>6, <1>7 DEF CanonicalizeBody, Body
-----------------------------------------------------------------------------
(* Types *)

\* A task of each shape has the fields its shape promises.
LEMMA TaskFields ==
  ASSUME NEW t \in Task
  PROVE  /\ t.op \in {"idle", "promote", "adopt", "compare", "rewrite"}
         /\ t.op = "promote" => t \in PromoteTask
         /\ t.op = "adopt" => t \in AdoptTask
         /\ t.op \in {"compare", "rewrite"} => t \in RecanonTask
  BY DEF Task, Idle, PromoteTask, AdoptTask, RecanonTask

\* Materializing fillers that clash with nothing keeps the entities there are,
\* adds the mentioned ones under the candidate's name, and bears every filler.
LEMMA Materialized ==
  ASSUME TypeOK, NEW c \in CandidateId, NEW S \in SUBSET Payload[c].slots,
         MaterializeEntities(S, c)
  PROVE  /\ entities' \in [EntityId -> EntityRow \cup {NoRow}]
         /\ \A e \in EntityId : entities[e] # NoRow => entities'[e] = entities[e]
         /\ \A e \in EntityId : entities'[e] # NoRow =>
              \/ entities'[e] = entities[e]
              \/ entities'[e].first = c /\ e \in Mentions(S)
         /\ ~TypeClash(S, c) => \A s \in S : Bears(s)'
<1>1. S \subseteq Slot
  BY PayloadAssumption DEF Body
<1>2. Mentions(S) \subseteq EntityId
  BY <1>1 DEF Mentions, Slot
<1>3. ASSUME NEW e \in EntityId
      PROVE  /\ EntityAfter(e, S, c) \in EntityRow \cup {NoRow}
             /\ entities[e] # NoRow => EntityAfter(e, S, c) = entities[e]
             /\ EntityAfter(e, S, c) # NoRow =>
                  \/ EntityAfter(e, S, c) = entities[e]
                  \/ EntityAfter(e, S, c).first = c /\ e \in Mentions(S)
             /\ e \in Mentions(S) => EntityAfter(e, S, c) # NoRow
  <2>1. CASE entities[e] # NoRow \/ e \notin Mentions(S)
    BY <2>1 DEF EntityAfter, TypeOK
  <2>2. CASE entities[e] = NoRow /\ e \in Mentions(S)
    <3>1. [etype |-> FirstType(e, S), first |-> c] \in EntityRow
      BY <2>2, FirstTypeType DEF EntityRow
    <3>2. EntityAfter(e, S, c) = [etype |-> FirstType(e, S), first |-> c]
      BY <2>2 DEF EntityAfter
    <3> QED
      BY <2>2, <3>1, <3>2, SentinelAssumption
  <2> QED
    BY <2>1, <2>2
<1>4. \A e \in EntityId : entities'[e] = EntityAfter(e, S, c)
  BY DEF MaterializeEntities
<1>5. entities' \in [EntityId -> EntityRow \cup {NoRow}]
  BY <1>3 DEF MaterializeEntities
<1>6. ASSUME ~TypeClash(S, c), NEW s \in S
      PROVE  Bears(s)'
  <2>1. s.entity # NoEntity => s.entity \in Mentions(S) /\ s.entity \in EntityId
    BY <1>2 DEF Mentions
  <2> QED
    BY <1>3, <1>4, <1>6, <2>1 DEF Bears, TypeClash
<1> QED
  BY <1>3, <1>4, <1>5, <1>6

LEMMA TypeInit == Init => TypeOK
  BY DEF Init, TypeOK, Task, Ledger!Init

\* Every step keeps the tables and the calls well typed; what a rewrite writes
\* is a body again.
LEMMA TypeStep == TypeOK /\ TasksKnow /\ [Next]_vars => TypeOK'
<1> SUFFICES ASSUME TypeOK, TasksKnow, [Next]_vars PROVE TypeOK'
  OBVIOUS
<1> USE DEF TypeOK
<1>1. CASE Review
  BY <1>1 DEF Review, graph, Ledger!File, Ledger!Decide
<1>2. ASSUME NEW w \in Worker, NEW c \in CandidateId, PromoteRead(w, c)
      PROVE  TypeOK'
  BY <1>2 DEF PromoteRead, graph, Task, PromoteTask
<1>3. ASSUME NEW w \in Worker, PromoteCommit(w)
      PROVE  TypeOK'
  <2>1. task[w] \in PromoteTask
    BY <1>3, TaskFields DEF PromoteCommit
  <2>2. PICK c \in CandidateId : c = task[w].candidate
    BY <2>1 DEF PromoteTask
  <2>3. task' \in [Worker -> Task]
    BY <1>3 DEF PromoteCommit, Task
  <2>4. CASE PromoteInsert(c)
    <3>1. entities' \in [EntityId -> EntityRow \cup {NoRow}]
      BY <2>4, Materialized DEF PromoteInsert
    <3>2. Payload[c] \in Body /\ Payload[c].slots \subseteq Slot
      BY PayloadAssumption DEF Body
    <3> QED
      BY <1>3, <2>3, <2>4, <3>1, <3>2 DEF PromoteCommit, PromoteInsert, MaterializeFillers
  <2>5. CASE PromoteRollback(c)
    BY <1>3, <2>3, <2>5 DEF PromoteCommit, PromoteRollback
  <2> QED
    BY <1>3, <2>2, <2>4, <2>5 DEF PromoteCommit
<1>4. ASSUME NEW w \in Worker, PromoteAdopt(w)
      PROVE  TypeOK'
  <2>1. task[w] \in PromoteTask
    BY <1>4, TaskFields DEF PromoteAdopt
  <2>2. PICK c \in CandidateId : c = task[w].candidate
    BY <2>1 DEF PromoteTask
  <2>3. [op |-> "adopt", candidate |-> c, left |-> Payload[c].slots] \in AdoptTask
    BY PayloadAssumption DEF AdoptTask, Body
  <2> QED
    BY <1>4, <2>2, <2>3 DEF PromoteAdopt, graph, Task
<1>5. ASSUME NEW w \in Worker, AdoptFiller(w)
      PROVE  TypeOK'
  <2>1. task[w] \in AdoptTask
    BY <1>5, TaskFields DEF AdoptFiller
  <2>2. PICK s \in task[w].left : task' = [task EXCEPT ![w].left = @ \ {s}]
    BY <1>5 DEF AdoptFiller
  <2>3. [task[w] EXCEPT !.left = @ \ {s}] \in AdoptTask
    BY <2>1 DEF AdoptTask
  <2> QED
    BY <1>5, <2>2, <2>3 DEF AdoptFiller, graph, Task
<1>6. ASSUME NEW w \in Worker, AdoptInsert(w)
      PROVE  TypeOK'
  <2>1. task[w] \in AdoptTask
    BY <1>6, TaskFields DEF AdoptInsert
  <2>2. PICK c \in CandidateId, left \in SUBSET Slot :
          c = task[w].candidate /\ left = task[w].left
    BY <2>1 DEF AdoptTask
  <2>3. left \in SUBSET Payload[c].slots
    BY <1>6, <2>2 DEF TasksKnow, Knows, AdoptInsert
  <2>4. entities' \in [EntityId -> EntityRow \cup {NoRow}]
    BY <1>6, <2>2, <2>3, Materialized DEF AdoptInsert
  <2> QED
    BY <1>6, <2>2, <2>4 DEF AdoptInsert, MaterializeFillers, Task
<1>7. ASSUME NEW w \in Worker, AdoptReturn(w)
      PROVE  TypeOK'
  BY <1>7 DEF AdoptReturn, graph, Task
<1>8. ASSUME NEW w \in Worker, NEW c \in CandidateId, RecanonRead(w, c)
      PROVE  TypeOK'
  BY <1>8 DEF RecanonRead, graph, Task, RecanonTask
<1>9. ASSUME NEW w \in Worker, RecanonCompare(w)
      PROVE  TypeOK'
  <2>1. task[w] \in RecanonTask
    BY <1>9, TaskFields DEF RecanonCompare
  <2>2. [task[w] EXCEPT !.op = "rewrite"] \in RecanonTask
    BY <2>1 DEF RecanonTask
  <2> QED
    BY <1>9, <2>2 DEF RecanonCompare, graph, Task
<1>10. ASSUME NEW w \in Worker, RecanonCommit(w)
       PROVE  TypeOK'
  <2>1. task[w] \in RecanonTask
    BY <1>10, TaskFields DEF RecanonCommit
  <2>2. PICK c \in CandidateId, before \in Body :
          c = task[w].candidate /\ before = task[w].before
    BY <2>1 DEF RecanonTask
  <2>3. Canonicalizable(before)
    BY <1>10, <2>2 DEF TasksKnow, Knows, RecanonCommit
  <2>4. PICK after \in Body : after = CanonicalizeBody(before)
    BY <2>3, CanonicalBody
  <2>5. after.slots \subseteq Slot /\ [before |-> before, after |-> after] \in Event
    BY DEF Body, Event
  <2>6. RewriteAssertion(c, after) /\ RecordEvent(c, before, after)
    BY <1>10, <2>2, <2>4 DEF RecanonCommit
  <2>7. events' \in [CandidateId -> Seq(Event)]
    BY <2>5, <2>6 DEF RecordEvent
  <2>8. assertions' \in [CandidateId -> Body \cup {NoRow}] /\ fillers' \in [CandidateId -> SUBSET Slot]
    BY <2>5, <2>6 DEF RewriteAssertion
  <2>9. task' \in [Worker -> Task]
    BY <1>10 DEF RecanonCommit, Task
  <2> QED
    BY <1>10, <2>7, <2>8, <2>9 DEF RecanonCommit
<1>11. ASSUME NEW w \in Worker, Abandon(w)
       PROVE  TypeOK'
  BY <1>11 DEF Abandon, graph, Task
<1>12. CASE UNCHANGED vars
  BY <1>12 DEF vars
<1> QED
  BY <1>1, <1>2, <1>3, <1>4, <1>5, <1>6, <1>7, <1>8, <1>9, <1>10, <1>11, <1>12
     DEF Next, Step
-----------------------------------------------------------------------------
(* The inductive invariant *)

\* What a call knows survives every step that keeps acceptances and assertions,
\* and adds no events without changing the assertion it rewrites.
Forward ==
  \A c \in CandidateId :
    /\ verdict[c] = "recorded" => verdict'[c] = "recorded"
    /\ assertions[c] # NoRow => assertions'[c] # NoRow
    /\ events'[c] = <<>> => events[c] = <<>>

LEMMA KnowsStable ==
  ASSUME NEW t \in Task, Knows(t), Forward
  PROVE  Knows(t)'
<1>1. CASE t.op \in {"promote", "adopt"}
  <2>1. t.candidate \in CandidateId
    BY <1>1, TaskFields DEF PromoteTask, AdoptTask
  <2> QED
    BY <1>1, <2>1 DEF Knows, Forward
<1>2. CASE t.op \in {"compare", "rewrite"}
  <2>1. t.candidate \in CandidateId
    BY <1>2, TaskFields DEF RecanonTask
  <2> QED
    BY <1>2, <2>1 DEF Knows, Forward
<1>3. CASE t.op = "idle"
  BY <1>3 DEF Knows
<1> QED
  BY <1>1, <1>2, <1>3, TaskFields

\* So it is enough to look at the call that takes the step.
LEMMA TasksKnowStep ==
  ASSUME TypeOK, TasksKnow, Forward, NEW w \in Worker,
         \A v \in Worker \ {w} : task'[v] = task[v],
         Knows(task[w])' \/ task'[w] = Idle
  PROVE  TasksKnow'
<1>1. ASSUME NEW v \in Worker \ {w}
      PROVE  Knows(task[v])'
  <2>1. PICK t \in Task : t = task[v]
    BY DEF TypeOK
  <2>2. Knows(t)'
    BY <2>1, KnowsStable DEF TasksKnow
  <2> QED
    BY <1>1, <2>1, <2>2
<1>2. ASSUME task'[w] = Idle
      PROVE  Knows(task[w])'
  BY <1>2 DEF Knows, Idle
<1> QED
  BY <1>1, <1>2 DEF TasksKnow

\* A step that only moves a call on leaves the tables as sound as they were.
LEMMA ReadStep ==
  ASSUME IInv, TypeOK', UNCHANGED <<verdict, graph>>, NEW w \in Worker,
         \A v \in Worker \ {w} : task'[v] = task[v],
         Knows(task[w])' \/ task'[w] = Idle
  PROVE  IInv'
<1>1. Forward
  BY DEF graph, Forward
<1>2. TasksKnow'
  BY <1>1, TasksKnowStep DEF IInv
<1>3. PromotedAreAccepted' /\ NoPartialPromotion' /\ EntitiesEarned' /\ BodyHasHistory'
  BY DEF IInv, graph, PromotedAreAccepted, NoPartialPromotion, EntitiesEarned, BodyHasHistory
<1>4. \A c \in CandidateId : AssertionSound(c)'
  BY DEF IInv, graph, AssertionSound, Bears, FilledFrom
<1> QED
  BY <1>2, <1>3, <1>4 DEF IInv

LEMMA InitIInv == Init => IInv
<1> SUFFICES ASSUME Init PROVE IInv
  OBVIOUS
<1>1. \A w \in Worker : Knows(task[w])
  BY DEF Init, Knows, Idle
<1> QED
  BY <1>1, TypeInit DEF Init, IInv, PromotedAreAccepted, NoPartialPromotion, EntitiesEarned,
     BodyHasHistory, AssertionSound, TasksKnow

\* A promotion that goes through, and a repair, both add fillers of the payload.
LEMMA StillBorne ==
  ASSUME NEW s, Bears(s), s.entity # NoEntity => s.entity \in EntityId,
         \A e \in EntityId : entities[e] # NoRow => entities'[e] = entities[e]
  PROVE  Bears(s)'
  BY DEF Bears

LEMMA PayloadTypes ==
  ASSUME NEW c \in CandidateId
  PROVE  /\ Payload[c] \in Body
         /\ Payload[c] # NoRow
         /\ Payload[c].slots \subseteq Slot
         /\ \A s \in Payload[c].slots : s.entity # NoEntity => s.entity \in EntityId
         /\ FilledFrom(Payload[c].slots, c)
  BY PayloadAssumption, SentinelAssumption DEF Body, Slot, FilledFrom, SameFilling

\* Reviews do not touch the graph, and take no acceptance back.
LEMMA ReviewStep == IInv /\ Review /\ TypeOK' => IInv'
<1> SUFFICES ASSUME IInv, Review, TypeOK' PROVE IInv'
  OBVIOUS
<1>1. UNCHANGED <<assertions, entities, fillers, events, task>>
  BY DEF Review, graph
<1>2. \A c \in CandidateId : verdict[c] = "recorded" => verdict'[c] = "recorded"
  BY DEF Review, Ledger!File, Ledger!Decide, IInv, TypeOK
<1>3. Forward
  BY <1>1, <1>2 DEF Forward
<1>4. ASSUME NEW w \in Worker
      PROVE  Knows(task[w])'
  <2>1. PICK t \in Task : t = task[w]
    BY DEF IInv, TypeOK
  <2>2. Knows(t)'
    BY <2>1, <1>3, KnowsStable DEF IInv, TasksKnow
  <2> QED
    BY <1>1, <2>1, <2>2
<1>5. PromotedAreAccepted' /\ NoPartialPromotion' /\ EntitiesEarned' /\ BodyHasHistory'
  BY <1>1, <1>2 DEF IInv, PromotedAreAccepted, NoPartialPromotion, EntitiesEarned, BodyHasHistory
<1>6. \A c \in CandidateId : AssertionSound(c)'
  BY <1>1 DEF IInv, AssertionSound, Bears, FilledFrom
<1> QED
  BY <1>4, <1>5, <1>6 DEF IInv, TasksKnow

\* Inserting fillers of a candidate's payload, for an assertion that is there
\* afterwards, keeps the graph sound.
LEMMA InsertStep ==
  ASSUME IInv, TypeOK', NEW c \in CandidateId, NEW S \in SUBSET Payload[c].slots,
         MaterializeEntities(S, c), MaterializeFillers(S, c), ~TypeClash(S, c),
         UNCHANGED <<verdict, events>>, verdict[c] = "recorded",
         \/ assertions[c] # NoRow /\ assertions' = assertions
         \/ /\ assertions[c] = NoRow
            /\ S = Payload[c].slots
            /\ assertions' = [assertions EXCEPT ![c] = Payload[c]]
  PROVE  /\ PromotedAreAccepted' /\ NoPartialPromotion' /\ EntitiesEarned' /\ BodyHasHistory'
         /\ \A d \in CandidateId : AssertionSound(d)'
         /\ Forward
<1>1. /\ \A e \in EntityId : entities[e] # NoRow => entities'[e] = entities[e]
      /\ \A e \in EntityId : entities'[e] # NoRow =>
           \/ entities'[e] = entities[e]
           \/ entities'[e].first = c /\ e \in Mentions(S)
      /\ \A s \in S : Bears(s)'
  BY Materialized DEF IInv
<1>2. /\ assertions'[c] # NoRow
      /\ \A d \in CandidateId : assertions[d] # NoRow => assertions'[d] = assertions[d]
      /\ \A d \in CandidateId \ {c} : assertions'[d] = assertions[d]
      /\ assertions[c] = NoRow => assertions'[c] = Payload[c]
  BY PayloadTypes DEF IInv, TypeOK
<1>3. /\ fillers'[c] = fillers[c] \cup S
      /\ \A d \in CandidateId \ {c} : fillers'[d] = fillers[d]
  BY DEF MaterializeFillers, IInv, TypeOK
<1>4. PromotedAreAccepted'
  BY <1>2 DEF IInv, PromotedAreAccepted
<1>5. NoPartialPromotion'
  <2> SUFFICES ASSUME NEW d \in CandidateId
               PROVE  IF assertions'[d] = NoRow THEN fillers'[d] = {}
                      ELSE assertions'[d].slots \subseteq fillers'[d]
    BY DEF NoPartialPromotion
  <2>1. CASE d = c
    BY <1>2, <1>3, <2>1 DEF IInv, NoPartialPromotion
  <2>2. CASE d # c
    BY <1>2, <1>3, <2>2 DEF IInv, NoPartialPromotion
  <2> QED
    BY <2>1, <2>2
<1>6. EntitiesEarned'
  <2> SUFFICES ASSUME NEW e \in EntityId, entities'[e] # NoRow
               PROVE  /\ assertions'[entities'[e].first] # NoRow
                      /\ e \in Mentions(Payload[entities'[e].first].slots)
    BY DEF EntitiesEarned
  <2>1. CASE entities'[e] = entities[e]
    <3>1. entities[e].first \in CandidateId
      BY <2>1, SentinelAssumption DEF IInv, TypeOK, EntityRow
    <3> QED
      BY <1>2, <2>1, <3>1 DEF IInv, EntitiesEarned
  <2>2. CASE entities'[e].first = c /\ e \in Mentions(S)
    BY <1>2, <2>2 DEF Mentions
  <2> QED
    BY <1>1, <2>1, <2>2
<1>7. BodyHasHistory'
  <2> SUFFICES ASSUME NEW d \in CandidateId, assertions'[d] # NoRow
               PROVE  IF events[d] = <<>> THEN assertions'[d] = Payload[d]
                      ELSE /\ events[d][1].before = Payload[d]
                           /\ events[d][Len(events[d])].after = assertions'[d]
    BY DEF BodyHasHistory
  <2>1. CASE assertions[d] # NoRow
    BY <1>2, <2>1 DEF IInv, BodyHasHistory
  <2>2. CASE assertions[d] = NoRow
    BY <1>2, <2>2 DEF IInv, AssertionSound
  <2> QED
    BY <2>1, <2>2
<1>8. ASSUME NEW d \in CandidateId
      PROVE  AssertionSound(d)'
  <2>1. \A s \in Payload[d].slots : Bears(s) => Bears(s)'
    BY <1>1, PayloadTypes, StillBorne
  <2>2. CASE d # c
    BY <1>2, <1>3, <2>1, <2>2 DEF IInv, AssertionSound, FilledFrom
  <2>3. CASE d = c /\ assertions[c] # NoRow
    BY <1>2, <1>3, <2>1, <2>3 DEF IInv, AssertionSound, FilledFrom, SameFilling
  <2>4. CASE d = c /\ assertions[c] = NoRow
    BY <1>1, <1>2, <1>3, <2>4, PayloadTypes DEF IInv, AssertionSound, FilledFrom
  <2> QED
    BY <2>2, <2>3, <2>4
<1>9. Forward
  BY <1>2 DEF Forward
<1> QED
  BY <1>4, <1>5, <1>6, <1>7, <1>8, <1>9

\* A rewrite keeps the fillers those of the payload, in other places.
LEMMA RewriteStep ==
  ASSUME IInv, TypeOK', NEW w \in Worker, RecanonCommit(w)
  PROVE  IInv'
<1>1. task[w] \in RecanonTask /\ Knows(task[w])
  BY TaskFields DEF IInv, TypeOK, TasksKnow, RecanonCommit
<1>2. PICK c \in CandidateId, before \in Body :
        c = task[w].candidate /\ before = task[w].before
  BY <1>1 DEF RecanonTask
<1>3. PICK after \in Body :
        /\ after = CanonicalizeBody(before)
        /\ \A s \in after.slots : \E u \in before.slots : SameFilling(s, u)
  BY <1>1, <1>2, CanonicalBody DEF RecanonCommit, Knows, SameFilling
<1>4. /\ RewriteAssertion(c, after)
      /\ RecordEvent(c, before, after)
      /\ task'[w] = Idle
      /\ \A v \in Worker \ {w} : task'[v] = task[v]
      /\ UNCHANGED <<verdict, entities>>
  BY <1>2, <1>3 DEF RecanonCommit, IInv, TypeOK
<1>5. /\ assertions[c] # NoRow
      /\ FilledFrom(before.slots, c)
      /\ events[c] = <<>> => before = Payload[c]
  BY <1>1, <1>2 DEF RecanonCommit, Knows
<1>6. /\ assertions'[c] = after /\ after # NoRow
      /\ fillers'[c] = after.slots
      /\ events'[c] = Append(events[c], [before |-> before, after |-> after])
      /\ \A d \in CandidateId \ {c} : /\ assertions'[d] = assertions[d]
                                      /\ fillers'[d] = fillers[d]
                                      /\ events'[d] = events[d]
  BY <1>4, SentinelAssumption DEF RewriteAssertion, RecordEvent, IInv, TypeOK
<1>7. events[c] \in Seq(Event)
  BY DEF IInv, TypeOK
<1>8. Forward
  BY <1>4, <1>6, <1>7 DEF Forward
<1>9. TasksKnow'
  BY <1>4, <1>8, TasksKnowStep DEF IInv
<1>10. PromotedAreAccepted'
  BY <1>4, <1>5, <1>6 DEF IInv, PromotedAreAccepted
<1>11. NoPartialPromotion'
  BY <1>6 DEF IInv, NoPartialPromotion
<1>12. EntitiesEarned'
  <2>1. \A e \in EntityId : entities[e] # NoRow => entities[e].first \in CandidateId
    BY SentinelAssumption DEF IInv, TypeOK, EntityRow
  <2> QED
    BY <1>4, <1>5, <1>6, <2>1 DEF IInv, EntitiesEarned
<1>13. BodyHasHistory'
  <2> SUFFICES ASSUME NEW d \in CandidateId, assertions'[d] # NoRow
               PROVE  IF events'[d] = <<>> THEN assertions'[d] = Payload[d]
                      ELSE /\ events'[d][1].before = Payload[d]
                           /\ events'[d][Len(events'[d])].after = assertions'[d]
    BY DEF BodyHasHistory
  <2>1. CASE d # c
    BY <1>6, <2>1 DEF IInv, BodyHasHistory
  <2>2. CASE d = c /\ events[c] = <<>>
    <3>1. PICK x \in Event : x = [before |-> before, after |-> after]
      BY DEF Event
    <3>2. Append(<<>>, x) = <<x>>
      OBVIOUS
    <3>3. events'[c] = <<x>> /\ events'[c] # <<>> /\ Len(events'[c]) = 1 /\ events'[c][1] = x
      BY <1>6, <2>2, <3>1, <3>2
    <3>4. x.before = before /\ x.after = after
      BY <3>1
    <3> QED
      BY <1>5, <1>6, <2>2, <3>1, <3>3, <3>4
  <2>3. CASE d = c /\ events[c] # <<>>
    <3>1. Len(events[c]) \in Nat \ {0}
      BY <1>7, <2>3
    <3>2. events[c][1].before = Payload[c]
      BY <1>5, <2>3 DEF IInv, BodyHasHistory
    <3>3. PICK x \in Event : x = [before |-> before, after |-> after]
      BY DEF Event
    <3>4. events'[c] = Append(events[c], x) /\ x.before = before /\ x.after = after
      BY <1>6, <3>3
    <3>5. /\ Len(events'[c]) = Len(events[c]) + 1
          /\ events'[c][1] = events[c][1]
          /\ events'[c][Len(events[c]) + 1] = x
      BY <1>7, <3>1, <3>4
    <3>6. events'[c] # <<>>
      BY <3>1, <3>5
    <3>7. events'[c][1].before = Payload[c]
      BY <3>2, <3>5
    <3>8. events'[c][Len(events'[c])].after = assertions'[c]
      BY <1>6, <3>4, <3>5
    <3> QED
      BY <2>3, <3>6, <3>7, <3>8
  <2> QED
    BY <2>1, <2>2, <2>3
<1>14. ASSUME NEW d \in CandidateId
       PROVE  AssertionSound(d)'
  <2>1. FilledFrom(after.slots, c)
    BY <1>3, <1>5 DEF FilledFrom, SameFilling
  <2>2. CASE d = c
    <3>1. \A s \in Payload[c].slots : Bears(s)'
      BY <1>4, <1>5 DEF IInv, AssertionSound, Bears
    <3> QED
      BY <1>6, <2>1, <2>2, <3>1 DEF AssertionSound, FilledFrom
  <2>3. CASE d # c
    BY <1>4, <1>6, <2>3 DEF IInv, AssertionSound, Bears, FilledFrom
  <2> QED
    BY <2>2, <2>3
<1> QED
  BY <1>9, <1>10, <1>11, <1>12, <1>13, <1>14 DEF IInv

\* Every step of every call, and every review, keeps the invariant.
LEMMA StepIInv == IInv /\ [Next]_vars => IInv'
<1> SUFFICES ASSUME IInv, [Next]_vars PROVE IInv'
  OBVIOUS
<1>t. TypeOK'
  BY TypeStep DEF IInv
<1>1. CASE Review
  BY <1>1, <1>t, ReviewStep
<1>2. ASSUME NEW w \in Worker, NEW c \in CandidateId, PromoteRead(w, c)
      PROVE  IInv'
  <2>1. Knows([op |-> "promote", candidate |-> c])'
    BY <1>2 DEF PromoteRead, Promotable, Knows
  <2> QED
    BY <1>2, <1>t, <2>1, ReadStep DEF PromoteRead, IInv, TypeOK
<1>3. ASSUME NEW w \in Worker, PromoteCommit(w)
      PROVE  IInv'
  <2>1. task[w] \in PromoteTask /\ Knows(task[w])
    BY <1>3, TaskFields DEF PromoteCommit, IInv, TypeOK, TasksKnow
  <2>2. PICK c \in CandidateId : c = task[w].candidate
    BY <2>1 DEF PromoteTask
  <2>3. verdict[c] = "recorded"
    BY <1>3, <2>1, <2>2 DEF PromoteCommit, Knows
  <2>4. task'[w] = Idle /\ \A v \in Worker \ {w} : task'[v] = task[v]
    BY <1>3 DEF PromoteCommit, IInv, TypeOK
  <2>5. CASE ~TypeClash(Payload[c].slots, c) /\ PromoteInsert(c)
    <3>1. /\ PromotedAreAccepted' /\ NoPartialPromotion' /\ EntitiesEarned' /\ BodyHasHistory'
          /\ \A d \in CandidateId : AssertionSound(d)'
          /\ Forward
      BY <1>3, <1>t, <2>2, <2>3, <2>5, InsertStep DEF PromoteCommit, PromoteInsert
    <3>2. TasksKnow'
      BY <2>4, <3>1, TasksKnowStep DEF IInv
    <3> QED
      BY <1>t, <3>1, <3>2 DEF IInv
  <2>6. CASE PromoteRollback(c)
    BY <1>3, <1>t, <2>4, <2>6, ReadStep DEF PromoteCommit, PromoteRollback, graph
  <2> QED
    BY <1>3, <2>2, <2>5, <2>6 DEF PromoteCommit
<1>4. ASSUME NEW w \in Worker, PromoteAdopt(w)
      PROVE  IInv'
  <2>1. task[w] \in PromoteTask /\ Knows(task[w])
    BY <1>4, TaskFields DEF PromoteAdopt, IInv, TypeOK, TasksKnow
  <2>2. PICK c \in CandidateId : c = task[w].candidate
    BY <2>1 DEF PromoteTask
  <2>3. Knows([op |-> "adopt", candidate |-> c, left |-> Payload[c].slots])'
    BY <1>4, <2>1, <2>2, PayloadTypes DEF PromoteAdopt, Knows, graph
  <2> QED
    BY <1>4, <1>t, <2>2, <2>3, ReadStep DEF PromoteAdopt, IInv, TypeOK
<1>5. ASSUME NEW w \in Worker, AdoptFiller(w)
      PROVE  IInv'
  <2>1. task[w] \in AdoptTask /\ Knows(task[w])
    BY <1>5, TaskFields DEF AdoptFiller, IInv, TypeOK, TasksKnow
  <2>2. PICK s \in task[w].left : task' = [task EXCEPT ![w].left = @ \ {s}]
    BY <1>5 DEF AdoptFiller
  <2>3. PICK t \in AdoptTask : t = [task[w] EXCEPT !.left = @ \ {s}]
    BY <2>1 DEF AdoptTask
  <2>4. task'[w] = t /\ \A v \in Worker \ {w} : task'[v] = task[v]
    BY <2>2, <2>3 DEF IInv, TypeOK
  <2>5. Knows(t)'
    BY <1>5, <2>1, <2>3 DEF AdoptFiller, AdoptTask, Knows, graph
  <2> QED
    BY <1>5, <1>t, <2>4, <2>5, ReadStep DEF AdoptFiller
<1>6. ASSUME NEW w \in Worker, AdoptInsert(w)
      PROVE  IInv'
  <2>1. task[w] \in AdoptTask /\ Knows(task[w])
    BY <1>6, TaskFields DEF AdoptInsert, IInv, TypeOK, TasksKnow
  <2>a. PICK c \in CandidateId : c = task[w].candidate
    BY <2>1 DEF AdoptTask
  <2>b. PICK left \in SUBSET Payload[c].slots : left = task[w].left
    BY <1>6, <2>1, <2>a DEF AdoptInsert, Knows
  <2>2. c = task[w].candidate /\ left = task[w].left
    BY <2>a, <2>b
  <2>3. verdict[c] = "recorded" /\ assertions[c] # NoRow
    BY <1>6, <2>1, <2>2 DEF AdoptInsert, Knows
  <2>4. task'[w] = Idle /\ \A v \in Worker \ {w} : task'[v] = task[v]
    BY <1>6 DEF AdoptInsert, IInv, TypeOK
  <2>5. /\ PromotedAreAccepted' /\ NoPartialPromotion' /\ EntitiesEarned' /\ BodyHasHistory'
        /\ \A d \in CandidateId : AssertionSound(d)'
        /\ Forward
    BY <1>6, <1>t, <2>2, <2>3, InsertStep DEF AdoptInsert
  <2>6. TasksKnow'
    BY <2>4, <2>5, TasksKnowStep DEF IInv
  <2> QED
    BY <1>t, <2>5, <2>6 DEF IInv
<1>7. ASSUME NEW w \in Worker, AdoptReturn(w)
      PROVE  IInv'
  BY <1>7, <1>t, ReadStep DEF AdoptReturn, IInv, TypeOK
<1>8. ASSUME NEW w \in Worker, NEW c \in CandidateId, RecanonRead(w, c)
      PROVE  IInv'
  <2>1. PICK b \in Body : b = assertions[c]
    BY <1>8 DEF RecanonRead, IInv, TypeOK
  <2>2. task'[w] = [op |-> "compare", candidate |-> c, before |-> b]
        /\ \A v \in Worker \ {w} : task'[v] = task[v]
    BY <1>8, <2>1 DEF RecanonRead, IInv, TypeOK
  <2>3. Knows([op |-> "compare", candidate |-> c, before |-> b])'
    BY <1>8, <2>1 DEF RecanonRead, Knows, graph, IInv, AssertionSound, BodyHasHistory
  <2> QED
    BY <1>8, <1>t, <2>2, <2>3, ReadStep DEF RecanonRead
<1>9. ASSUME NEW w \in Worker, RecanonCompare(w)
      PROVE  IInv'
  <2>1. task[w] \in RecanonTask /\ Knows(task[w])
    BY <1>9, TaskFields DEF RecanonCompare, IInv, TypeOK, TasksKnow
  <2>2. PICK t \in RecanonTask : t = [task[w] EXCEPT !.op = "rewrite"]
    BY <2>1 DEF RecanonTask
  <2>3. (task'[w] = t \/ task'[w] = Idle) /\ \A v \in Worker \ {w} : task'[v] = task[v]
    BY <1>9, <2>2 DEF RecanonCompare, IInv, TypeOK
  <2>4. Knows(t)'
    BY <1>9, <2>1, <2>2 DEF RecanonCompare, RecanonTask, Knows, graph
  <2> QED
    BY <1>9, <1>t, <2>3, <2>4, ReadStep DEF RecanonCompare
<1>10. ASSUME NEW w \in Worker, RecanonCommit(w)
       PROVE  IInv'
  BY <1>10, <1>t, RewriteStep
<1>11. ASSUME NEW w \in Worker, Abandon(w)
       PROVE  IInv'
  BY <1>11, <1>t, ReadStep DEF Abandon, IInv, TypeOK
<1>12. CASE UNCHANGED vars
  BY <1>12 DEF vars, IInv, TypeOK, PromotedAreAccepted, NoPartialPromotion, EntitiesEarned,
     BodyHasHistory, AssertionSound, Bears, FilledFrom, TasksKnow, Knows
<1> QED
  BY <1>1, <1>2, <1>3, <1>4, <1>5, <1>6, <1>7, <1>8, <1>9, <1>10, <1>11, <1>12
     DEF Next, Step

-----------------------------------------------------------------------------
(* Canonical bodies are lists, and canonical for good *)

\* The fillers that come before s in its merged role.
Before(s, S) == {t \in S : RoleAlias[t.role] = RoleAlias[s.role] /\ Precedes(t, s)}

\* Fillers at distinct places stand in a line.
LEMMA Line ==
  ASSUME NEW S \in SUBSET Slot, AtDistinctPlaces(S), NEW s \in S, NEW t \in S
  PROVE  /\ s # t => Precedes(s, t) \/ Precedes(t, s)
         /\ ~(Precedes(s, t) /\ Precedes(t, s))
         /\ \A u \in S : Precedes(s, t) /\ Precedes(t, u) => Precedes(s, u)
<1>1. /\ s.role \in Role /\ s.index \in Nat
      /\ t.role \in Role /\ t.index \in Nat
      /\ RoleRank[s.role] \in Nat /\ RoleRank[t.role] \in Nat
  BY DEF Slot
<1>2. s # t => Precedes(s, t) \/ Precedes(t, s)
  BY <1>1 DEF Precedes, AtDistinctPlaces, SamePlace
<1>3. ~(Precedes(s, t) /\ Precedes(t, s))
  BY <1>1 DEF Precedes
<1>4. ASSUME NEW u \in S, Precedes(s, t), Precedes(t, u)
      PROVE  Precedes(s, u)
  <2>1. u.role \in Role /\ u.index \in Nat /\ RoleRank[u.role] \in Nat
    BY DEF Slot
  <2> QED
    BY <1>1, <1>4, <2>1 DEF Precedes
<1> QED
  BY <1>2, <1>3, <1>4

LEMMA BeforeFinite ==
  ASSUME NEW S, IsFiniteSet(S), NEW s \in S
  PROVE  /\ IsFiniteSet(Before(s, S))
         /\ CanonicalIndex(s, S) = Cardinality(Before(s, S))
         /\ CanonicalIndex(s, S) \in Nat
<1>1. Before(s, S) \in SUBSET S
  BY DEF Before
<1>2. IsFiniteSet(Before(s, S))
  BY <1>1, FS_Subset
<1>3. Cardinality(Before(s, S)) \in Nat
  BY <1>2, FS_CardinalityType
<1> QED
  BY <1>2, <1>3 DEF CanonicalIndex, Before

\* Of two fillers that merge into one role, the first gets the smaller index.
LEMMA IndexGrows ==
  ASSUME NEW S \in SUBSET Slot, IsFiniteSet(S), AtDistinctPlaces(S), NEW s \in S, NEW t \in S,
         RoleAlias[s.role] = RoleAlias[t.role], Precedes(s, t)
  PROVE  CanonicalIndex(s, S) < CanonicalIndex(t, S)
<1>1. Before(s, S) \in SUBSET Before(t, S)
  BY Line DEF Before
<1>2. s \in Before(t, S) /\ s \notin Before(s, S)
  BY Line DEF Before
<1>3. /\ Cardinality(Before(s, S)) <= Cardinality(Before(t, S))
      /\ Cardinality(Before(s, S)) # Cardinality(Before(t, S))
  BY <1>1, <1>2, BeforeFinite, FS_Subset
<1> QED
  BY <1>3, BeforeFinite

\* A filler that is not at the head of its merged role has one right before it.
LEMMA IndexDense ==
  ASSUME NEW S \in SUBSET Slot, IsFiniteSet(S), AtDistinctPlaces(S), NEW s \in S,
         CanonicalIndex(s, S) > 0
  PROVE  \E u \in S : /\ RoleAlias[u.role] = RoleAlias[s.role]
                      /\ CanonicalIndex(u, S) = CanonicalIndex(s, S) - 1
<1> DEFINE B == Before(s, S)
           n == CanonicalIndex(s, S)
           Gaps == {n - CanonicalIndex(t, S) : t \in B}
<1>1. B # {}
  BY FS_EmptySet, BeforeFinite
<1>2. \A t \in B : /\ t \in S
                   /\ RoleAlias[t.role] = RoleAlias[s.role]
                   /\ CanonicalIndex(t, S) \in Nat
                   /\ CanonicalIndex(t, S) < n
  BY IndexGrows, BeforeFinite DEF Before
<1>3. Gaps \in SUBSET Nat /\ Gaps # {}
  BY <1>1, <1>2, BeforeFinite
<1>4. PICK u \in B : \A t \in B : n - CanonicalIndex(u, S) <= n - CanonicalIndex(t, S)
  <2> HIDE DEF Gaps
  <2>1. PICK g \in Gaps : \A h \in Gaps : g <= h
    BY <1>3, LeastNatural
  <2>2. PICK u \in B : g = n - CanonicalIndex(u, S)
    BY DEF Gaps
  <2> QED
    BY <2>1, <2>2 DEF Gaps
<1>5. B = Before(u, S) \cup {u}
  <2>1. ASSUME NEW t \in B, t # u
        PROVE  t \in Before(u, S)
    <3>1. ~Precedes(u, t)
      <4> SUFFICES ASSUME Precedes(u, t) PROVE FALSE
        OBVIOUS
      <4>1. CanonicalIndex(u, S) < CanonicalIndex(t, S)
        BY <1>2, <2>1, IndexGrows
      <4> QED
        BY <1>2, <1>4, <2>1, <4>1, BeforeFinite
    <3> QED
      BY <1>2, <2>1, <3>1, Line DEF Before
  <2>2. Before(u, S) \subseteq B
    BY <1>2, Line DEF Before
  <2> QED
    BY <2>1, <2>2
<1>6. u \in S /\ u \notin Before(u, S)
  BY <1>2, Line DEF Before
<1>7. Cardinality(B) = Cardinality(Before(u, S)) + 1
  <2>1. IsFiniteSet(Before(u, S))
    BY <1>6, BeforeFinite
  <2> HIDE DEF B
  <2> QED
    BY <1>5, <1>6, <2>1, FS_AddElement
<1> QED
  BY <1>2, <1>6, <1>7, BeforeFinite

\* Merging the roles of a body whose fillers are at distinct places yields lists.
LEMMA MergedLists ==
  ASSUME NEW b \in Body, Canonicalizable(b), AtDistinctPlaces(b.slots)
  PROVE  /\ AtDistinctPlaces(CanonicalizeBody(b).slots)
         /\ WithoutGaps(CanonicalizeBody(b).slots)
         /\ Cardinality(CanonicalizeBody(b).slots) = Cardinality(b.slots)
<1> DEFINE S == b.slots
           T == {CanonicalSlot(s, S) : s \in S}
           f == [s \in S |-> CanonicalSlot(s, S)]
<1>1. S \in SUBSET Slot /\ IsFiniteSet(S) /\ CanonicalizeBody(b).slots = T
  BY DEF Body, CanonicalizeBody
<1> HIDE DEF S
<1>2. ASSUME NEW s \in S
      PROVE  /\ s \in Slot
             /\ CanonicalSlot(s, S).role = RoleAlias[s.role]
             /\ CanonicalSlot(s, S).index = CanonicalIndex(s, S)
             /\ CanonicalIndex(s, S) \in Nat
  <2>1. s \in Slot /\ CanonicalIndex(s, S) \in Nat
    BY <1>1, BeforeFinite
  <2> QED
    BY <2>1 DEF CanonicalSlot, Slot
<1>3. \A s, t \in S : SamePlace(CanonicalSlot(s, S), CanonicalSlot(t, S)) => s = t
  <2> SUFFICES ASSUME NEW s \in S, NEW t \in S, s # t,
                      SamePlace(CanonicalSlot(s, S), CanonicalSlot(t, S))
               PROVE  FALSE
    OBVIOUS
  <2>1. RoleAlias[s.role] = RoleAlias[t.role] /\ CanonicalIndex(s, S) = CanonicalIndex(t, S)
    BY <1>2 DEF SamePlace
  <2>2. Precedes(s, t) \/ Precedes(t, s)
    BY <1>1, Line DEF S
  <2>3. CanonicalIndex(s, S) < CanonicalIndex(t, S) \/ CanonicalIndex(t, S) < CanonicalIndex(s, S)
    BY <1>1, <2>1, <2>2, IndexGrows DEF S
  <2> QED
    BY <1>2, <2>1, <2>3
<1>4. AtDistinctPlaces(T)
  BY <1>3 DEF AtDistinctPlaces
<1>5. WithoutGaps(T)
  <2> SUFFICES ASSUME NEW s \in S, CanonicalSlot(s, S).index > 0
               PROVE  \E u \in T : /\ u.role = CanonicalSlot(s, S).role
                                   /\ u.index = CanonicalSlot(s, S).index - 1
    BY DEF WithoutGaps
  <2>1. PICK u \in S : /\ RoleAlias[u.role] = RoleAlias[s.role]
                       /\ CanonicalIndex(u, S) = CanonicalIndex(s, S) - 1
    BY <1>1, <1>2, IndexDense DEF S
  <2> QED
    BY <1>2, <2>1
<1>6. f \in Bijection(S, T)
  <2>1. f \in Surjection(S, T)
    BY DEF Surjection
  <2>2. \A s, t \in S : f[s] = f[t] => s = t
    BY <1>3 DEF SamePlace
  <2>3. f \in Injection(S, T)
    BY <2>2 DEF Injection, IsInjective
  <2> QED
    BY <2>1, <2>3 DEF Bijection
<1>7. Cardinality(T) = Cardinality(S)
  BY <1>1, <1>6, FS_Bijection DEF ExistsBijection
<1> QED
  BY <1>1, <1>4, <1>5, <1>7 DEF S

\* In a list a filler stands behind as many others as its index says ...
LEMMA ListIndex ==
  ASSUME NEW S \in SUBSET Slot, AtDistinctPlaces(S), WithoutGaps(S),
         \A s \in S : RoleAlias[s.role] = s.role, NEW s \in S
  PROVE  CanonicalIndex(s, S) = s.index
<1> DEFINE B == Before(s, S)
           I == 0 .. (s.index - 1)
           f == [t \in B |-> t.index]
           Missing == {k \in Nat : k > 0 /\ k <= s.index /\
                         ~\E u \in S : u.role = s.role /\ u.index = s.index - k}
<1>1. \A t \in S : t.role \in Role /\ t.index \in Nat /\ RoleRank[t.role] \in Nat
  BY DEF Slot
<1>2. \A t \in S : t \in B <=> t.role = s.role /\ t.index < s.index
  BY <1>1 DEF Before, Precedes
<1>3. Missing = {}
  <2> SUFFICES ASSUME Missing # {} PROVE FALSE
    OBVIOUS
  <2>1. PICK k \in Missing : \A m \in Missing : k <= m
    BY LeastNatural
  <2>2. PICK u \in S : u.role = s.role /\ u.index = s.index - (k - 1)
    <3>1. CASE k = 1
      BY <1>1, <3>1
    <3>2. CASE k # 1
      BY <1>1, <2>1, <3>2
    <3> QED
      BY <3>1, <3>2
  <2>3. u.index > 0 /\ u.index - 1 = s.index - k
    BY <1>1, <2>1, <2>2
  <2> QED
    BY <2>1, <2>2, <2>3 DEF WithoutGaps
<1>4. f \in Bijection(B, I)
  <2>1. B \subseteq S
    BY DEF Before
  <2>2. f \in [B -> I]
    BY <1>1, <1>2, <2>1
  <2>3. \A t, u \in B : f[t] = f[u] => t = u
    BY <1>2, <2>1 DEF AtDistinctPlaces, SamePlace
  <2>4. ASSUME NEW i \in I
        PROVE  \E t \in B : f[t] = i
    <3>1. s.index - i \in Nat /\ s.index - i > 0 /\ s.index - i <= s.index
          /\ s.index - (s.index - i) = i
      BY <1>1
    <3>2. \E u \in S : u.role = s.role /\ u.index = i
      BY <1>3, <3>1
    <3> QED
      BY <1>1, <1>2, <3>2
  <2>5. f \in Injection(B, I)
    BY <2>2, <2>3 DEF Injection, IsInjective
  <2>6. f \in Surjection(B, I)
    BY <2>2, <2>4 DEF Surjection
  <2> QED
    BY <2>5, <2>6 DEF Bijection
<1>5. IsFiniteSet(I) /\ Cardinality(I) = s.index
  BY <1>1, FS_Interval
<1>6. ExistsBijection(I, B)
  BY <1>4, Fun_ExistsBijSymmetric DEF ExistsBijection
<1>7. Cardinality(B) = s.index
  BY <1>5, <1>6, FS_Bijection
<1> QED
  BY <1>7 DEF CanonicalIndex, Before

\* ... so a body of lists in canonical names is its own canonical form.
LEMMA CanonicalOfCanonical ==
  ASSUME NEW b \in Body, Canonicalizable(b), AtDistinctPlaces(b.slots)
  PROVE  CanonicalizeBody(CanonicalizeBody(b)) = CanonicalizeBody(b)
<1> DEFINE d == CanonicalizeBody(b)
<1>1. d \in Body /\ AtDistinctPlaces(d.slots) /\ WithoutGaps(d.slots)
  BY CanonicalBody, MergedLists
<1>2. d.predicate = PredicateAlias[b.predicate] /\ PredicateAlias[d.predicate] = d.predicate
  BY IdempotentAssumption DEF CanonicalizeBody, Canonicalizable, Body
<1>3. ASSUME NEW s \in d.slots
      PROVE  RoleAlias[s.role] = s.role
  <2>1. PICK u \in b.slots : s = CanonicalSlot(u, b.slots)
    BY DEF CanonicalizeBody
  <2>2. u \in Slot
    BY DEF Body
  <2>3. s.role = RoleAlias[u.role]
    BY <2>1, <2>2 DEF CanonicalSlot, Slot
  <2> QED
    BY <2>2, <2>3, IdempotentAssumption DEF Canonicalizable, Slot
<1> HIDE DEF d
<1>4. d.slots \in SUBSET Slot
  BY <1>1 DEF Body
<1>5. ASSUME NEW s \in d.slots
      PROVE  CanonicalSlot(s, d.slots) = s
  <2>1. CanonicalIndex(s, d.slots) = s.index
    BY <1>1, <1>3, <1>4, ListIndex
  <2> QED
    BY <1>3, <1>4, <2>1 DEF CanonicalSlot, Slot
<1>6. {CanonicalSlot(s, d.slots) : s \in d.slots} = d.slots
  BY <1>5
<1>7. CanonicalizeBody(d) = d
  BY <1>1, <1>2, <1>6 DEF CanonicalizeBody, Body
<1> QED
  BY <1>7 DEF d

\* So are payloads.
LEMMA PayloadLists ==
  ASSUME NEW c \in CandidateId
  PROVE  AtDistinctPlaces(Payload[c].slots) /\ WithoutGaps(Payload[c].slots)
  BY ListAssumption DEF AtDistinctPlaces, WithoutGaps, SamePlace

\* Whatever form a payload is in, its canonical form is that of the payload.
LEMMA FormedStays ==
  ASSUME NEW c \in CandidateId, NEW b \in Body, Formed(b, c), Canonicalizable(b)
  PROVE  /\ Canonicalizable(Payload[c])
         /\ CanonicalizeBody(b) = CanonicalizeBody(Payload[c])
         /\ AtDistinctPlaces(CanonicalizeBody(b).slots)
<1>1. Canonicalizable(Payload[c]) /\ CanonicalizeBody(b) = CanonicalizeBody(Payload[c])
  BY PayloadTypes, PayloadLists, CanonicalOfCanonical DEF Formed
<1> QED
  BY <1>1, PayloadTypes, PayloadLists, MergedLists

LEMMA FaithStep == IInv /\ FaithInv /\ [Next]_vars => FaithInv'
<1> SUFFICES ASSUME IInv, FaithInv, [Next]_vars PROVE FaithInv'
  OBVIOUS
\* A step of one call that leaves the tables alone.
<1>a. ASSUME NEW w \in Worker, UNCHANGED <<assertions, fillers>>,
             \A v \in Worker \ {w} : task'[v] = task[v],
             task'[w].op \in {"compare", "rewrite"} =>
               Formed(task'[w].before, task'[w].candidate)
      PROVE  FaithInv'
  BY <1>a DEF FaithInv, Formed, AtDistinctPlaces
<1>1. CASE Review
  BY <1>1 DEF Review, graph, FaithInv, Formed, AtDistinctPlaces
<1>2. ASSUME NEW w \in Worker, NEW c \in CandidateId, PromoteRead(w, c)
      PROVE  FaithInv'
  BY <1>2, <1>a DEF PromoteRead, graph, IInv, TypeOK
<1>3. ASSUME NEW w \in Worker, PromoteCommit(w)
      PROVE  FaithInv'
  <2>1. PICK c \in CandidateId : c = task[w].candidate
    BY <1>3, TaskFields DEF PromoteCommit, IInv, TypeOK, PromoteTask
  <2>2. task'[w] = Idle /\ \A v \in Worker \ {w} : task'[v] = task[v]
    BY <1>3 DEF PromoteCommit, IInv, TypeOK
  <2>3. CASE assertions[c] = NoRow /\ PromoteInsert(c)
    <3>1. assertions'[c] = Payload[c] /\ fillers'[c] = Payload[c].slots
      BY <2>3 DEF PromoteInsert, MaterializeFillers, IInv, TypeOK, NoPartialPromotion
    <3>2. \A d \in CandidateId \ {c} : assertions'[d] = assertions[d] /\ fillers'[d] = fillers[d]
      BY <2>3 DEF PromoteInsert, MaterializeFillers, IInv, TypeOK
    <3> QED
      BY <2>2, <3>1, <3>2, PayloadLists DEF FaithInv, Formed, AtDistinctPlaces, Idle
  <2>4. CASE PromoteRollback(c)
    BY <1>a, <2>2, <2>4 DEF PromoteRollback, Idle
  <2> QED
    BY <1>3, <2>1, <2>3, <2>4 DEF PromoteCommit
<1>4. ASSUME NEW w \in Worker, PromoteAdopt(w)
      PROVE  FaithInv'
  BY <1>4, <1>a DEF PromoteAdopt, graph, IInv, TypeOK
<1>5. ASSUME NEW w \in Worker, AdoptFiller(w)
      PROVE  FaithInv'
  <2>1. task[w] \in AdoptTask
    BY <1>5, TaskFields DEF AdoptFiller, IInv, TypeOK
  <2>2. task'[w].op = "adopt"
    BY <1>5, <2>1 DEF AdoptFiller, AdoptTask, IInv, TypeOK
  <2> QED
    BY <1>5, <1>a, <2>2 DEF AdoptFiller, graph, IInv, TypeOK
<1>6. ASSUME NEW w \in Worker, AdoptInsert(w)
      PROVE  FaithInv'
  <2>1. task[w] \in AdoptTask /\ Knows(task[w])
    BY <1>6, TaskFields DEF AdoptInsert, IInv, TypeOK, TasksKnow
  <2>2. PICK c \in CandidateId : c = task[w].candidate
    BY <2>1 DEF AdoptTask
  <2>3. PICK left \in SUBSET Payload[c].slots : left = task[w].left
    BY <1>6, <2>1, <2>2 DEF AdoptInsert, Knows
  <2>4. /\ fillers'[c] = fillers[c] \cup left
        /\ \A d \in CandidateId \ {c} : fillers'[d] = fillers[d]
        /\ \A s \in left, t \in fillers[c] : SamePlace(s, t) => s = t
        /\ assertions' = assertions
        /\ assertions[c] # NoRow
        /\ task'[w] = Idle
        /\ \A v \in Worker \ {w} : task'[v] = task[v]
    BY <1>6, <2>1, <2>2, <2>3 DEF AdoptInsert, MaterializeFillers, Knows, IInv, TypeOK
  <2>5. AtDistinctPlaces(fillers[c]) /\ AtDistinctPlaces(left)
    BY <2>4, PayloadLists DEF FaithInv, AtDistinctPlaces
  <2>6. AtDistinctPlaces(fillers'[c])
    BY <2>4, <2>5 DEF AtDistinctPlaces, SamePlace
  <2> QED
    BY <2>4, <2>6 DEF FaithInv, Formed, AtDistinctPlaces, Idle
<1>7. ASSUME NEW w \in Worker, AdoptReturn(w)
      PROVE  FaithInv'
  BY <1>7, <1>a DEF AdoptReturn, graph, IInv, TypeOK, Idle
<1>8. ASSUME NEW w \in Worker, NEW c \in CandidateId, RecanonRead(w, c)
      PROVE  FaithInv'
  <2>1. task'[w] = [op |-> "compare", candidate |-> c, before |-> assertions[c]]
    BY <1>8 DEF RecanonRead, IInv, TypeOK
  <2>2. Formed(assertions[c], c)
    BY <1>8 DEF RecanonRead, FaithInv
  <2> QED
    BY <1>8, <1>a, <2>1, <2>2 DEF RecanonRead, graph, IInv, TypeOK
<1>9. ASSUME NEW w \in Worker, RecanonCompare(w)
      PROVE  FaithInv'
  <2>1. task[w] \in RecanonTask
    BY <1>9, TaskFields DEF RecanonCompare, IInv, TypeOK
  <2>2. \/ task'[w] = Idle
        \/ task'[w].before = task[w].before /\ task'[w].candidate = task[w].candidate
    BY <1>9, <2>1 DEF RecanonCompare, RecanonTask, IInv, TypeOK
  <2>3. task'[w].op \in {"compare", "rewrite"} =>
          Formed(task'[w].before, task'[w].candidate)
    BY <1>9, <2>2 DEF RecanonCompare, FaithInv, Idle
  <2> QED
    BY <1>9, <1>a, <2>3 DEF RecanonCompare, graph, IInv, TypeOK
<1>10. ASSUME NEW w \in Worker, RecanonCommit(w)
       PROVE  FaithInv'
  <2>1. task[w] \in RecanonTask /\ Knows(task[w])
    BY <1>10, TaskFields DEF RecanonCommit, IInv, TypeOK, TasksKnow
  <2>2. PICK c \in CandidateId, b \in Body : c = task[w].candidate /\ b = task[w].before
    BY <2>1 DEF RecanonTask
  <2>3. Formed(b, c) /\ Canonicalizable(b)
    BY <1>10, <2>1, <2>2 DEF RecanonCommit, Knows, FaithInv
  <2>4. /\ Canonicalizable(Payload[c])
        /\ CanonicalizeBody(b) = CanonicalizeBody(Payload[c])
        /\ AtDistinctPlaces(CanonicalizeBody(b).slots)
    BY <2>3, FormedStays
  <2>5. /\ assertions'[c] = CanonicalizeBody(b)
        /\ fillers'[c] = CanonicalizeBody(b).slots
        /\ \A d \in CandidateId \ {c} : assertions'[d] = assertions[d] /\ fillers'[d] = fillers[d]
        /\ task'[w] = Idle
        /\ \A v \in Worker \ {w} : task'[v] = task[v]
    BY <1>10, <2>2 DEF RecanonCommit, RewriteAssertion, IInv, TypeOK
  <2> QED
    BY <2>4, <2>5 DEF FaithInv, Formed, AtDistinctPlaces, Idle
<1>11. ASSUME NEW w \in Worker, Abandon(w)
       PROVE  FaithInv'
  BY <1>11, <1>a DEF Abandon, graph, IInv, TypeOK, Idle
<1>12. CASE UNCHANGED vars
  BY <1>12 DEF vars, FaithInv, Formed, AtDistinctPlaces
<1> QED
  BY <1>1, <1>2, <1>3, <1>4, <1>5, <1>6, <1>7, <1>8, <1>9, <1>10, <1>11, <1>12
     DEF Next, Step

LEMMA Faithful == IInv /\ FaithInv => RewritesAreFaithful
<1> SUFFICES ASSUME IInv, FaithInv, NEW c \in CandidateId, assertions[c] # NoRow
             PROVE  /\ assertions[c] \in {Payload[c], CanonicalizeBody(Payload[c])}
                    /\ fillers[c] \subseteq Payload[c].slots \cup assertions[c].slots
                    /\ WithoutGaps(assertions[c].slots)
                    /\ AtDistinctPlaces(fillers[c])
                    /\ Cardinality(assertions[c].slots) = Cardinality(Payload[c].slots)
  BY DEF RewritesAreFaithful, NothingInvented, RolesAreLists, WithoutGaps, AtDistinctPlaces
<1>1. Formed(assertions[c], c)
  BY DEF FaithInv
<1>2. WithoutGaps(assertions[c].slots) /\ Cardinality(assertions[c].slots) = Cardinality(Payload[c].slots)
  BY <1>1, PayloadTypes, PayloadLists, MergedLists DEF Formed
<1> QED
  BY <1>1, <1>2 DEF FaithInv, Formed

-----------------------------------------------------------------------------
(* An export reading along *)

\* The entities of a body are those of its canonical form.
LEMMA CanonicalMentions ==
  ASSUME NEW b \in Body, Canonicalizable(b)
  PROVE  Mentions(CanonicalizeBody(b).slots) = Mentions(b.slots)
<1>1. ASSUME NEW s \in b.slots
      PROVE  CanonicalSlot(s, b.slots).entity = s.entity
  <2>1. s \in Slot
    BY DEF Body
  <2> QED
    BY <2>1 DEF CanonicalSlot, Slot
<1> QED
  BY <1>1 DEF Mentions, CanonicalizeBody

\* The fillers of a promoted assertion mention what its candidate was filed with.
LEMMA FillersMention ==
  ASSUME IInv, FaithInv, NEW c \in CandidateId, assertions[c] # NoRow
  PROVE  /\ Mentions(fillers[c]) = Mentions(Payload[c].slots)
         /\ fillers[c] \in SUBSET Slot
         /\ AtDistinctPlaces(fillers[c])
<1>1. Mentions(assertions[c].slots) = Mentions(Payload[c].slots)
  BY PayloadTypes, CanonicalMentions DEF FaithInv, Formed
<1>2. /\ assertions[c].slots \subseteq fillers[c]
      /\ fillers[c] \subseteq Payload[c].slots \cup assertions[c].slots
      /\ AtDistinctPlaces(fillers[c])
      /\ fillers[c] \in SUBSET Slot
  BY DEF IInv, TypeOK, NoPartialPromotion, FaithInv
<1>3. Mentions(assertions[c].slots) \subseteq Mentions(fillers[c])
  BY <1>2 DEF Mentions
<1>4. Mentions(fillers[c]) \subseteq Mentions(Payload[c].slots) \cup Mentions(assertions[c].slots)
  BY <1>2 DEF Mentions
<1> QED
  BY <1>1, <1>2, <1>3, <1>4

\* A role with an entity has a first one, an end without role is none.
LEMMA FirstEntity ==
  ASSUME NEW S \in SUBSET Slot, AtDistinctPlaces(S), NEW r
  PROVE  /\ r \in EntityRoles(S) => EntityByRole(S, r) \in Mentions(S)
         /\ r \notin EntityRoles(S) /\ r \in Role => EntityByRole(S, r) = NoEntity
         /\ r \notin Role => EntityByRole(S, r) = NoEntity
<1> DEFINE T == EntityFillers(S, r)
<1>1. T \in SUBSET S /\ \A s \in T : s.entity # NoEntity
  BY DEF EntityFillers
<1>2. r \notin Role => T = {}
  BY DEF EntityFillers, Slot
<1>3. ASSUME T # {}
      PROVE  EntityByRole(S, r) \in Mentions(S)
  <2>1. \E s \in T : IsFirstOf(s, T)
    BY <1>1, <1>3, FirstFiller DEF AtDistinctPlaces
  <2>2. (CHOOSE s \in T : IsFirstOf(s, T)) \in T
    BY <2>1
  <2> QED
    BY <1>1, <1>3, <2>2 DEF EntityByRole, Mentions
<1> QED
  BY <1>2, <1>3 DEF EntityByRole, EntityRoles

\* Where a role has an entity, one of the ends is found.
LEMMA EndsFound ==
  ASSUME NEW S \in SUBSET Slot, AtDistinctPlaces(S), EntityRoles(S) # {}
  PROVE  /\ {End(S, EndRoles(S)[1]), End(S, EndRoles(S)[2])} \subseteq Mentions(S) \cup {NoEntity}
         /\ {End(S, EndRoles(S)[1]), End(S, EndRoles(S)[2])} # {NoEntity}
<1>1. \A r : EntityByRole(S, r) \in Mentions(S) \cup {NoEntity}
  BY FirstEntity
<1>2. \A R : End(S, R) \in Mentions(S) \cup {NoEntity}
  BY <1>1 DEF End
<1>3. NoEntity \notin Mentions(S)
  BY DEF Mentions
<1>4. \E i \in {1, 2} : End(S, EndRoles(S)[i]) # NoEntity
  <2>1. CASE EntityRoles(S) \cap {ARG0, ARG1} # {}
    <3>1. EndRoles(S)[1] = {ARG0} /\ EndRoles(S)[2] = {ARG1}
      BY <2>1 DEF EndRoles
    <3>2. \A r \in EntityRoles(S) : EntityByRole(S, r) # NoEntity
      BY <1>3, FirstEntity
    <3>3. \A r : End(S, {r}) = EntityByRole(S, r)
      <4> SUFFICES ASSUME NEW r PROVE End(S, {r}) = EntityByRole(S, r)
        OBVIOUS
      <4>1. (CHOOSE q \in {r} : TRUE) = r
        OBVIOUS
      <4> QED
        BY <4>1 DEF End
    <3> QED
      BY <2>1, <3>1, <3>2, <3>3
  <2>2. CASE EntityRoles(S) \cap {ARG0, ARG1} = {}
    <3>1. EndRoles(S)[1] = NthRole(S, 1)
      BY <2>2 DEF EndRoles
    <3> DEFINE Ranks == {RoleRank[r] : r \in EntityRoles(S)}
    <3>2. Ranks \in SUBSET Nat /\ Ranks # {}
      BY AliasAssumption DEF EntityRoles
    <3> HIDE DEF Ranks
    <3>3. PICK n \in Ranks : \A m \in Ranks : n <= m
      BY <3>2, LeastNatural
    <3>4. PICK r \in EntityRoles(S) : RoleRank[r] = n
      BY DEF Ranks
    <3>5. {q \in EntityRoles(S) : RoleRank[q] < RoleRank[r]} = {}
      <4> SUFFICES ASSUME NEW q \in EntityRoles(S), RoleRank[q] < RoleRank[r] PROVE FALSE
        OBVIOUS
      <4>1. RoleRank[q] \in Ranks
        BY DEF Ranks
      <4>2. RoleRank[q] \in Nat /\ n \in Nat /\ n <= RoleRank[q]
        BY <3>2, <3>3, <4>1
      <4> QED
        BY <3>4, <4>2
    <3>6. r \in NthRole(S, 1)
      <4>1. Cardinality({q \in EntityRoles(S) : RoleRank[q] < RoleRank[r]}) = 0
        BY <3>5, FS_EmptySet
      <4>2. r \in EntityRoles(S)
        OBVIOUS
      <4> QED
        BY <4>1, <4>2 DEF NthRole
    <3>7. (CHOOSE q \in NthRole(S, 1) : TRUE) \in EntityRoles(S)
      BY <3>6 DEF NthRole
    <3>8. End(S, NthRole(S, 1)) \in Mentions(S)
      BY <3>6, <3>7, FirstEntity DEF End
    <3> QED
      BY <1>3, <3>1, <3>8
  <2> QED
    BY <2>1, <2>2
<1> QED
  BY <1>2, <1>4

LEMMA RolesAndMentions ==
  ASSUME NEW S \in SUBSET Slot
  PROVE  EntityRoles(S) # {} <=> Mentions(S) # {}
BY DEF EntityRoles, EntityFillers, Mentions, Slot

\* One assertion read makes one relationship, or none.
LEMMA Converted ==
  ASSUME IInv, FaithInv, NEW c \in CandidateId, assertions[c] # NoRow, NEW b \in Body, NEW nodes,
         Mentions(Payload[c].slots) \subseteq nodes
  PROVE  /\ RelationshipSound(c, ConvertRelationship(c, b, fillers[c]), nodes)
         /\ \A r \in ConvertRelationship(c, b, fillers[c]) : r.assertion = c
         /\ ConvertRelationship(c, b, fillers[c]) \subseteq Relationship
<1> DEFINE S == fillers[c]
           r == [assertion |-> c, name |-> b.predicate,
                 src |-> End(S, EndRoles(S)[1]), tgt |-> End(S, EndRoles(S)[2])]
<1>1. Mentions(S) = Mentions(Payload[c].slots) /\ S \in SUBSET Slot /\ AtDistinctPlaces(S)
  BY FillersMention
<1>2. EntityRoles(S) # {} <=> Mentions(Payload[c].slots) # {}
  BY <1>1, RolesAndMentions
<1>3. CASE EntityRoles(S) = {}
  BY <1>2, <1>3 DEF ConvertRelationship, RelationshipSound
<1>4. CASE EntityRoles(S) # {}
  <2>1. ConvertRelationship(c, b, S) = {r}
    BY <1>4 DEF ConvertRelationship
  <2>2. /\ {r.src, r.tgt} \subseteq Mentions(S) \cup {NoEntity}
        /\ {r.src, r.tgt} # {NoEntity}
    BY <1>1, <1>4, EndsFound
  <2>3. r.assertion = c
    OBVIOUS
  <2>4. r \in Relationship
    <3>1. Mentions(S) \subseteq EntityId
      BY <1>1 DEF Mentions, Slot
    <3> QED
      BY <2>2, <3>1 DEF Relationship, Body
  <2> HIDE DEF r, S
  <2>5. {r.src, r.tgt} \ {NoEntity} \subseteq nodes \cap Mentions(Payload[c].slots)
    BY <1>1, <2>2
  <2> QED
    BY <1>2, <1>4, <2>1, <2>2, <2>3, <2>4, <2>5 DEF RelationshipSound, S
<1> QED
  BY <1>3, <1>4

\* No step takes a promotion back.
LEMMA PromotionStays ==
  ASSUME IInv, [Next]_vars, NEW c \in CandidateId, assertions[c] # NoRow
  PROVE  assertions'[c] # NoRow
<1>1. ASSUME NEW w \in Worker, PromoteCommit(w)
      PROVE  assertions'[c] # NoRow
  <2>1. PICK d \in CandidateId : d = task[w].candidate
    BY <1>1, TaskFields DEF PromoteCommit, IInv, TypeOK, PromoteTask
  <2>2. PromoteInsert(d) \/ PromoteRollback(d)
    BY <1>1, <2>1 DEF PromoteCommit
  <2> QED
    BY <2>2, PayloadTypes DEF PromoteInsert, PromoteRollback, IInv, TypeOK
<1>2. ASSUME NEW w \in Worker, RecanonCommit(w)
      PROVE  assertions'[c] # NoRow
  <2>1. task[w] \in RecanonTask /\ Knows(task[w])
    BY <1>2, TaskFields DEF RecanonCommit, IInv, TypeOK, TasksKnow
  <2>2. PICK d \in CandidateId, b \in Body : d = task[w].candidate /\ b = task[w].before
    BY <2>1 DEF RecanonTask
  <2>3. CanonicalizeBody(b) # NoRow
    BY <1>2, <2>1, <2>2, CanonicalBody, SentinelAssumption DEF RecanonCommit, Knows
  <2> QED
    BY <1>2, <2>2, <2>3 DEF RecanonCommit, RewriteAssertion, IInv, TypeOK
<1> QED
  BY <1>1, <1>2 DEF Next, Step, Review, graph, vars, PromoteRead, PromoteAdopt, AdoptFiller,
     AdoptInsert, AdoptReturn, RecanonRead, RecanonCompare, Abandon

\* An export in each stage has the fields of that stage.
LEMMA ExportFields ==
  ASSUME NEW t \in ExportTask
  PROVE  /\ t.op \in {"idle", "entities", "fillers"}
         /\ t.op = "entities" => t \in ListedTask
         /\ t.op = "fillers" => t \in FillersTask
  BY DEF ExportTask, Idle, ListedTask, FillersTask

LEMMA ExportStep == IInv /\ FaithInv /\ ExportInv /\ [ExportNext]_exportVars => ExportInv'
<1> SUFFICES ASSUME IInv, FaithInv, ExportInv, [ExportNext]_exportVars PROVE ExportInv'
  OBVIOUS
<1>1. CASE [Next]_vars /\ UNCHANGED export
  <2>1. \A c \in CandidateId : assertions[c] # NoRow => assertions'[c] # NoRow
    BY <1>1, PromotionStays
  <2> QED
    BY <1>1, <2>1 DEF ExportInv, Rows, RelationshipsOf
<1>2. CASE ExportAssertions
  <2>1. assertions' = assertions /\ assertions \in [CandidateId -> Body \cup {NoRow}]
    BY <1>2 DEF ExportAssertions, vars, IInv, TypeOK
  <2>2. export' = [op |-> "entities", listed |-> assertions]
    BY <1>2, <2>1 DEF ExportAssertions, ListedBody
  <2> QED
    BY <2>1, <2>2 DEF ExportInv, ExportTask, ListedTask, Rows
<1>3. CASE ExportEntities
  <2> DEFINE nodes == {e \in EntityId : entities[e] # NoRow}
             left == Rows(export.listed)
  <2>1. ASSUME NEW c \in Rows(export.listed)
        PROVE  Mentions(Payload[c].slots) \subseteq nodes
    <3>1. assertions[c] # NoRow /\ c \in CandidateId
      BY <1>3 DEF ExportEntities, ExportInv, Rows
    <3>2. \A s \in Payload[c].slots : Bears(s)
      BY <3>1 DEF IInv, AssertionSound
    <3> QED
      BY <3>1, <3>2, PayloadTypes DEF Mentions, Bears
  <2>2. export \in ListedTask /\ \A c \in left : assertions[c] # NoRow
    BY <1>3, ExportFields DEF ExportEntities, ExportInv
  <2>3. /\ export' = [op |-> "fillers", listed |-> export.listed, nodes |-> nodes,
                      left |-> left, relationships |-> {}]
        /\ assertions' = assertions
    BY <1>3 DEF ExportEntities, vars
  <2>4. left \in SUBSET CandidateId /\ nodes \in SUBSET EntityId
    BY DEF Rows
  <2> HIDE DEF nodes, left
  <2>5. export' \in FillersTask
    BY <2>2, <2>3, <2>4 DEF ListedTask, FillersTask
  <2> QED
    BY <2>1, <2>2, <2>3, <2>5 DEF ExportInv, ExportTask, left
<1>4. ASSUME NEW c \in CandidateId, ExportFillers(c)
      PROVE  ExportInv'
  <2>1. /\ export \in FillersTask
        /\ export.op = "fillers"
        /\ c \in export.left
        /\ c \in Rows(export.listed)
        /\ export.listed[c] \in Body
        /\ assertions[c] # NoRow
        /\ assertions' = assertions
    BY <1>4, ExportFields DEF ExportFillers, ExportInv, vars, Rows, FillersTask
  <2> DEFINE R == ConvertRelationship(c, export.listed[c], fillers[c])
  <2>2. /\ RelationshipSound(c, R, export.nodes)
        /\ \A r \in R : r.assertion = c
        /\ R \subseteq Relationship
    BY <2>1, Converted DEF ExportInv
  <2>3. export' = [export EXCEPT !.left = @ \ {c}, !.relationships = @ \cup R]
    BY <1>4 DEF ExportFillers
  <2> HIDE DEF R
  <2>4. /\ export' \in FillersTask
        /\ export'.op = "fillers"
        /\ export'.listed = export.listed
        /\ export'.nodes = export.nodes
        /\ export'.left = export.left \ {c}
        /\ export'.relationships = export.relationships \cup R
    BY <2>1, <2>2, <2>3 DEF FillersTask
  <2>5. ASSUME NEW d \in Rows(export.listed) \ export'.left
        PROVE  RelationshipSound(d, RelationshipsOf(d)', export.nodes)
    <3>1. CASE d = c
      <4>1. RelationshipsOf(d)' = R
        BY <2>1, <2>2, <2>4, <3>1 DEF RelationshipsOf, ExportInv
      <4> QED
        BY <2>2, <3>1, <4>1
    <3>2. CASE d # c
      <4>1. RelationshipsOf(d)' = RelationshipsOf(d)
        BY <2>2, <2>4, <3>2 DEF RelationshipsOf
      <4> QED
        BY <2>1, <2>4, <2>5, <3>2, <4>1 DEF ExportInv
    <3> QED
      BY <3>1, <3>2
  <2> QED
    BY <2>1, <2>2, <2>4, <2>5 DEF ExportInv, ExportTask, Rows
<1>5. CASE ExportEnd
  BY <1>5 DEF ExportEnd, ExportInv, ExportTask, Idle
<1> QED
  BY <1>1, <1>2, <1>3, <1>4, <1>5 DEF ExportNext, ExportOn, exportVars

LEMMA ExportedGraph == ExportInv => ExportIsGraph
  BY DEF ExportIsGraph, ExportInv, Exported, RelationshipsOf

-----------------------------------------------------------------------------
(* Theorems *)

\* The inductive invariant holds whatever calls overlap, crash or conflict.
THEOREM Inductive == Spec => []IInv
<1> QED
  BY InitIInv, StepIInv, PTL DEF Spec

\* Tables and calls keep their types, the rewritten bodies included.
THEOREM TypeCorrect == Spec => []TypeOK
<1>1. IInv => TypeOK
  BY DEF IInv
<1> QED
  BY <1>1, Inductive, PTL

\* Only accepted candidates ever get into the graph.
THEOREM OnlyAcceptedPromoted == Spec => []PromotedAreAccepted
<1>1. IInv => PromotedAreAccepted
  BY DEF IInv
<1> QED
  BY <1>1, Inductive, PTL

\* Promotions and rewrites are whole or absent.
THEOREM PromotionsAreWhole == Spec => []NoPartialPromotion
<1>1. IInv => NoPartialPromotion
  BY DEF IInv
<1> QED
  BY <1>1, Inductive, PTL

\* No entity is left behind by a failed promotion.
THEOREM EntitiesAreEarned == Spec => []EntitiesEarned
<1>1. IInv => EntitiesEarned
  BY DEF IInv
<1> QED
  BY <1>1, Inductive, PTL

\* Fillers refer to existing entities and contradict no recorded type.
THEOREM FillersAreBorne == Spec => []TypesHold
<1>1. IInv => TypesHold
  BY DEF IInv, TypesHold, AssertionSound, FilledFrom, SameFilling, Bears
<1> QED
  BY <1>1, Inductive, PTL

\* The event log always explains the body from the payload.
THEOREM HistoryExplainsBody == Spec => []BodyHasHistory
<1>1. IInv => BodyHasHistory
  BY DEF IInv
<1> QED
  BY <1>1, Inductive, PTL

\* Canonicalization neither adds nor loses nor displaces a filler, and a late
\* promoter puts back nothing else than what was filed.
THEOREM RewritesStayFaithful == Spec => []RewritesAreFaithful
<1>1. Init => FaithInv
  BY DEF Init, FaithInv, Idle
<1> QED
  BY <1>1, FaithStep, Faithful, Inductive, PTL DEF Spec

\* What an export returns is a graph, whatever is promoted and rewritten while it
\* reads.
THEOREM ExportsAreGraphs == ExportSpec => []ExportIsGraph
<1>1. ExportInit => IInv /\ FaithInv /\ ExportInv
  BY InitIInv DEF ExportInit, Init, FaithInv, Idle, ExportInv, ExportTask
<1>2. [ExportNext]_exportVars => [Next]_vars
  BY DEF ExportNext, ExportAssertions, ExportOn, ExportEntities, ExportFillers, ExportEnd, exportVars
<1> QED
  BY <1>1, <1>2, StepIInv, FaithStep, ExportStep, ExportedGraph, PTL DEF ExportSpec

-----------------------------------------------------------------------------
(* What steps have in common *)

\* Everything BarInv says of a process other than the one that moves depends on
\* the run of that process and on the rows of the candidates in its hands.
RunFrame(w) == \A v \in Worker \ {w} : run'[v] = run[v]

LEMMA RunFields ==
  ASSUME NEW r \in Run, r # NoRun
  PROVE  /\ r.stage \in {"filter", "submit", "review", "reject", "accept", "promote", "promoting"}
         /\ r.mode \in ReviewMode \cup {"accept_all", "promote_all"}
         /\ r.left \in SUBSET CandidateId
         /\ r.submitted \in SUBSET CandidateId
         /\ r.item \in CandidateId \cup {NoRow}
  BY DEF Run

LEMMA InitBar == PipelineInit => BarInv
<1> SUFFICES ASSUME PipelineInit PROVE BarInv
  OBVIOUS
<1>1. \A w \in Worker : run[w] = NoRun
  BY DEF PipelineInit
<1>2. \A c \in CandidateId : verdict[c] = "unfiled"
  BY DEF PipelineInit, Init, Ledger!Init
<1>3. \A w \in Worker : \A c \in CandidateId : ~InHand(c, w)
  BY <1>1 DEF InHand, Extracting
<1> QED
  BY <1>1, <1>2, <1>3 DEF BarInv, PipelineInit, Init, Ledger!Init, Run, Label, ReviewMode,
     RunSound, Apart, Labelled, AcceptedClearedBar

\* A step that moves no run and judges nothing: candidates may be filed that are
\* in nobody's hands, and decided by a person.
LEMMA RowStep ==
  ASSUME BarInv, UNCHANGED <<run, judged>>,
         verdict' \in [CandidateId -> {"unfiled", "open", "recorded", "rejected"}],
         reviewer' \in [CandidateId -> {"none", "person"} \cup ReviewMode \cup {"accept_all", "promote_all"}],
         \A c \in CandidateId :
           \/ verdict'[c] = verdict[c] /\ reviewer'[c] = reviewer[c]
           \/ /\ verdict[c] = "unfiled" /\ verdict'[c] = "open"
              /\ \A w \in Worker : run[w] # NoRun => c \notin run[w].left
           \/ verdict[c] = "open" /\ verdict'[c] # "unfiled" /\ reviewer'[c] = "person"
  PROVE  BarInv'
<1>1. \A w \in Worker : \A c \in CandidateId : InHand(c, w)' <=> InHand(c, w)
  BY DEF InHand, Extracting
<1>2. \A c \in CandidateId, m \in ReviewMode : Cleared(c, m)' <=> Cleared(c, m)
  BY DEF Cleared
<1>3. ASSUME NEW w \in Worker PROVE RunSound(w)'
  <2>1. RunSound(w) /\ run[w] \in Run
    BY DEF BarInv
  <2>2. CASE run[w] = NoRun
    BY <2>2 DEF RunSound
  <2>3. CASE run[w] # NoRun
    BY <2>1, <2>3, RunFields DEF RunSound
  <2> QED
    BY <2>2, <2>3
<1>4. Apart'
  BY <1>1 DEF BarInv, Apart
<1>5. Labelled'
  BY <1>1, <1>2 DEF BarInv, Labelled, ReviewMode
<1>6. AcceptedClearedBar'
  BY <1>2 DEF BarInv, AcceptedClearedBar, ReviewMode
<1> QED
  BY <1>3, <1>4, <1>5, <1>6 DEF BarInv

\* A step of one run that neither files, decides nor judges, and takes nothing
\* into its hands.
LEMMA RunStep ==
  ASSUME BarInv, NEW w \in Worker, UNCHANGED <<verdict, judged, reviewer>>,
         run' \in [Worker -> Run], RunFrame(w), RunSound(w)',
         \A c \in CandidateId : InHand(c, w)' => InHand(c, w),
         \A c \in CandidateId : InHand(c, w)' =>
           /\ run'[w].mode = "auto" /\ run'[w].stage # "filter" => Cleared(c, "auto")
           /\ run'[w].mode = "llm" /\ run'[w].stage = "accept" /\ c = run'[w].item => Cleared(c, "llm")
  PROVE  BarInv'
<1>1. \A v \in Worker \ {w} : \A c \in CandidateId : InHand(c, v)' <=> InHand(c, v)
  BY DEF InHand, Extracting, RunFrame
<1>2. \A c \in CandidateId, m \in ReviewMode : Cleared(c, m)' <=> Cleared(c, m)
  BY DEF Cleared
<1>3. \A v \in Worker : RunSound(v)'
  BY DEF BarInv, RunSound, RunFrame
<1>4. Apart'
  BY <1>1 DEF BarInv, Apart
<1>5. Labelled'
  BY <1>1, <1>2 DEF BarInv, Labelled, ReviewMode, RunFrame
<1>6. AcceptedClearedBar'
  BY <1>2 DEF BarInv, AcceptedClearedBar, ReviewMode
<1> QED
  BY <1>3, <1>4, <1>5, <1>6 DEF BarInv

-----------------------------------------------------------------------------
(* The steps *)

LEMMA ExtractStep ==
  ASSUME BarInv, NEW w \in Worker, Extract(w)
  PROVE  BarInv'
<1>1. PICK mode \in ReviewMode, answer \in SUBSET Raw :
        /\ \A c \in Parsed(answer) : Fresh(c)
        /\ Converts(answer)
        /\ run' = [run EXCEPT ![w] = Start(mode, Parsed(answer))]
  BY DEF Extract
<1> DEFINE new == Parsed(answer)
<1>2. new \in SUBSET CandidateId
  BY <1>1 DEF Parsed, Converts, Raw
<1>3. run[w] = NoRun /\ UNCHANGED <<verdict, judged, reviewer>>
  BY DEF Extract, vars
<1>4. /\ run' \in [Worker -> Run]
      /\ run'[w] = Start(mode, new)
      /\ RunFrame(w)
  <2>1. Start(mode, new) \in Run
    BY <1>2 DEF Start, Run
  <2> QED
    BY <1>1, <2>1 DEF BarInv, RunFrame
<1>5. \A c \in CandidateId : InHand(c, w)' => c \in new
  BY <1>4 DEF InHand, Extracting, Start
<1>6. \A v \in Worker \ {w} : \A c \in CandidateId : InHand(c, v)' <=> InHand(c, v)
  BY <1>4 DEF InHand, Extracting, RunFrame
<1>7. \A c \in CandidateId, m \in ReviewMode : Cleared(c, m)' <=> Cleared(c, m)
  BY <1>3 DEF Cleared
<1>8. \A v \in Worker : RunSound(v)'
  <2>1. RunSound(w)'
    BY <1>1, <1>3, <1>4 DEF RunSound, Start, Fresh
  <2> QED
    BY <1>3, <1>4, <2>1 DEF BarInv, RunSound, RunFrame
<1>9. Apart'
  <2>1. ASSUME NEW v \in Worker \ {w}, NEW c \in new PROVE ~InHand(c, v)
    BY <1>1, <2>1 DEF Fresh, InHand, Extracting, BarInv, RunSound
  <2>2. \A c \in new : verdict[c] = "unfiled"
    BY <1>1 DEF Fresh
  <2> QED
    BY <1>3, <1>5, <1>6, <2>1, <2>2 DEF BarInv, Apart
<1>10. Labelled'
  <2>1. ASSUME NEW c \in CandidateId, InHand(c, w)', run'[w].stage # "filter" PROVE Cleared(c, "auto")'
    BY <1>4, <1>5, <2>1 DEF Start, Cleared
  <2>2. run'[w].stage # "accept"
    BY <1>4 DEF Start
  <2> QED
    BY <1>4, <1>6, <1>7, <2>1, <2>2 DEF BarInv, Labelled, ReviewMode, RunFrame
<1>11. AcceptedClearedBar'
  BY <1>3, <1>7 DEF BarInv, AcceptedClearedBar, ReviewMode
<1> QED
  BY <1>3, <1>4, <1>8, <1>9, <1>10, <1>11 DEF BarInv

\* The judge of the filter sees only what is not filed and in no other hands.
LEMMA FilterStep ==
  ASSUME BarInv, NEW w \in Worker, Filter(w)
  PROVE  BarInv'
<1> DEFINE left == run[w].left
<1>1. PICK labels \in [left -> Label] :
        LET kept == {c \in left : Passes(labels[c])}
        IN  /\ judged' = [c \in CandidateId |-> IF c \in kept THEN labels[c] ELSE judged[c]]
            /\ run' = [run EXCEPT ![w].stage = "submit", ![w].left = kept]
  BY DEF Filter
<1> DEFINE kept == {c \in left : Passes(labels[c])}
<1>2. run[w] \in Run /\ run[w] # NoRun /\ run[w].stage = "filter" /\ RunSound(w)
  BY DEF Filter, NoRun, BarInv
<1>3. UNCHANGED <<verdict, reviewer>>
  BY DEF Filter, vars
<1>4. /\ left \in SUBSET CandidateId
      /\ run[w].mode \in ReviewMode /\ run[w].submitted = {}
      /\ \A c \in left : verdict[c] = "unfiled" /\ InHand(c, w)
  BY <1>2, RunFields DEF RunSound, InHand, Extracting
<1>5. /\ run' \in [Worker -> Run]
      /\ run'[w] = [run[w] EXCEPT !.stage = "submit", !.left = kept]
      /\ RunFrame(w)
  <2>1. [run[w] EXCEPT !.stage = "submit", !.left = kept] \in Run
    BY <1>2, <1>4 DEF Run
  <2> QED
    BY <1>1, <2>1 DEF BarInv, RunFrame
<1>6. /\ run'[w].stage = "submit" /\ run'[w].left = kept /\ run'[w].submitted = {}
      /\ run'[w].mode = run[w].mode
  BY <1>2, <1>4, <1>5 DEF Run
<1>7. \A c \in CandidateId : InHand(c, w)' => c \in kept
  BY <1>6 DEF InHand, Extracting
<1>8. \A v \in Worker \ {w} : \A c \in CandidateId : InHand(c, v)' <=> InHand(c, v)
  BY <1>5 DEF InHand, Extracting, RunFrame
<1>9. \A c \in CandidateId \ left : judged'[c] = judged[c]
  BY <1>1
<1>10. \A c \in CandidateId \ left, m \in ReviewMode : Cleared(c, m)' <=> Cleared(c, m)
  BY <1>9 DEF Cleared
<1>11. \A v \in Worker : RunSound(v)'
  <2>1. RunSound(w)'
    BY <1>3, <1>4, <1>6 DEF RunSound
  <2>2. ASSUME NEW v \in Worker \ {w} PROVE RunSound(v)'
    <3>1. run'[v] = run[v] /\ RunSound(v)
      BY <1>5 DEF RunFrame, BarInv
    <3> QED
      BY <1>3, <3>1 DEF RunSound
  <2> QED
    BY <2>1, <2>2
<1>12. Apart'
  BY <1>3, <1>4, <1>7, <1>8 DEF BarInv, Apart
<1>13. Labelled'
  <2>1. ASSUME NEW c \in kept PROVE Cleared(c, "auto")'
    <3>1. judged'[c] = labels[c] /\ Passes(labels[c])
      BY <1>1, <1>4
    <3> QED
      BY <3>1 DEF Cleared
  <2>2. ASSUME NEW v \in Worker \ {w}, NEW c \in CandidateId, InHand(c, v) PROVE c \notin left
    BY <1>4, <2>2 DEF BarInv, Apart
  <2>3. ASSUME NEW v \in Worker \ {w}, NEW c \in CandidateId, InHand(c, v)'
        PROVE  /\ run'[v].mode = "auto" /\ run'[v].stage # "filter" => Cleared(c, "auto")'
               /\ run'[v].mode = "llm" /\ run'[v].stage = "accept" /\ c = run'[v].item
                    => Cleared(c, "llm")'
    <3>1. run'[v] = run[v] /\ InHand(c, v) /\ c \in CandidateId \ left
      BY <1>5, <1>8, <2>2, <2>3 DEF RunFrame
    <3> QED
      BY <1>10, <3>1 DEF BarInv, Labelled, ReviewMode
  <2> QED
    BY <1>6, <1>7, <2>1, <2>3 DEF Labelled
<1>14. AcceptedClearedBar'
  BY <1>3, <1>4, <1>10 DEF BarInv, AcceptedClearedBar, ReviewMode
<1>15. judged' \in [CandidateId -> Label \cup {"none"}]
  BY <1>1, <1>4 DEF BarInv
<1> QED
  BY <1>3, <1>5, <1>11, <1>12, <1>13, <1>14, <1>15 DEF BarInv

LEMMA SubmitStep ==
  ASSUME BarInv, NEW w \in Worker, Submit(w)
  PROVE  BarInv'
<1>1. PICK c \in run[w].left :
        /\ Ledger!File({c})
        /\ run' = [run EXCEPT ![w].left = @ \ {c}, ![w].submitted = @ \cup {c}]
  BY DEF Submit
<1>2. run[w] \in Run /\ run[w] # NoRun /\ run[w].stage = "submit" /\ RunSound(w)
  BY DEF Submit, NoRun, BarInv
<1>3. UNCHANGED <<judged, reviewer>>
  BY DEF Submit
<1>4. /\ c \in CandidateId /\ InHand(c, w) /\ run[w].mode \in ReviewMode
      /\ verdict[c] = "unfiled" /\ \A d \in run[w].left : verdict[d] = "unfiled"
      /\ \A d \in run[w].submitted : verdict[d] # "unfiled"
  BY <1>2, RunFields DEF RunSound, InHand, Extracting
<1>5. verdict' = [d \in CandidateId |-> IF d = c THEN "open" ELSE verdict[d]]
  BY <1>1 DEF Ledger!File
<1>6. /\ run' \in [Worker -> Run]
      /\ run'[w] = [run[w] EXCEPT !.left = @ \ {c}, !.submitted = @ \cup {c}]
      /\ RunFrame(w)
  <2>1. [run[w] EXCEPT !.left = @ \ {c}, !.submitted = @ \cup {c}] \in Run
    BY <1>2, <1>4 DEF Run
  <2> QED
    BY <1>1, <2>1 DEF BarInv, RunFrame
<1>7. /\ run'[w].left = run[w].left \ {c} /\ run'[w].submitted = run[w].submitted \cup {c}
      /\ run'[w].stage = "submit" /\ run'[w].mode = run[w].mode
  BY <1>2, <1>6 DEF Run
<1>8. \A d \in CandidateId : InHand(d, w)' => InHand(d, w)
  BY <1>1, <1>2, <1>4, <1>7 DEF InHand, Extracting
<1>9. \A v \in Worker \ {w} : \A d \in CandidateId : InHand(d, v)' <=> InHand(d, v)
  BY <1>6 DEF InHand, Extracting, RunFrame
<1>10. \A d \in CandidateId, m \in ReviewMode : Cleared(d, m)' <=> Cleared(d, m)
  BY <1>3 DEF Cleared
<1>11. \A v \in Worker : RunSound(v)'
  <2>1. RunSound(w)'
    BY <1>4, <1>5, <1>7, <1>2, RunFields DEF RunSound
  <2>2. ASSUME NEW v \in Worker \ {w} PROVE RunSound(v)'
    <3>1. run'[v] = run[v] /\ run[v] \in Run /\ RunSound(v)
      BY <1>6 DEF RunFrame, BarInv
    <3>2. run[v] = NoRun \/ run[v].stage \notin {"filter", "submit"} \/ c \notin run[v].left
      BY <1>4, <3>1 DEF BarInv, Apart, InHand, Extracting, RunSound
    <3> QED
      BY <1>4, <1>5, <3>1, <3>2, RunFields DEF RunSound
  <2> QED
    BY <2>1, <2>2
<1>12. Apart'
  BY <1>3, <1>5, <1>8, <1>9 DEF BarInv, Apart
<1>13. Labelled'
  <2>1. ASSUME NEW d \in CandidateId, InHand(d, w)', run[w].mode = "auto"
        PROVE  Cleared(d, "auto")'
    BY <1>2, <1>8, <1>10, <2>1 DEF BarInv, Labelled, ReviewMode
  <2>2. ASSUME NEW v \in Worker \ {w}, NEW d \in CandidateId, InHand(d, v)'
        PROVE  /\ run'[v].mode = "auto" /\ run'[v].stage # "filter" => Cleared(d, "auto")'
               /\ run'[v].mode = "llm" /\ run'[v].stage = "accept" /\ d = run'[v].item
                    => Cleared(d, "llm")'
    <3>1. run'[v] = run[v] /\ InHand(d, v)
      BY <1>6, <1>9, <2>2 DEF RunFrame
    <3> QED
      BY <1>10, <3>1 DEF BarInv, Labelled, ReviewMode
  <2> QED
    BY <1>7, <2>1, <2>2 DEF Labelled
<1>14. AcceptedClearedBar'
  BY <1>3, <1>5, <1>10 DEF BarInv, AcceptedClearedBar, ReviewMode
<1> QED
  BY <1>3, <1>5, <1>6, <1>11, <1>12, <1>13, <1>14 DEF BarInv

LEMMA OnwardFields ==
  ASSUME NEW r \in Run, r # NoRun
  PROVE  /\ Onward(r) \in Run
         /\ Onward(r) # NoRun =>
              /\ Onward(r).stage = "review" /\ Onward(r).mode = r.mode
              /\ Onward(r).left = r.left /\ Onward(r).submitted = r.submitted
  BY DEF Onward, Run

LEMMA TakeFields ==
  ASSUME NEW r \in Run, r # NoRun, NEW c \in r.left,
         NEW stage \in {"review", "reject", "accept", "promote"}
  PROVE  /\ Take(r, c, stage) \in Run
         /\ Take(r, c, stage) # NoRun
         /\ Take(r, c, stage).stage = stage /\ Take(r, c, stage).mode = r.mode
         /\ Take(r, c, stage).left = r.left \ {c} /\ Take(r, c, stage).submitted = r.submitted
         /\ Take(r, c, stage).item = c
  BY RunFields DEF Take, Run, NoRun

\* The loop goes on, whatever became of its item, and the rows stay.
LEMMA OnwardStep ==
  ASSUME BarInv, NEW w \in Worker, UNCHANGED <<verdict, judged, reviewer>>,
         NEW r \in Run, r # NoRun, run[w] # NoRun, run[w].stage \notin {"filter", "submit"},
         r.mode = run[w].mode, r.left \in SUBSET run[w].left, r.submitted = run[w].submitted,
         run' = [run EXCEPT ![w] = Onward(r)]
  PROVE  BarInv'
<1>1. run'[w] = Onward(r) /\ run' \in [Worker -> Run] /\ RunFrame(w)
  BY OnwardFields DEF BarInv, RunFrame
<1>2. RunSound(w) /\ run[w] \in Run
  BY DEF BarInv
<1>3. RunSound(w)'
  <2>1. CASE Onward(r) = NoRun
    BY <1>1, <2>1 DEF RunSound
  <2>2. CASE Onward(r) # NoRun
    BY <1>1, <1>2, <2>2, OnwardFields, RunFields DEF RunSound
  <2> QED
    BY <2>1, <2>2
<1>4. \A c \in CandidateId : InHand(c, w)' => InHand(c, w)
  BY <1>1, OnwardFields DEF InHand, Extracting
<1>5. \A c \in CandidateId : InHand(c, w)' =>
        /\ run'[w].mode = "auto" => Cleared(c, "auto")
        /\ run'[w].stage # "accept"
  <2>1. ASSUME NEW c \in CandidateId, InHand(c, w)'
        PROVE  (run'[w].mode = "auto" => Cleared(c, "auto")) /\ run'[w].stage # "accept"
    <3>1. Onward(r) # NoRun
      BY <1>1, <2>1 DEF InHand, Extracting
    <3> QED
      BY <1>1, <1>4, <2>1, <3>1, OnwardFields DEF BarInv, Labelled
  <2> QED
    BY <2>1
<1> QED
  BY <1>1, <1>3, <1>4, <1>5, RunStep

LEMMA EndSubmitStep ==
  ASSUME BarInv, NEW w \in Worker, EndSubmit(w)
  PROVE  BarInv'
<1>1. run[w] \in Run /\ run[w] # NoRun /\ run[w].stage = "submit" /\ RunSound(w)
  BY DEF EndSubmit, NoRun, BarInv
<1>2. UNCHANGED <<verdict, judged, reviewer>>
  BY DEF EndSubmit, vars
<1> DEFINE next == [run[w] EXCEPT !.stage = "review", !.left = run[w].submitted, !.submitted = {}]
<1>3. /\ next \in Run /\ next # NoRun
      /\ next.stage = "review" /\ next.mode = run[w].mode
      /\ next.left = run[w].submitted /\ next.submitted = {}
  BY <1>1, RunFields DEF Run, NoRun
<1>4. /\ run' \in [Worker -> Run] /\ RunFrame(w)
      /\ run'[w] \in {next, NoRun}
  BY <1>3 DEF EndSubmit, BarInv, RunFrame, Run
<1>5. RunSound(w)'
  BY <1>1, <1>2, <1>3, <1>4 DEF RunSound
<1>6. \A c \in CandidateId : InHand(c, w)' => InHand(c, w) /\ run'[w] = next
  BY <1>1, <1>3, <1>4 DEF InHand, Extracting
<1>7. \A c \in CandidateId : InHand(c, w)' =>
        /\ run'[w].mode = "auto" => Cleared(c, "auto")
        /\ run'[w].stage # "accept"
  BY <1>1, <1>3, <1>6 DEF BarInv, Labelled
<1> HIDE DEF next
<1> QED
  BY <1>2, <1>4, <1>5, <1>6, <1>7, RunStep

LEMMA TakeNextStep ==
  ASSUME BarInv, NEW w \in Worker, TakeNext(w)
  PROVE  BarInv'
<1>1. run[w] \in Run /\ run[w] # NoRun /\ run[w].stage = "review" /\ run[w].mode # "llm" /\ RunSound(w)
  BY DEF TakeNext, NoRun, BarInv
<1>2. UNCHANGED <<verdict, judged, reviewer>>
  BY DEF TakeNext, vars
<1>3. PICK c \in run[w].left, stage \in {"promote", "accept"} :
        run' = [run EXCEPT ![w] = Take(run[w], c, stage)]
  BY DEF TakeNext
<1>4. c \in CandidateId
  BY <1>1, RunFields
<1>5. /\ run' \in [Worker -> Run] /\ RunFrame(w)
      /\ run'[w] = Take(run[w], c, stage)
  BY <1>1, <1>3, TakeFields DEF BarInv, RunFrame
<1>6. /\ run'[w] # NoRun /\ run'[w].stage = stage /\ run'[w].mode = run[w].mode
      /\ run'[w].left = run[w].left \ {c} /\ run'[w].submitted = run[w].submitted
      /\ run'[w].item = c
  BY <1>1, <1>5, TakeFields
<1>7. RunSound(w)'
  BY <1>1, <1>2, <1>4, <1>6, RunFields DEF RunSound
<1>8. \A d \in CandidateId : InHand(d, w)' => InHand(d, w)
  BY <1>1, <1>6 DEF InHand, Extracting
<1>9. \A d \in CandidateId : InHand(d, w)' =>
        /\ run'[w].mode = "auto" => Cleared(d, "auto")
        /\ run'[w].mode # "llm"
  BY <1>1, <1>6, <1>8 DEF BarInv, Labelled
<1> QED
  BY <1>2, <1>5, <1>7, <1>8, <1>9, RunStep

\* A label for a candidate in the hands of w: no label anybody relies on changes.
LEMMA JudgeStep ==
  ASSUME BarInv, NEW w \in Worker, Judge(w)
  PROVE  BarInv'
<1>1. run[w] \in Run /\ run[w] # NoRun /\ run[w].stage = "review" /\ run[w].mode = "llm" /\ RunSound(w)
  BY DEF Judge, NoRun, BarInv
<1>2. UNCHANGED <<verdict, reviewer>>
  BY DEF Judge, vars
<1>3. PICK c \in run[w].left :
        \/ run' = [run EXCEPT ![w] = Onward(Take(run[w], c, "review"))] /\ UNCHANGED judged
        \/ \E label \in Label :
             /\ judged' = [judged EXCEPT ![c] = label]
             /\ run' = [run EXCEPT ![w] =
                  IF StageAfter(label, c) = "review" THEN Onward(Take(run[w], c, "review"))
                  ELSE Take(run[w], c, StageAfter(label, c))]
  BY DEF Judge
<1>4. c \in CandidateId /\ InHand(c, w)
  BY <1>1, RunFields DEF InHand, Extracting, ReviewMode
<1> DEFINE taken == Take(run[w], c, "review")
<1>5. /\ taken \in Run /\ taken # NoRun /\ taken.mode = run[w].mode
      /\ taken.left = run[w].left \ {c} /\ taken.submitted = run[w].submitted
  BY <1>1, TakeFields
<1>6. CASE UNCHANGED judged /\ run' = [run EXCEPT ![w] = Onward(taken)]
  <2> HIDE DEF taken
  <2> QED
    BY <1>1, <1>2, <1>5, <1>6, OnwardStep
<1>7. ASSUME NEW label \in Label,
             judged' = [judged EXCEPT ![c] = label],
             run' = [run EXCEPT ![w] =
                  IF StageAfter(label, c) = "review" THEN Onward(taken)
                  ELSE Take(run[w], c, StageAfter(label, c))]
      PROVE  BarInv'
  <2> DEFINE stage == StageAfter(label, c)
  <2>1. /\ stage \in {"reject", "review", "accept"}
        /\ stage = "accept" => label \notin {"none", "unsupported", "partially_supported"} /\ c \notin Guarded
    BY <1>7 DEF StageAfter, Omitted, Label
  <2> HIDE DEF stage, taken
  <2>2. /\ run' \in [Worker -> Run] /\ RunFrame(w)
        /\ run'[w] = IF stage = "review" THEN Onward(taken) ELSE Take(run[w], c, stage)
    <3>1. (IF stage = "review" THEN Onward(taken) ELSE Take(run[w], c, stage)) \in Run
      BY <1>1, <1>5, <2>1, OnwardFields, TakeFields
    <3> QED
      BY <1>7, <3>1 DEF BarInv, RunFrame, stage
  <2>3. run'[w] # NoRun =>
          /\ run'[w].stage \in {"review", "reject", "accept"}
          /\ run'[w].stage = "accept" => stage = "accept"
          /\ run'[w].stage # "review" => run'[w].item = c
          /\ run'[w].mode = "llm" /\ run'[w].left = run[w].left \ {c}
          /\ run'[w].submitted = run[w].submitted
    <3>1. CASE stage = "review"
      BY <1>1, <1>5, <2>2, <3>1, OnwardFields
    <3>2. CASE stage # "review"
      BY <1>1, <2>1, <2>2, <3>2, TakeFields
    <3> QED
      BY <3>1, <3>2
  <2>4. judged' \in [CandidateId -> Label \cup {"none"}] /\ judged'[c] = label
        /\ \A d \in CandidateId \ {c} : judged'[d] = judged[d]
    BY <1>4, <1>7 DEF BarInv
  <2>5. \A d \in CandidateId \ {c}, m \in ReviewMode : Cleared(d, m)' <=> Cleared(d, m)
    BY <2>4 DEF Cleared
  <2>6. \A d \in CandidateId : InHand(d, w)' => InHand(d, w)
    BY <1>1, <1>4, <2>3 DEF InHand, Extracting
  <2>7. \A v \in Worker \ {w} : \A d \in CandidateId : InHand(d, v)' <=> InHand(d, v)
    BY <2>2 DEF InHand, Extracting, RunFrame
  <2>8. ASSUME NEW v \in Worker PROVE RunSound(v)'
    <3>1. CASE v = w
      BY <1>1, <1>2, <1>4, <2>3, <3>1, RunFields DEF RunSound
    <3>2. CASE v # w
      <4>1. run'[v] = run[v] /\ RunSound(v)
        BY <2>2, <3>2 DEF RunFrame, BarInv
      <4> QED
        BY <1>2, <4>1 DEF RunSound
    <3> QED
      BY <3>1, <3>2
  <2>9. Apart'
    BY <1>2, <2>6, <2>7 DEF BarInv, Apart
  <2>10. Labelled'
    <3>1. ASSUME NEW d \in CandidateId, InHand(d, w)'
          PROVE  /\ run'[w].mode # "auto"
                 /\ run'[w].stage = "accept" /\ d = run'[w].item => Cleared(d, "llm")'
      <4>1. run'[w] # NoRun
        BY <3>1 DEF InHand, Extracting
      <4>2. ASSUME run'[w].stage = "accept", d = run'[w].item PROVE Cleared(d, "llm")'
        <5>1. d = c /\ judged'[d] = label /\ stage = "accept"
          BY <2>3, <2>4, <4>1, <4>2
        <5>2. Rank(label) = 2 /\ 2 >= MinRank
          BY <2>1, <5>1 DEF Rank, MinRank
        <5> QED
          BY <2>1, <5>1, <5>2 DEF Cleared, Passes
      <4> QED
        BY <2>3, <4>1, <4>2
    <3>2. ASSUME NEW v \in Worker \ {w}, NEW d \in CandidateId, InHand(d, v)'
          PROVE  /\ run'[v].mode = "auto" /\ run'[v].stage # "filter" => Cleared(d, "auto")'
                 /\ run'[v].mode = "llm" /\ run'[v].stage = "accept" /\ d = run'[v].item
                      => Cleared(d, "llm")'
      <4>1. run'[v] = run[v] /\ InHand(d, v)
        BY <2>2, <2>7, <3>2 DEF RunFrame
      <4>2. d \in CandidateId \ {c}
        BY <1>4, <4>1 DEF BarInv, Apart
      <4> QED
        BY <2>5, <4>1, <4>2 DEF BarInv, Labelled, ReviewMode
    <3> QED
      BY <3>1, <3>2 DEF Labelled
  <2>11. AcceptedClearedBar'
    BY <1>2, <1>4, <2>5 DEF BarInv, Apart, AcceptedClearedBar, ReviewMode
  <2> QED
    BY <1>2, <2>2, <2>4, <2>8, <2>9, <2>10, <2>11 DEF BarInv
<1> QED
  BY <1>3, <1>6, <1>7

\* The verdict of a run on its item; the run goes on to promote it or to the
\* next one.
LEMMA DecideStep ==
  ASSUME BarInv, NEW w \in Worker, run[w] # NoRun, run[w].stage \in {"reject", "accept"},
         NEW v \in {"rejected", "recorded"}, v = "recorded" => run[w].stage = "accept",
         Ledger!Decide(run[w].item, v), UNCHANGED judged,
         reviewer' = [reviewer EXCEPT ![run[w].item] = run[w].mode],
         run' \in [Worker -> Run], RunFrame(w),
         run'[w] # NoRun =>
           /\ run'[w].stage \in {"review", "promote"} /\ run'[w].mode = run[w].mode
           /\ run'[w].left = run[w].left /\ run'[w].submitted = run[w].submitted
           /\ run'[w].stage = "promote" => run'[w].item = run[w].item
  PROVE  BarInv'
<1> DEFINE c == run[w].item
<1>1. /\ run[w] \in Run /\ RunSound(w) /\ c \in CandidateId /\ c \notin run[w].left
      /\ run[w].submitted = {} /\ run[w].mode \in ReviewMode \cup {"accept_all", "promote_all"}
  BY RunFields DEF BarInv, RunSound
<1>2. /\ verdict[c] = "open" /\ verdict' = [verdict EXCEPT ![c] = v]
  BY DEF Ledger!Decide
<1>3. /\ verdict' \in [CandidateId -> {"unfiled", "open", "recorded", "rejected"}]
      /\ reviewer' \in [CandidateId -> {"none", "person"} \cup ReviewMode \cup {"accept_all", "promote_all"}]
      /\ verdict'[c] = v /\ reviewer'[c] = run[w].mode
      /\ \A d \in CandidateId \ {c} : verdict'[d] = verdict[d] /\ reviewer'[d] = reviewer[d]
  BY <1>1, <1>2 DEF BarInv
<1>4. \A d \in CandidateId : (verdict'[d] = "unfiled") <=> (verdict[d] = "unfiled")
  BY <1>2, <1>3
<1>5. \A d \in CandidateId, m \in ReviewMode : Cleared(d, m)' <=> Cleared(d, m)
  BY DEF Cleared
<1>6. \A d \in CandidateId : InHand(d, w)' => InHand(d, w) /\ d # c
  BY <1>1 DEF InHand, Extracting
<1>7. \A u \in Worker \ {w} : \A d \in CandidateId : InHand(d, u)' <=> InHand(d, u)
  BY DEF InHand, Extracting, RunFrame
<1>8. run[w].mode \in ReviewMode => InHand(c, w)
  BY DEF InHand, Extracting
<1>9. ASSUME NEW u \in Worker PROVE RunSound(u)'
  <2>1. CASE u = w
    BY <1>1, <1>4, <2>1, RunFields DEF RunSound
  <2>2. CASE u # w
    <3>1. run'[u] = run[u] /\ run[u] \in Run /\ RunSound(u)
      BY <2>2 DEF RunFrame, BarInv
    <3> QED
      BY <1>4, <3>1, RunFields DEF RunSound
  <2> QED
    BY <2>1, <2>2
<1>10. Apart'
  <2>1. \A x, y \in Worker : \A d \in CandidateId : InHand(d, x)' /\ InHand(d, y)' => x = y
    BY <1>6, <1>7 DEF BarInv, Apart
  <2>2. ASSUME NEW u \in Worker, NEW d \in CandidateId, InHand(d, u)'
        PROVE  ~(verdict'[d] = "recorded" /\ reviewer'[d] \in {"auto", "llm"})
    <3>1. InHand(d, u) /\ (u = w => d # c)
      BY <1>6, <1>7, <2>2
    <3>2. CASE d = c
      BY <1>3, <1>8, <3>1, <3>2 DEF BarInv, Apart, ReviewMode
    <3>3. CASE d # c
      BY <1>3, <3>1, <3>3 DEF BarInv, Apart
    <3> QED
      BY <3>2, <3>3
  <2> QED
    BY <2>1, <2>2 DEF Apart
<1>11. Labelled'
  <2>1. ASSUME NEW u \in Worker, NEW d \in CandidateId, InHand(d, u)'
        PROVE  /\ run'[u].mode = "auto" /\ run'[u].stage # "filter" => Cleared(d, "auto")'
               /\ run'[u].mode = "llm" /\ run'[u].stage = "accept" /\ d = run'[u].item
                    => Cleared(d, "llm")'
    <3>1. CASE u = w
      <4>1. run'[w] # NoRun /\ InHand(d, w)
        BY <1>6, <2>1, <3>1 DEF InHand, Extracting
      <4> QED
        BY <1>5, <3>1, <4>1 DEF BarInv, Labelled, ReviewMode
    <3>2. CASE u # w
      <4>1. run'[u] = run[u] /\ InHand(d, u)
        BY <1>7, <2>1, <3>2 DEF RunFrame
      <4> QED
        BY <1>5, <4>1 DEF BarInv, Labelled, ReviewMode
    <3> QED
      BY <3>1, <3>2
  <2> QED
    BY <2>1 DEF Labelled
<1>12. AcceptedClearedBar'
  <2>1. v = "recorded" /\ run[w].mode \in {"auto", "llm"} => Cleared(c, run[w].mode)
    BY <1>1, <1>8 DEF BarInv, Labelled, ReviewMode
  <2>2. ASSUME NEW d \in CandidateId, NEW m \in {"auto", "llm"}, verdict'[d] = "recorded", reviewer'[d] = m
        PROVE  Cleared(d, m)'
    <3>1. CASE d = c
      BY <1>3, <1>5, <2>1, <2>2, <3>1 DEF ReviewMode
    <3>2. CASE d # c
      BY <1>3, <1>5, <2>2, <3>2 DEF BarInv, AcceptedClearedBar, ReviewMode
    <3> QED
      BY <3>1, <3>2
  <2> QED
    BY <2>2 DEF AcceptedClearedBar
<1> QED
  BY <1>3, <1>9, <1>10, <1>11, <1>12 DEF BarInv

LEMMA RejectAcceptStep ==
  ASSUME BarInv, NEW w \in Worker, Reject(w) \/ Accept(w)
  PROVE  BarInv'
<1>1. run[w] \in Run /\ run[w] # NoRun /\ run[w].stage \in {"reject", "accept"}
  BY DEF Reject, Accept, NoRun, BarInv
<1>2. PICK v \in {"rejected", "recorded"} :
        /\ v = "recorded" => run[w].stage = "accept"
        /\ Ledger!Decide(run[w].item, v)
        /\ run' \in {[run EXCEPT ![w] = Onward(run[w])],
                     [run EXCEPT ![w] = [run[w] EXCEPT !.stage = "promote"]]}
  BY DEF Reject, Accept
<1>3. UNCHANGED judged /\ reviewer' = [reviewer EXCEPT ![run[w].item] = run[w].mode]
  BY DEF Reject, Accept
<1>4. /\ run' \in [Worker -> Run] /\ RunFrame(w)
      /\ run'[w] # NoRun =>
           /\ run'[w].stage \in {"review", "promote"} /\ run'[w].mode = run[w].mode
           /\ run'[w].left = run[w].left /\ run'[w].submitted = run[w].submitted
           /\ run'[w].stage = "promote" => run'[w].item = run[w].item
  <2> DEFINE next == [run[w] EXCEPT !.stage = "promote"]
  <2>1. /\ next \in Run /\ next.stage = "promote" /\ next.mode = run[w].mode
        /\ next.left = run[w].left /\ next.submitted = run[w].submitted /\ next.item = run[w].item
    BY <1>1 DEF Run, NoRun
  <2> HIDE DEF next
  <2>2. run' \in {[run EXCEPT ![w] = Onward(run[w])], [run EXCEPT ![w] = next]}
    BY <1>2 DEF next
  <2> QED
    BY <1>1, <2>1, <2>2, OnwardFields DEF BarInv, RunFrame
<1> QED
  BY <1>1, <1>2, <1>3, <1>4, DecideStep

\* Steps that only move the run of w among the stages of promotion, or end it.
LEMMA StageStep ==
  ASSUME BarInv, NEW w \in Worker, UNCHANGED <<verdict, judged, reviewer>>,
         run[w] # NoRun, run[w].stage \in {"promote", "promoting"},
         run' = [run EXCEPT ![w] = [run[w] EXCEPT !.stage = "promoting"]]
  PROVE  BarInv'
<1> DEFINE next == [run[w] EXCEPT !.stage = "promoting"]
<1>1. run[w] \in Run /\ RunSound(w)
  BY DEF BarInv
<1>2. /\ next \in Run /\ next # NoRun /\ next.stage = "promoting" /\ next.mode = run[w].mode
      /\ next.left = run[w].left /\ next.submitted = run[w].submitted /\ next.item = run[w].item
  BY <1>1 DEF Run, NoRun
<1> HIDE DEF next
<1>3. run'[w] = next /\ run' \in [Worker -> Run] /\ RunFrame(w)
  BY <1>2 DEF BarInv, RunFrame, next
<1>4. RunSound(w)'
  BY <1>1, <1>2, <1>3, RunFields DEF RunSound
<1>5. \A c \in CandidateId : InHand(c, w)' => InHand(c, w)
  BY <1>2, <1>3 DEF InHand, Extracting
<1>6. \A c \in CandidateId : InHand(c, w)' =>
        /\ run'[w].mode = "auto" => Cleared(c, "auto")
        /\ run'[w].stage # "accept"
  BY <1>2, <1>3, <1>5 DEF BarInv, Labelled
<1> QED
  BY <1>3, <1>4, <1>5, <1>6, RunStep

LEMMA EndRun ==
  ASSUME BarInv, NEW w \in Worker, UNCHANGED <<verdict, judged, reviewer>>,
         run' = [run EXCEPT ![w] = NoRun]
  PROVE  BarInv'
<1>1. run'[w] = NoRun /\ run' \in [Worker -> Run] /\ RunFrame(w)
  BY DEF BarInv, RunFrame, Run
<1>2. RunSound(w)' /\ \A c \in CandidateId : ~InHand(c, w)'
  BY <1>1 DEF RunSound, InHand, Extracting
<1> QED
  BY <1>1, <1>2, RunStep

LEMMA BatchStep ==
  ASSUME BarInv, NEW w \in Worker, Batch(w)
  PROVE  BarInv'
<1>1. PICK mode \in {"accept_all", "promote_all"}, listed \in SUBSET CandidateId :
        /\ \A c \in listed : verdict[c] # "unfiled"
        /\ run' = [run EXCEPT ![w] =
             [stage |-> "review", mode |-> mode, left |-> listed, submitted |-> {}, item |-> NoRow]]
  <2>1. PICK mode \in {"accept_all", "promote_all"} :
          LET status == IF mode = "accept_all" THEN "open" ELSE "recorded"
              listed == {c \in CandidateId : verdict[c] = status}
          IN  run' = [run EXCEPT ![w] =
                [stage |-> "review", mode |-> mode, left |-> listed, submitted |-> {}, item |-> NoRow]]
    BY DEF Batch
  <2> DEFINE listed == {c \in CandidateId :
                         verdict[c] = IF mode = "accept_all" THEN "open" ELSE "recorded"}
  <2>2. \A c \in listed : verdict[c] # "unfiled"
    OBVIOUS
  <2> QED
    BY <2>1, <2>2
<1>2. UNCHANGED <<verdict, judged, reviewer>>
  BY DEF Batch, vars
<1> DEFINE next == [stage |-> "review", mode |-> mode, left |-> listed, submitted |-> {}, item |-> NoRow]
<1>3. run'[w] = next /\ next \in Run /\ run' \in [Worker -> Run] /\ RunFrame(w)
  <2>1. next \in Run
    BY DEF Run
  <2> QED
    BY <1>1, <2>1 DEF BarInv, RunFrame
<1>4. RunSound(w)'
  BY <1>1, <1>2, <1>3 DEF RunSound
<1>5. \A c \in CandidateId : ~InHand(c, w)'
  BY <1>3 DEF InHand, Extracting, ReviewMode
<1> QED
  BY <1>2, <1>3, <1>4, <1>5, RunStep

\* The steps of the graph take no part in it.
LEMMA GraphKeepsVerdicts ==
  ASSUME NEW w \in Worker,
         \/ \E c \in CandidateId \cup {NoRow} : PromoteRead(w, c)
         \/ PromoteCommit(w) \/ PromoteAdopt(w)
         \/ AdoptFiller(w) \/ AdoptInsert(w) \/ AdoptReturn(w)
         \/ Abandon(w) \/ Step(w)
  PROVE  verdict' = verdict
  BY DEF Step, PromoteRead, PromoteCommit, PromoteAdopt, AdoptFiller, AdoptInsert, AdoptReturn,
     RecanonRead, RecanonCompare, RecanonCommit, Abandon

LEMMA PromotingStep ==
  ASSUME BarInv, NEW w \in Worker, BeginPromotion(w) \/ Promoting(w)
  PROVE  BarInv'
<1>1. run[w] \in Run /\ run[w] # NoRun /\ run[w].stage \in {"promote", "promoting"}
  BY DEF BeginPromotion, Promoting, NoRun, BarInv
<1>2. UNCHANGED <<verdict, judged, reviewer>>
  BY <1>1, RunFields, GraphKeepsVerdicts DEF BeginPromotion, Promoting
<1>3. CASE run' = [run EXCEPT ![w] = [run[w] EXCEPT !.stage = "promoting"]]
  BY <1>1, <1>2, <1>3, StageStep
<1>4. CASE run' = [run EXCEPT ![w] = Onward(run[w])]
  BY <1>1, <1>2, <1>4, OnwardStep
<1>5. CASE run' = run
  BY <1>2, <1>5, RowStep DEF BarInv
<1> QED
  <2>1. CASE BeginPromotion(w)
    BY <1>3, <2>1 DEF BeginPromotion
  <2>2. CASE Promoting(w)
    <3>1. run' = [run EXCEPT ![w] = IF task'[w] = Idle THEN Onward(run[w]) ELSE run[w]]
      BY <2>2 DEF Promoting
    <3>2. run \in [Worker -> Run]
      BY DEF BarInv
    <3> QED
      BY <1>4, <1>5, <3>1, <3>2
  <2> QED
    BY <2>1, <2>2

LEMMA PersonStep ==
  ASSUME BarInv, PersonReviews
  PROVE  BarInv'
<1>1. UNCHANGED <<run, judged>>
  BY DEF PersonReviews
<1>2. CASE \E c \in CandidateId : Fresh(c) /\ Ledger!File({c}) /\ UNCHANGED reviewer
  <2>1. PICK c \in CandidateId : Fresh(c) /\ Ledger!File({c}) /\ UNCHANGED reviewer
    BY <1>2
  <2>2. verdict' = [d \in CandidateId |-> IF d = c THEN "open" ELSE verdict[d]]
    BY <2>1 DEF Ledger!File
  <2> QED
    BY <1>1, <2>1, <2>2, RowStep DEF BarInv, Fresh
<1>3. CASE \E c \in CandidateId, v \in {"recorded", "rejected"} :
             Ledger!Decide(c, v) /\ reviewer' = [reviewer EXCEPT ![c] = "person"]
  <2>1. PICK c \in CandidateId, v \in {"recorded", "rejected"} :
             Ledger!Decide(c, v) /\ reviewer' = [reviewer EXCEPT ![c] = "person"]
    BY <1>3
  <2>2. verdict[c] = "open" /\ verdict' = [verdict EXCEPT ![c] = v]
    BY <2>1 DEF Ledger!Decide
  <2> QED
    BY <1>1, <2>1, <2>2, RowStep DEF BarInv
<1> QED
  BY <1>2, <1>3 DEF PersonReviews

LEMMA StepBar == BarInv /\ [PipelineNext]_pipeline => BarInv'
<1> SUFFICES ASSUME BarInv, [PipelineNext]_pipeline PROVE BarInv'
  OBVIOUS
<1>1. CASE PersonReviews
  BY <1>1, PersonStep
<1>2. ASSUME NEW w \in Worker, PassOver(w)
      PROVE  BarInv'
  <2>1. run[w] \in Run /\ run[w] # NoRun /\ run[w].stage \notin {"filter", "submit"}
        /\ UNCHANGED <<verdict, judged, reviewer>> /\ run' = [run EXCEPT ![w] = Onward(run[w])]
    BY <1>2 DEF PassOver, NoRun, BarInv, vars
  <2> QED
    BY <2>1, OnwardStep
<1>3. ASSUME NEW w \in Worker, Break(w)
      PROVE  BarInv'
  BY <1>3, EndRun DEF Break, Abandon, vars
<1>4. ASSUME NEW w \in Worker, SingleCall(w)
      PROVE  BarInv'
  <2>1. verdict' = verdict
    BY <1>4, GraphKeepsVerdicts DEF SingleCall
  <2> QED
    BY <1>4, <2>1, RowStep DEF SingleCall, BarInv
<1>5. CASE UNCHANGED pipeline
  BY <1>5, RowStep DEF pipeline, BarInv
<1> QED
  BY <1>1, <1>2, <1>3, <1>4, <1>5, ExtractStep, FilterStep, SubmitStep, EndSubmitStep, JudgeStep,
     TakeNextStep, RejectAcceptStep, PromotingStep, BatchStep DEF PipelineNext, PipelineStep

-----------------------------------------------------------------------------
(* The pipeline and the graph *)

LEMMA GraphStep == BarInv /\ [PipelineNext]_pipeline => [Next]_vars
<1> SUFFICES ASSUME BarInv, [PipelineNext]_pipeline PROVE [Next]_vars
  OBVIOUS
<1>1. CASE PersonReviews
  BY <1>1 DEF PersonReviews, Next, Review
<1>2. ASSUME NEW w \in Worker, Submit(w)
      PROVE  [Next]_vars
  <2>1. run[w] \in Run /\ run[w] # NoRun
    BY <1>2 DEF Submit, NoRun, BarInv
  <2>2. PICK c \in run[w].left : Ledger!File({c})
    BY <1>2 DEF Submit
  <2>3. c \in CandidateId
    BY <2>1, RunFields
  <2> QED
    BY <1>2, <2>2, <2>3 DEF Submit, Next, Review
<1>3. ASSUME NEW w \in Worker, Reject(w) \/ Accept(w)
      PROVE  [Next]_vars
  <2>1. run[w].item \in CandidateId
    BY <1>3 DEF Reject, Accept, NoRun, BarInv, RunSound
  <2> QED
    BY <1>3, <2>1 DEF Reject, Accept, Next, Review
<1>4. ASSUME NEW w \in Worker, BeginPromotion(w)
      PROVE  [Next]_vars
  <2>1. run[w].item \in CandidateId
    BY <1>4 DEF BeginPromotion, NoRun, BarInv, RunSound
  <2> QED
    BY <1>4, <2>1 DEF BeginPromotion, Next, Step
<1>5. ASSUME NEW w \in Worker, Promoting(w) \/ Break(w) \/ SingleCall(w)
      PROVE  [Next]_vars
  BY <1>5 DEF Promoting, Break, SingleCall, Next, Step
<1>6. ASSUME NEW w \in Worker,
             \/ Extract(w) \/ Filter(w) \/ EndSubmit(w) \/ Judge(w)
             \/ TakeNext(w) \/ PassOver(w) \/ Batch(w)
      PROVE  UNCHANGED vars
  BY <1>6 DEF Extract, Filter, EndSubmit, Judge, TakeNext, PassOver, Batch
<1>7. CASE UNCHANGED pipeline
  BY <1>7 DEF pipeline, vars
<1> QED
  BY <1>1, <1>2, <1>3, <1>4, <1>5, <1>6, <1>7 DEF PipelineNext, PipelineStep

-----------------------------------------------------------------------------
(* Theorems *)

\* Labels, hands and rows fit together, whatever runs overlap, crash or fail.
THEOREM HandsAreSound == PipelineSpec => []BarInv
<1> QED
  BY InitBar, StepBar, PTL DEF PipelineSpec

\* Nothing is accepted without a person that a judge, the filter's threshold or
\* a guard held back.
THEOREM UnattendedClearsBar == PipelineSpec => []AcceptedClearedBar
<1>1. BarInv => AcceptedClearedBar
  BY DEF BarInv
<1> QED
  BY <1>1, HandsAreSound, PTL

\* Extractors, batch commands and people use the promoted graph as GraphPromotion
\* specifies it.
THEOREM PipelineImplementsGraph == PipelineSpec => Spec
<1>1. PipelineInit => Init
  BY DEF PipelineInit
<1> QED
  BY <1>1, GraphStep, HandsAreSound, PTL DEF PipelineSpec, Spec

\* So the graph keeps its invariant when the pipeline promotes by itself: only
\* accepted candidates are in it, whole, with entities they earned.
THEOREM PipelineGraphIsSound ==
  PipelineSpec => [](/\ PromotedAreAccepted /\ NoPartialPromotion /\ EntitiesEarned
                     /\ TypesHold /\ BodyHasHistory /\ RewritesAreFaithful)
<1> QED
  BY PipelineImplementsGraph, OnlyAcceptedPromoted, PromotionsAreWhole, EntitiesAreEarned,
     FillersAreBorne, HistoryExplainsBody, RewritesStayFaithful, PTL
================================================================================
