------------------------ MODULE ProgressiveExtraction ------------------------
(***************************************************************************)
(* The four-pass extraction pipeline of pipeline/progressive_extractor.py  *)
(* and the adapter that submits its report (adapters/progressive_adapter). *)
(*                                                                         *)
(* A run reads the text chunk by chunk (Pass 1), maps the verb of each     *)
(* event to a predicate (Pass 2), refines the types of the entities (Pass  *)
(* 3), normalizes entity names (Pass 4) and is submitted candidate by      *)
(* candidate.  Every LLM call goes through llm_client, which is external:  *)
(* it charges a trace, refuses a call on a trace already charged to its    *)
(* budget, and may fail or answer anything its parser lets through.        *)
(***************************************************************************)
EXTENDS Integers, Lists

CONSTANTS
    Texts,          \* the source texts: sequences of paragraph lengths
    TargetChars,    \* target size of a chunk
    OverlapChars,   \* paragraphs repeated at the head of the next chunk
    Drafts,         \* what Pass 1 may be answered: sequences of raw events
    Names,          \* entity names, those a later pass may invent included
    Blank,          \* the empty string, not a name
    Shape,          \* Shape[n]: the anaphor rules n's wording meets
    LookAlike,      \* the {m, n} whose wording is nearly the same
    Declared,       \* the <<short, long>> pairs "Long Form (SHORT)" of the text, in order
    Lemmas,         \* Lemmas[v]: the lemma forms of verb v, tried in order
    NoVerb,         \* an answer without a verb
    Canon,          \* Canon[l]: the predicate senses of lemma l, in order
    Sensed,         \* the predicates with a PropBank sense id
    Slots,          \* Slots[p]: the role labels of predicate p, in ARG order
    Family,         \* Family[pr]: the labels a proto-role stands for
    Constraint,     \* Constraint[p]: role label -> type, where p constrains it
    Types,          \* the types of the SUMO hierarchy
    Ancestors,      \* Ancestors[t]: the proper ancestors of t
    Entity,         \* the root type
    AgentTypes,     \* the types whose name begins like an agent family's
    ProcessTypes,   \* the types whose name begins like a process family's
    RoleMaps,       \* the role mappings a disambiguation may be answered
    Costs,          \* what one LLM call may cost
    Budget,         \* Budget[k]: the share of pass k
    BatchSize,      \* duplicate pairs judged by one LLM call
    Attempts        \* how often the report is submitted at most

None == "None"

ASSUME TextAssumption ==
    /\ TargetChars \in Nat /\ OverlapChars \in Nat
    /\ \A t \in Texts : t \in Seq(Nat) /\ t # <<>>

ASSUME CostAssumption ==
    /\ Costs \subseteq Nat /\ Budget \in [1..4 -> Nat]
    /\ BatchSize \in Nat \ {0} /\ Attempts \in Nat

ASSUME NameAssumption == {Blank, None} \cap Names = {} /\ Blank # None

\* What the parsers let through, and what is known of a text and a predicate.
ASSUME AnswerAssumption ==
    /\ Drafts \subseteq Seq([verb : STRING,
                            parts : Seq([proto : STRING, name : Names \cup {Blank}, coarse : STRING])])
    /\ RoleMaps \subseteq Seq([role : STRING, name : Names \cup {Blank}])

ASSUME LexiconAssumption ==
    /\ Declared \in Seq(Names \X Names)
    /\ \A p \in Sensed : Slots[p] \in Seq(STRING)

VARIABLES
    text,           \* the source text
    chunks,         \* its chunks: sequences of paragraph numbers
    phase,          \* what the run is doing
    at,             \* position of the pass in its work list
    read,           \* chunks whose Pass 1 returned
    spent,          \* llm_client's charge per trace
    cost,           \* cost[k]: what pass k reports to have cost
    events,         \* the events of Pass 1
    mapped,         \* mapped (and, from Pass 3 on, typed) assertions
    unresolved,     \* events without a predicate
    cache,          \* the refinements of Pass 3
    pairs,          \* the duplicate pairs Pass 4 asks about
    decisions,      \* the renamings Pass 4 decided, in order of precedence
    norm,           \* the normalization map of Pass 4
    kept,           \* Pass 4 returned
    attempt,        \* submissions of the report begun
    candidates      \* candidates submitted, in order

vars == <<text, chunks, phase, at, read, spent, cost, events, mapped, unresolved, cache,
          pairs, decisions, norm, kept, attempt, candidates>>

(***************************************************************************)
(* Chunks of a text: paragraph numbers.                                    *)
(***************************************************************************)
Chars(t, paragraphs) == FoldLeft(LAMBDA n, k : n + t[k], 0, paragraphs)

\* Mutant: the overlap is not limited.
OverlapWhole(t, chunk) == chunk

\* The trailing paragraphs of a full chunk that open the next one.
Overlap(t, chunk) ==
    LET short == {s \in 1..(Len(chunk) + 1) :
                    Chars(t, SubSeq(chunk, s, Len(chunk))) <= OverlapChars}
        first == CHOOSE s \in short : \A r \in short : s <= r
    IN  SubSeq(chunk, first, Len(chunk))

ChunkText(t) ==
    LET all     == [k \in DOMAIN t |-> k]
        Add(acc, k) ==
            IF acc.current # <<>> /\ acc.size + t[k] + 2 > TargetChars
            THEN LET tail == Overlap(t, acc.current)
                 IN  [full    |-> Append(acc.full, acc.current),
                      current |-> Append(tail, k),
                      size    |-> Chars(t, tail) + t[k] + 2]
            ELSE [acc EXCEPT !.current = Append(@, k), !.size = @ + t[k] + 2]
        result  == FoldLeft(Add, [full |-> <<>>, current |-> <<>>, size |-> 0], all)
    IN  IF Chars(t, all) + 2 * (Len(t) - 1) <= TargetChars
        THEN <<all>>
        ELSE Append(result.full, result.current)

(***************************************************************************)
(* llm_client (external): one budget counter per trace.                    *)
(***************************************************************************)
Base == <<"base", 0>>
Pass4Trace == <<"pass4", 0>>
ChunkTrace(k) == IF Len(chunks) = 1 THEN Base ELSE <<"chunk", k>>
Traces == {Base, Pass4Trace} \cup {<<"chunk", k>> : k \in DOMAIN chunks}

\* A call charged c; the trace still had some of the budget left.
Charged(trace, budget, c) ==
    /\ spent[trace] < budget
    /\ spent' = [spent EXCEPT ![trace] = @ + c]

\* Mutant: the cost of the last call instead of the sum.
BillLast(pass, c) == cost' = [cost EXCEPT ![pass] = c]

\* A pass adds up what its calls cost.
Bill(pass, c) == cost' = [cost EXCEPT ![pass] = @ + c]

\* What a call may do: fail uncharged, or be charged and answered.
Failed == UNCHANGED <<spent, cost>>
Answered(trace, budget, pass) ==
    \E c \in Costs : Charged(trace, budget, c) /\ Bill(pass, c)

\* Mutant: every pass is given all of the run's budget.
PassBudgetWhole(k) == Budget[1] + Budget[2] + Budget[3] + Budget[4]

\* The budget a pass is given.
PassBudget(k) == Budget[k]

(***************************************************************************)
(* Pass 1.                                                                 *)
(***************************************************************************)
CoerceEvent(raw) == [raw EXCEPT !.parts = Only(@, LAMBDA p : p.name # Blank)]

ParseEvents(draft) ==
    Only([k \in DOMAIN draft |-> CoerceEvent(draft[k])],
              LAMBDA e : e.verb # NoVerb /\ e.parts # <<>>)

ChunkBudget == PassBudget(1) \div Len(chunks)

\* run_pass1 never raises once its prompt is rendered: a failed call is an
\* empty result; the chunk whose prompt cannot be rendered is skipped.
ReadChunk ==
    /\ phase = "read" /\ at \in DOMAIN chunks
    /\ \/ /\ \E draft \in Drafts : events' = events \o ParseEvents(draft)
          /\ Answered(ChunkTrace(at), ChunkBudget, 1)
          /\ read' = read + 1
       \/ /\ Failed /\ UNCHANGED events
          /\ read' \in {read, read + 1}
    /\ at' = at + 1
    /\ UNCHANGED <<text, chunks, phase, mapped, unresolved, cache, pairs, decisions, norm, kept,
                   attempt, candidates>>

MergeChunks ==
    /\ phase = "read" /\ at > Len(chunks)
    /\ phase' = IF read = 0 THEN "failed" ELSE "map"
    /\ at' = 1
    /\ UNCHANGED <<text, chunks, read, spent, cost, events, mapped, unresolved, cache,
                   pairs, decisions, norm, kept, attempt, candidates>>

(***************************************************************************)
(* Pass 2.                                                                 *)
(***************************************************************************)
LookupLemma(verb) ==
    LET hits == Only(Lemmas[verb], LAMBDA l : Canon[l] # <<>>)
    IN  IF hits = <<>> THEN <<>> ELSE Canon[hits[1]]

\* The label of the family, else the first one free; none when all are taken.
Slot(proto, labels, taken) ==
    LET free   == Only(labels, LAMBDA l : l \notin taken)
        family == Only(free, LAMBDA l : l \in Family[proto] \cup {proto})
    IN  IF family # <<>> THEN <<family[1]>> ELSE IF free = <<>> THEN <<>> ELSE <<free[1]>>

AssignSlots(parts, pred) ==
    FoldLeft(LAMBDA roles, p :
                roles \o [s \in DOMAIN Slot(p.proto, Slots[pred], {r.role : r \in Range(roles)}) |->
                            [role |-> Slot(p.proto, Slots[pred], {r.role : r \in Range(roles)})[s],
                             name |-> p.name]],
             <<>>, parts)

Assertion(k, pred, roles) ==
    [of |-> k, pred |-> pred, roles |-> roles, parts |-> events[k].parts, refs |-> <<>>]

\* A mapped assertion must carry a PropBank sense: validating one without it
\* raises outside every handler of the pass.
Map(pred, roles) ==
    /\ pred \in Sensed
    /\ mapped' = Append(mapped, Assertion(at, pred, roles))

LeaveUnresolved ==
    /\ unresolved' = Append(unresolved, [of |-> at, parts |-> events[at].parts])
    /\ UNCHANGED mapped

MapEvent ==
    /\ phase = "map" /\ at \in DOMAIN events
    /\ LET senses == LookupLemma(events[at].verb)
       IN  \/ senses = <<>> /\ LeaveUnresolved /\ UNCHANGED <<spent, cost>>
           \/ /\ Len(senses) = 1
              /\ Map(senses[1], AssignSlots(events[at].parts, senses[1]))
              /\ UNCHANGED <<unresolved, spent, cost>>
           \/ /\ Len(senses) > 1
              /\ \/ Failed /\ LeaveUnresolved
                 \/ /\ Answered(Base, PassBudget(2), 2)
                    /\ \/ LeaveUnresolved
                       \/ /\ \E pred \in Range(senses), roles \in RoleMaps : Map(pred, roles)
                          /\ UNCHANGED unresolved
    /\ at' = at + 1
    /\ UNCHANGED <<text, chunks, phase, read, events, cache, pairs, decisions, norm, kept, attempt,
                   candidates>>

EndPass2 ==
    /\ phase = "map" /\ at > Len(events)
    /\ phase' = "refine" /\ at' = 1
    /\ UNCHANGED <<text, chunks, read, spent, cost, events, mapped, unresolved, cache,
                   pairs, decisions, norm, kept, attempt, candidates>>

(***************************************************************************)
(* Pass 3.                                                                 *)
(***************************************************************************)
Subtypes(t) == {s \in Types : t \in Ancestors[s]}

\* The candidate types: the coarse subtree, cut down to the role's when the
\* role says more than Entity and the two meet.
Narrowed(coarse, pred, role) ==
    LET tree == {coarse} \cup Subtypes(coarse)
        limit == IF role \in DOMAIN Constraint[pred] THEN Constraint[pred][role] ELSE Entity
        meet == tree \cap ({limit} \cup Subtypes(limit))
    IN  IF limit = Entity \/ limit \notin Types \/ meet = {} THEN tree ELSE meet

\* entity_by_name: of two participants of one name the later one counts.
CoarseType(parts, n) ==
    LET named == Only(parts, LAMBDA p : p.name = n)
    IN  IF named = <<>> THEN Entity ELSE Last(named).coarse

\* Mutant: the coarse type is not asked for.
KnownByName(n, coarse) == {r \in cache : r.name = n}

\* What the pass already decided about a name of this coarse type.
Known(n, coarse) == {r \in cache : r.name = n /\ r.coarse = coarse}

NextRole(a) == a.roles[Len(a.refs) + 1]

\* A refinement must have a name: a role that was answered without one raises.
RefineEntity ==
    /\ phase = "refine" /\ at \in DOMAIN mapped
    /\ Len(mapped[at].refs) < Len(mapped[at].roles)
    /\ NextRole(mapped[at]).name # Blank
    /\ LET a      == mapped[at]
           name   == NextRole(a).name
           coarse == CoarseType(a.parts, name)
           known  == Known(name, coarse)
           options == Narrowed(coarse, a.pred, NextRole(a).role)
           Note(t) == LET r == [name |-> name, coarse |-> coarse, type |-> t]
                      IN  /\ cache' = cache \cup {r}
                          /\ mapped' = [mapped EXCEPT ![at].refs = Append(@, r)]
       IN  IF known # {} \/ Subtypes(coarse) = {} \/ options = {coarse}
           THEN /\ Note(IF known # {} THEN (CHOOSE r \in known : TRUE).type ELSE coarse)
                /\ UNCHANGED <<spent, cost>>
           ELSE \/ Failed /\ Note(coarse)
                \/ Answered(Base, PassBudget(3), 3) /\ \E t \in options \cup {coarse} : Note(t)
    /\ UNCHANGED <<text, chunks, phase, at, read, events, unresolved, pairs, decisions, norm, kept,
                   attempt, candidates>>

NextAssertion ==
    /\ phase = "refine" /\ at \in DOMAIN mapped
    /\ Len(mapped[at].refs) = Len(mapped[at].roles)
    /\ at' = at + 1
    /\ UNCHANGED <<text, chunks, phase, read, spent, cost, events, mapped, unresolved, cache,
                   pairs, decisions, norm, kept, attempt, candidates>>

\* The cache is the pass's own.
EndPass3 ==
    /\ phase = "refine" /\ at > Len(mapped)
    /\ phase' = "resolve" /\ at' = 1 /\ cache' = {}
    /\ UNCHANGED <<text, chunks, read, spent, cost, events, mapped, unresolved, pairs, decisions,
                   norm, kept, attempt, candidates>>

(***************************************************************************)
(* Pass 4: what is looked at.                                              *)
(***************************************************************************)
CertainRules == {"pronoun", "generic", "demonstrative", "possessive"}
Certain(n) == Shape[n] \cap CertainRules # {}
Flagged(n) == Shape[n] # {} /\ ~Certain(n)

\* First occurrence of each participant, with its refined type if it has one.
EntityInfos ==
    LET Info(a, p) == LET refs == Only(a.refs, LAMBDA r : r.name = p.name)
                      IN  [name |-> p.name,
                           type |-> IF refs = <<>> THEN p.coarse ELSE refs[1].type]
        seen == FlattenSeq([k \in DOMAIN mapped |->
                    [j \in DOMAIN mapped[k].parts |-> Info(mapped[k], mapped[k].parts[j])]])
    IN  FoldLeft(LAMBDA infos, i :
                    IF \E k \in DOMAIN infos : infos[k].name = i.name
                    THEN infos ELSE Append(infos, i),
                 <<>>, seen)

InfoNames == {i.name : i \in Range(EntityInfos)}

\* Text-declared aliases count when both forms were extracted.
AliasPairs == Only(Declared, LAMBDA d : d[1] \in InfoNames /\ d[2] \in InfoNames)

TypesCompatible(s, t) ==
    /\ ~(s \in AgentTypes /\ t \in ProcessTypes)
    /\ ~(t \in AgentTypes /\ s \in ProcessTypes)

\* The predicate-role fingerprint of an entity.
Profile(n) == {<<a.pred, r.role>> : a \in Range(mapped), r \in UNION {Range(b.roles) : b \in Range(mapped)}}
                \cap UNION {{<<a.pred, r.role>> : r \in {q \in Range(a.roles) : q.name = n}} : a \in Range(mapped)}

\* Jaccard similarity of at least 0.35, both profiles having two entries.
StructuralDuplicate(m, n) ==
    /\ Cardinality(Profile(m)) >= 2 /\ Cardinality(Profile(n)) >= 2
    /\ Profile(m) \cap Profile(n) # {}
    /\ 100 * Cardinality(Profile(m) \cap Profile(n)) >= 35 * Cardinality(Profile(m) \cup Profile(n))

\* The pairs put to the LLM: by wording first, then by fingerprint.
DuplicatePairs ==
    LET named  == Only(EntityInfos, LAMBDA i : /\ Shape[i.name] = {}
                                                    /\ \A d \in Range(AliasPairs) : d[1] # i.name)
        both   == FlattenSeq([i \in DOMAIN named |->
                    [k \in 1..(Len(named) - i) |-> <<named[i], named[i + k]>>]])
        match  == Only(both, LAMBDA d : TypesCompatible(d[1].type, d[2].type))
        alike  == Only(match, LAMBDA d : {d[1].name, d[2].name} \in LookAlike)
        shaped == Only(match, LAMBDA d : /\ {d[1].name, d[2].name} \notin LookAlike
                                              /\ StructuralDuplicate(d[1].name, d[2].name))
        asked  == alike \o shaped
    IN  [k \in DOMAIN asked |-> {asked[k][1].name, asked[k][2].name}]

(***************************************************************************)
(* Pass 4: the decisions.  A decision renames a name, or drops it (None).  *)
(***************************************************************************)
Decision(n, to) == [name |-> n, to |-> to]

FlaggedNames == Only([k \in DOMAIN EntityInfos |-> EntityInfos[k].name], Flagged)
CertainNames == Only([k \in DOMAIN EntityInfos |-> EntityInfos[k].name], Certain)

\* One call for all flagged names; a name left out of the answer stays as it
\* is, and a name outside the canonical list is accepted.
ResolveAnaphors ==
    /\ phase = "resolve"
    /\ LET dropped == [k \in DOMAIN CertainNames |-> Decision(CertainNames[k], None)]
       IN  \/ /\ FlaggedNames = <<>> \/ PassBudget(4) = 0
              /\ decisions' = [decisions EXCEPT !.anaphors = dropped]
              /\ UNCHANGED <<spent, cost>>
           \/ /\ FlaggedNames # <<>>
              /\ Failed
              /\ decisions' = [decisions EXCEPT !.anaphors = dropped]
           \/ /\ FlaggedNames # <<>> /\ PassBudget(4) > 0
              /\ Answered(Pass4Trace, PassBudget(4), 4)
              /\ \E told \in SUBSET Range(FlaggedNames) :
                   \E answer \in [told -> Names \cup {Blank, None}] :
                     LET heard == Only(FlaggedNames, LAMBDA n : n \in told)
                     IN  decisions' = [decisions EXCEPT !.anaphors =
                            dropped \o [k \in DOMAIN heard |-> Decision(heard[k], answer[heard[k]])]]
    /\ phase' = "merge" /\ at' = 1 /\ pairs' = DuplicatePairs
    /\ UNCHANGED <<text, chunks, read, events, mapped, unresolved, cache, norm, kept, attempt,
                   candidates>>

Affordable == cost[4] < PassBudget(4)

\* One batch of pairs per call, while Pass 4 has money left.  The call is
\* given what is left of the budget, and the trace counts what was spent.  A
\* pair judged the same is given one canonical name, any non-empty string.
MergeBatch ==
    /\ phase = "merge" /\ at \in DOMAIN pairs /\ Affordable
    /\ LET batch == SubSeq(pairs, at, Min({at + BatchSize - 1, Len(pairs)}))
           Aliases(k, canonical) == SetToSeq(batch[k] \ {canonical})
       IN  \/ Failed /\ UNCHANGED decisions
           \/ /\ Answered(Pass4Trace, PassBudget(4) - cost[4], 4)
              /\ \E verdict \in [DOMAIN batch -> Names \cup {None}] :
                   decisions' = [decisions EXCEPT !.merges = @ \o FlattenSeq(
                        [k \in DOMAIN batch |->
                            IF verdict[k] = None THEN <<>>
                            ELSE [j \in DOMAIN Aliases(k, verdict[k]) |->
                                    Decision(Aliases(k, verdict[k])[j], verdict[k])]])]
    /\ at' = at + BatchSize
    /\ UNCHANGED <<text, chunks, phase, read, events, mapped, unresolved, cache, pairs, norm, kept,
                   attempt, candidates>>

(***************************************************************************)
(* Pass 4: the normalization map and its application.                      *)
(***************************************************************************)
\* Later decisions overwrite earlier ones, anaphors overwrite merges, and an
\* alias pair counts only for a short form nothing else was decided of.
NormalizationMap ==
    LET decided == decisions.merges \o decisions.anaphors
        aliases == [k \in DOMAIN AliasPairs |-> Decision(AliasPairs[k][1], AliasPairs[k][2])]
        About(list, n) == Only(list, LAMBDA d : d.name = n)
    IN  [n \in {d.name : d \in Range(decided \o aliases)} |->
            IF About(decided, n) # <<>> THEN Last(About(decided, n)).to
                                        ELSE About(aliases, n)[1].to]

Renamed(m, n) == IF n \in DOMAIN m THEN m[n] ELSE n

\* Mutant: nothing is removed.
RenameKeeping(m, list) ==
    [k \in DOMAIN list |-> IF Renamed(m, list[k].name) = None THEN list[k]
                           ELSE [list[k] EXCEPT !.name = Renamed(m, @)]]

\* A participant or role mapped to None is removed, any other one is renamed,
\* once: what the new name maps to is not looked up.
Rename(m, list) ==
    LET left == Only(list, LAMBDA x : Renamed(m, x.name) # None)
    IN  [k \in DOMAIN left |-> [left[k] EXCEPT !.name = Renamed(m, @)]]

\* Mutant: an assertion that loses one participant is dropped.
NormalizeTypedWhole(m) ==
    LET renamed == [k \in DOMAIN mapped |-> [mapped[k] EXCEPT !.parts = Rename(m, @),
                                                              !.roles = Rename(m, @)]]
    IN  Only(renamed, LAMBDA a : Len(a.parts) = Len(events[a.of].parts))

\* The refinements stay listed under the names Pass 3 saw.
NormalizeTyped(m) ==
    LET renamed == [k \in DOMAIN mapped |-> [mapped[k] EXCEPT !.parts = Rename(m, @),
                                                              !.roles = Rename(m, @)]]
    IN  Only(renamed, LAMBDA a : a.parts # <<>>)

\* Events that lose every participant are dropped; if none is, the list is
\* returned as it came.
NormalizeUnresolved(m) ==
    LET certain == {p.name : p \in UNION {Range(u.parts) : u \in Range(unresolved)}} \cap
                       {n \in Names : Certain(n) /\ n \notin DOMAIN m}
        wider   == [n \in DOMAIN m \cup certain |-> IF n \in certain THEN None ELSE m[n]]
        renamed == [k \in DOMAIN unresolved |-> [unresolved[k] EXCEPT !.parts = Rename(wider, @)]]
        left    == Only(renamed, LAMBDA u : u.parts # <<>>)
    IN  IF Len(left) = Len(unresolved) THEN unresolved ELSE left

\* An entity cannot be given the empty name: applying such a map raises.
Applicable(m) ==
    \A a \in Range(mapped) : \A p \in Range(a.parts) : Renamed(m, p.name) # Blank

\* The report is written; the working state of Pass 4 is gone.
Report ==
    /\ phase' = "report" /\ at' = 1 /\ pairs' = <<>>
    /\ decisions' = [merges |-> <<>>, anaphors |-> <<>>]

ApplyNormalization ==
    /\ phase = "merge"
    /\ at > Len(pairs) \/ ~Affordable
    /\ Applicable(NormalizationMap)
    /\ norm' = NormalizationMap
    /\ mapped' = NormalizeTyped(NormalizationMap)
    /\ unresolved' = NormalizeUnresolved(NormalizationMap)
    /\ kept' = TRUE
    /\ Report
    /\ UNCHANGED <<text, chunks, read, spent, cost, events, cache, attempt, candidates>>

\* Pass 4 raised: the run goes on with the names and the cost it had before.
LosePass4 ==
    /\ phase \in {"resolve", "merge"}
    /\ cost' = [cost EXCEPT ![4] = 0]
    /\ Report
    /\ UNCHANGED <<text, chunks, read, spent, events, mapped, unresolved, cache, norm, kept,
                   attempt, candidates>>

\* Pass 2 or 3 raised, before or after a call was charged: so does the run,
\* and what it had extracted is gone.
PassRaises ==
    /\ phase \in {"map", "refine"}
    /\ LET pass == IF phase = "map" THEN 2 ELSE 3
       IN  Failed \/ Answered(Base, PassBudget(pass), pass)
    /\ phase' = "failed"
    /\ events' = <<>> /\ mapped' = <<>> /\ unresolved' = <<>> /\ cache' = {}
    /\ UNCHANGED <<text, chunks, at, read, pairs, decisions, norm, kept, attempt, candidates>>

(***************************************************************************)
(* The adapter: one candidate per typed assertion, then per unresolved     *)
(* event; a filler is an entity name with a type.                          *)
(***************************************************************************)
Filler(role, n, t) == [role |-> role, name |-> n, type |-> t]

\* The refinement listed under the name, or the coarse type of the participant
\* of that name; Entity for a name that is no participant's.
ResolveType(a, n) ==
    LET refs == Only(a.refs, LAMBDA r : r.name = n)
    IN  IF refs # <<>> /\ \E p \in Range(a.parts) : p.name = n
        THEN refs[1].type ELSE CoarseType(a.parts, n)

TypedPayload(a) ==
    LET first == IF Len(a.parts) >= 1
                 THEN {Filler("source_entity", a.parts[1].name, ResolveType(a, a.parts[1].name))} ELSE {}
        second == IF Len(a.parts) >= 2
                  THEN {Filler("target_entity", a.parts[2].name, ResolveType(a, a.parts[2].name))} ELSE {}
    IN  [of |-> a.of, pred |-> a.pred,
         fillers |-> IF a.roles # <<>>
                     THEN {Filler(r.role, r.name, ResolveType(a, r.name)) : r \in Range(a.roles)}
                     ELSE first \cup second]

UnresolvedPayload(u) ==
    LET Slotted(k, role) == Filler(role, u.parts[k].name, u.parts[k].coarse)
        legacy == [k \in 1..2 |-> IF k = 1 THEN "source_entity" ELSE "target_entity"]
    IN  [of |-> u.of, pred |-> "unresolved",
         fillers |-> {Slotted(k, u.parts[k].proto) : k \in DOMAIN u.parts} \cup
                     {Slotted(k, legacy[k]) : k \in {j \in 1..2 \cap DOMAIN u.parts :
                            \A p \in Range(u.parts) : p.proto # legacy[j]}}]

CandidateImports ==
    [k \in DOMAIN mapped |-> TypedPayload(mapped[k])] \o
    [k \in DOMAIN unresolved |-> UnresolvedPayload(unresolved[k])]

\* The report is a file: it may be submitted, and submitted again.
BeginSubmit ==
    /\ phase = "report" /\ attempt < Attempts
    /\ phase' = "submit" /\ at' = 1 /\ attempt' = attempt + 1
    /\ UNCHANGED <<text, chunks, read, spent, cost, events, mapped, unresolved, cache, pairs, decisions,
                   norm, kept, candidates>>

\* Each candidate is a transaction of its own; a submission that raises ends
\* the loop and leaves the earlier ones in the store.
SubmitCandidate ==
    /\ phase = "submit" /\ at \in DOMAIN CandidateImports
    /\ \/ /\ candidates' = Append(candidates, CandidateImports[at])
          /\ at' = at + 1 /\ UNCHANGED phase
       \/ /\ phase' = "report" /\ UNCHANGED <<candidates, at>>
    /\ UNCHANGED <<text, chunks, read, spent, cost, events, mapped, unresolved, cache, pairs, decisions,
                   norm, kept, attempt>>

EndSubmit ==
    /\ phase = "submit" /\ at > Len(CandidateImports)
    /\ phase' = "done"
    /\ UNCHANGED <<text, chunks, at, read, spent, cost, events, mapped, unresolved, cache, pairs, decisions,
                   norm, kept, attempt, candidates>>

Init ==
    /\ text \in Texts /\ chunks = ChunkText(text)
    /\ phase = "read" /\ at = 1 /\ read = 0
    /\ spent = [t \in Traces |-> 0] /\ cost = [k \in 1..4 |-> 0]
    /\ events = <<>> /\ mapped = <<>> /\ unresolved = <<>> /\ cache = {}
    /\ pairs = <<>> /\ decisions = [merges |-> <<>>, anaphors |-> <<>>]
    /\ norm = <<>> /\ kept = FALSE
    /\ attempt = 0 /\ candidates = <<>>

Next ==
    \/ ReadChunk \/ MergeChunks
    \/ MapEvent \/ EndPass2
    \/ RefineEntity \/ NextAssertion \/ EndPass3 \/ PassRaises
    \/ ResolveAnaphors \/ MergeBatch \/ ApplyNormalization \/ LosePass4
    \/ BeginSubmit \/ SubmitCandidate \/ EndSubmit

Spec == Init /\ [][Next]_vars

-----------------------------------------------------------------------------
\* The state is well formed: positions and charges are numbers, work items
\* point at extracted events, and only typed assertions carry refinements.
TypeOK ==
    /\ text \in Texts
    /\ phase \in {"read", "map", "refine", "resolve", "merge", "report", "submit", "done", "failed"}
    /\ at \in Nat /\ read \in 0..Len(chunks) /\ attempt \in 0..Attempts
    /\ spent \in [Traces -> Nat] /\ cost \in [1..4 -> Nat]
    /\ \A a \in Range(mapped) : /\ a.of \in DOMAIN events /\ a.pred \in Sensed
                                /\ Len(a.refs) <= Len(a.roles) \/ kept
    /\ \A u \in Range(unresolved) : u.of \in DOMAIN events
    /\ \A r \in cache : r.name \in Names /\ {r.coarse, r.type} \subseteq Types

\* Nothing is lost on the way: when a report has been submitted to the end,
\* every extracted event has its candidate, one per attempt at most, unless
\* Pass 4 removed every one of its participants; then it has none.
Gone(n) == Renamed(norm, n) = None \/ (Certain(n) /\ n \notin DOMAIN norm)

EventsAccountedFor ==
    phase = "done" =>
        \A k \in DOMAIN events :
            LET sent == Cardinality({c \in DOMAIN candidates : candidates[c].of = k})
            IN  /\ sent <= attempt
                /\ sent = 0 <=> kept /\ \A p \in Range(events[k].parts) : Gone(p.name)

\* No trace is charged further once the budgets of the passes that share it
\* are used: what it was charged is below one of them but for one call.
Shares(trace) ==
    IF trace = Pass4Trace THEN {Budget[4]}
    ELSE IF trace # Base THEN {Budget[1] \div Len(chunks)}
    ELSE {Budget[2], Budget[3]} \cup (IF Len(chunks) = 1 THEN {Budget[1] \div Len(chunks)} ELSE {})

SpendWithinBudget ==
    \A t \in Traces :
        spent[t] = 0 \/ \E c \in Costs, share \in Shares(t) : spent[t] < share + c

\* What Pass 4 reports is what its trace was charged, unless it raised: then
\* the report says nothing of it.
Pass4CostReported ==
    cost[4] = spent[Pass4Trace] \/ (~kept /\ phase \in {"report", "submit", "done"})

\* The reported costs are what was charged, pass by pass; a Pass 4 that raised
\* is the only one whose charge goes unreported.
Total(f) == FoldFunction(+, 0, f)

CostReported ==
    /\ cost[1] + cost[2] + cost[3] = Total(spent) - spent[Pass4Trace]
    /\ Pass4CostReported

\* A filler's type is never foreign to it: it lies in the subtree of the
\* coarse type of a participant that bears the name or was given it, unless
\* the disambiguation named someone who is no participant of the event.
FillersEarnType ==
    \A c \in Range(candidates) :
        LET parts == Range(events[c.of].parts)
            Bears(p, n) == p.name = n \/ Renamed(norm, p.name) = n
        IN  \A f \in c.fillers :
                \/ f.type = Entity
                \/ ~\E p \in parts : p.name = f.name
                \/ \E p \in parts : Bears(p, f.name) /\ f.type \in {p.coarse} \cup Subtypes(p.coarse)

\* A name Pass 4 dropped fills no role of a typed candidate, unless another
\* name was explicitly renamed to it.
DropsStayDropped ==
    \A c \in Range(candidates) : c.pred # "unresolved" =>
        \A f \in c.fillers : Renamed(norm, f.name) = None => f.name \in Range(norm)

\* Every paragraph is read, in order: each chunk is a stretch of the text that
\* begins no later than the previous one ends and goes further; one that is
\* over the target is an overlap and a single paragraph, or over by separators.
ChunksCoverText ==
    LET first(c) == chunks[c][1]
        last(c)  == Last(chunks[c])
    IN  /\ first(1) = 1 /\ last(Len(chunks)) = Len(text)
        /\ \A c \in DOMAIN chunks : chunks[c] = [k \in 1..Len(chunks[c]) |-> first(c) + k - 1]
        /\ \A c \in 2..Len(chunks) : first(c) <= last(c - 1) + 1 /\ last(c - 1) < last(c)
        /\ \A c \in DOMAIN chunks :
              Chars(text, chunks[c]) <= TargetChars \/ Chars(text, Front(chunks[c])) <= OverlapChars
=============================================================================
