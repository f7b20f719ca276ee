# onto-canon6 in TLA+

A verification development for the governed assertion pipeline of
onto-canon6: extraction of candidate assertions from text by language models,
their submission and review by people or by policy, application of ontology
proposals to the local overlay, promotion into the canonical graph,
recanonicalization, stable identities with automatic resolution, artifact
lineage, the epistemic extension, and the migration of the database all of them
share. Paths below are relative to `src/onto_canon6/` of the repository.

## The system

A *candidate assertion* is extracted from a text, in one model call
(`text_extraction.py`) or in four passes (`progressive_extractor.py`), is
validated against an *effective profile* (profile, ontology pack and the pack's
overlay file), and is stored for review together with *proposals* for the
predicates the profile does not know. Candidates and proposals are reviewed
separately. An accepted proposal may be *applied to the overlay*, which changes
how every later candidate is validated. Candidates are decided by a person, by
the batch command `accept-all`, or, under `review_mode` `auto` and `llm`, by the
extraction itself. An accepted candidate may be *promoted*
into the graph; promoted assertions are *recanonicalized* through alias maps,
their entities get *stable identities*, and the epistemic extension records
*confidence*, *supersession* and *disposition* over them. *Artifacts* and the
lineage between them are linked to candidates as evidence.

All of it is Python over one SQLite file and a tree of JSONL overlay files; the
progressive extractor is asynchronous but awaits one call after the other. The
command line (`cli.py`) and the tool server (`mcp_server.py`) open
the same database, so several processes work on it at a time.

### Components

| component | state | operations | modelled by |
|---|---|---|---|
| Review workflow, `pipeline/service.py`, `pipeline/store.py` | candidate, proposal, link and review tables | submit, review candidate, review proposal | `ReviewWorkflow` |
| Overlay application, `pipeline/overlay_service.py`, `ontology_runtime/overlays.py` | `overlay_applications`, overlay files | apply proposal | `ReviewWorkflow` |
| Ontology runtime, `ontology_runtime/` | none of its own | load packs and profiles, load the effective profile, validate, decide on unknown items | `OntologyRuntime`, `GovernedSubmission` |
| Graph promotion, `core/graph_*.py` | assertion, filler and entity tables | promote | `GraphPromotion` |
| Semantic canonicalization, `core/semantic_*.py` | recanonicalization events | recanonicalize | `GraphPromotion` |
| Epistemic extension, `extensions/epistemic/` | confidence, supersession, disposition tables | record each, derive a status, report what corroborates and what is in tension | `Epistemic`, `EpistemicReport` |
| Stable identity, `core/identity_*.py` | identities, memberships, external references | create, attach alias, attach or report reference | `Identity` |
| Automatic resolution, `core/auto_resolution.py` | none of its own | group entities, create identities | `Identity` (the run), `ClusterResolution` (the fuzzy and LLM groupings) |
| Text extraction, `pipeline/text_extraction.py` | none persistent | extract, judge, submit, review and promote unattended | `TextExtraction` |
| Batch commands, `cli.py` | none | accept all, promote all | `TextExtraction` |
| Progressive extractor, `pipeline/progressive_*.py`, and its adapter | none persistent | chunk, four passes under budgets, submit a report | `ProgressiveExtraction` |
| Export to Digimon, `adapters/digimon_export.py` | none | make nodes and relationships of the promoted graph | `GraphExport` |
| Query surface, `surfaces/query_surface.py` | none | list, search and get entities | `QuerySurface` |
| Artifact lineage, `artifacts/` | artifacts, edges, candidate links | register, link, report | `Lineage` |
| Schema migration, `pipeline/store.py` | shape of the candidate table | migrate on open | `SchemaMigration` |
| Other adapters and reports, queries for assertions and sources, evaluation, rule export, notebooks, configuration | none | conversions and read-only aggregations | not modelled |

What is not modelled changes no table but through the operations listed.

### What is hard, and what makes it correct

* **Reads before the lock.** Connections use `sqlite3`'s default isolation
  mode. `with conn:` opens no transaction: every SELECT up to the first INSERT
  is an autocommitted read, the lock is taken by the first INSERT and held
  until the commit. What a call has checked may be out of date when it writes.
  Only UNIQUE, primary-key and foreign-key constraints are checked under the
  lock. (Two reviewers of one candidate; a validation older than the overlay; a
  rewrite of a body read earlier.)
* **A file and a database.** Applying a proposal appends a line to the overlay
  file, then writes the database. Nothing is held over the two; a crash may
  come between, and a second process may be between its own two steps.
* **Failure in the middle.** A write may wait out the busy timeout and raise
  "database is locked"; a type conflict raises after half of a promotion was
  inserted; processes die. The open transaction is rolled back, the file is not.
* **Answers of a model.** A language model's answer may be anything its schema
  lets through: labels nobody defined, clusters that overlap, verbs without a
  sense, nothing. Calls fail, run out of budget, and are charged either way.
* **Decisions without a person.** A candidate that the extraction is still having
  judged is in the open table: people, batch commands and other processes decide
  and promote it meanwhile, and the extraction goes on with what it has read.
* **Opening the database.** Every service that is constructed migrates first. An
  ALTER TABLE commits at once, the UPDATE that fills the new column in does not.
* **Order.** Entity types are set by the first mention. Dispositions are listed
  by a timestamp taken before the lock. A supersession counts only once its
  replacement is promoted, in whichever order that happens. Which entity becomes
  canonical depends on what resolution and people did before.
* **Repetition.** Every operation is meant to be asked for again: with the same
  content it returns the existing record, with other content it fails.

Correctness is, per component: *review*: one verdict per item, never taken back,
and no predicate outside the ontology unless its novelty is on record; *overlay*:
what the database calls applied is in the file, what is in the file was
approved; *graph*: only accepted candidates, each promotion whole or absent,
entities that exist and agree in type, role lists without gaps, a body its
history explains; *identity*: one identity per entity for good, an identity keeps
its canonical member, resolution merges namesakes only and resolves each entity
once, a query's answer is one story; *extraction*: what is accepted without a person cleared every bar set for
it, every event is accounted for, budgets hold and costs are reported; *lineage*:
links hold and only grow, a report is the ancestry; *migration*: no store works
on a table that lacks a column, and no status is lost; *epistemic*: records
written once, terminal states terminal, no circle of supersessions, a report
that relates only what stood side by side. `PROJECT.json` lists the hazards line by line.

## Modules

| module | what it is |
|---|---|
| `ReviewLedger` | abstract specification: items filed once, decided at most once, published only when granted, settled only when published |
| `ReviewWorkflow` | review and overlay application, by any number of processes; implements two `ReviewLedger`s |
| `OntologyRuntime` | pure operators: what the loaders make of packs and profiles, what validation finds in a payload |
| `GovernedSubmission` | extends `ReviewWorkflow` by `OntologyRuntime`: submissions of payloads, validated by rules; implements it |
| `GraphPromotion` | promotion and recanonicalization; reviews are steps of a `ReviewLedger` instance, the one `ReviewWorkflow` implements for candidates |
| `TextExtraction` | extends `GraphPromotion`: extractors, judges, batch commands and people in front of it; implements it |
| `GraphExport` | extends `GraphPromotion` by an export that reads along: its SELECTs, relationships and their ends |
| `ProgressiveExtraction` | one run of the four passes and the submission of its report |
| `Identity` | identities, memberships, external references, and the resolution run that calls them |
| `QuerySurface` | extends `Identity` by the entity queries: their SELECTs, and what their answers are built from |
| `ClusterResolution` | how the fuzzy and the LLM strategy of a resolution run form groups |
| `Epistemic` | confidence, supersession, disposition and the derived status |
| `EpistemicReport` | extends `Epistemic` by the collection report: its SELECTs, corroboration groups, tension pairs |
| `SchemaMigration` | the candidate table brought forward by every process that opens it |
| `Lineage` | artifacts, edges, links and the report |
| `ReviewStorage` | extends `SchemaMigration` by an instance of `Lineage` over the migrating table |
| `Lists` | thinning of sequences by position, for `ProgressiveExtraction` and `ClusterResolution` |
| `GovernedSubmission_proofs` | theorems about `ReviewWorkflow` and `GovernedSubmission` |
| `TextExtraction_proofs` | theorems about `GraphPromotion`, `GraphExport` and `TextExtraction` |
| `Lists_proofs` | lemmas on folds, thinned and flattened sequences, sets in some order |
| `ProgressiveExtraction_proofs`, `ClusterResolution_proofs`, `Identity_proofs`, `Epistemic_proofs`, `ReviewStorage_proofs` | theorems |
| `MCReviewWorkflow`, `MCReviewRetry`, `MCGraphPromotion`, `MCTextExtraction`, `MCGraphExport`, `MCProgressiveExtraction`, `MCIdentity`, `MCQuerySurface`, `MCClusterResolution`, `MCEpistemic`, `MCEpistemicReport`, `MCReviewStorage` | instances for TLC |

Definitions named after an operator with a comment "Mutant:" are wrong variants
of it. They are part of no specification; substituted for it, each breaks the
property it is paired with in `PROJECT.json`.

### How the code is represented

*Process.* `task[w]` is the service call process `w` is in: the operation, its
arguments, and what it has read that it will act on. A call is a read action that
takes its guards from the code's early returns, and a commit action that writes
all tables at once, guarded by the constraints of the schema. A commit whose
constraint fails ends the call with nothing written. `Abandon` is every other
way a call ends without a commit: the process died, the lock was not
granted in time, an exception was raised. A call that returns an existing
record changes nothing and is not a step.

*Several SELECTs as one read.* A read phase of several SELECTs is one step where
what they look at never reverts: a verdict, an acceptance, a promotion, a
supersession, an application. A guard that passed at its own SELECT then still
passes at any later one, and a guard that requires the absence of a record is
looked at by the constraint of the commit once more. Where that is not
so the reads are steps of their own: the overlay file (`ApplyScan`), the fillers
of an assertion after its body (`RecanonCompare`), the fillers a late promoter
adopts one by one (`AdoptFiller`), and the two reads of a resolution run
(`ResolveAssertions`, `ResolveEntities`), since entities are promoted meanwhile. A
resolution run is one process going through its groups; each of its service
calls has the two phases of any other, and a failed one is passed over.

*A report* (`EpistemicReport`) selects the promoted assertions, then for each its
dispositions and its supersession, in no transaction: every SELECT is a step and
other calls commit in between. It writes nothing, so one at a time is enough. The
bodies it compares are fixed once it has listed them; they are drawn from
`Bodies` where the property compares them and are no part of the state. An export
(`GraphExport`) is read in the same way: the assertions, the entities, and then
the fillers of each assertion. It labels nodes and the ends of relationships
through one map from entities to names; they are told apart by the entity here. A
query (`QuerySurface`) is a call of a process like any other, so that no process queries
and writes at once; every SELECT is a step, each identity's bundle one.

*Data.* A predicate, an entity, a type is a model value. A candidate's payload in
`ReviewWorkflow` is its predicate and the severity of everything else validation
finds in it (`Flaw`); in `GovernedSubmission` it is its predicate and per role a
list of fillers, each with its kind, the form of its identifier and its type or
value kind. There a finding is its code, since severities depend on nothing else;
a pack is the rows of its files, a profile its manifest and severity map; a name
in another case or with blanks around it is told by `LookupKey`. In `GraphPromotion` it is its predicate and role slots. Free
text, evidence spans, provenance and display labels are left out. `proposal_id`
is drawn at random but `proposal_key`, UNIQUE, digests value, profile and target
pack, so `ProposalId` is the pair of profile and value. `assertion_id` digests
the candidate's identifier, so the tables of an assertion are keyed by the
candidate. The identifier of a new candidate is any unused one.
`identity_id` digests the entity an identity is created for, so identities are
keyed by that entity; a name is what `_normalize_name` makes of the first mention.
In `ClusterResolution` a mention is what the code reads off a name: its form,
surname, given name, initial, acronym, place head, descriptor. In
`TextExtraction` a raw candidate is the candidate it becomes, or one of the three
ways it does not become one (unparseable, without roles, inconvertible). In
`ProgressiveExtraction` a text is a sequence of paragraph lengths, an answer a
sequence of events over a few names, verbs and types; the predicate lexicon, the
type hierarchy and the likeness of names are constants.

*Loops.* The resolution run, the unattended review and the batch commands go
through a list and pass over what fails. A run keeps the items still to come
and the item in hand; an exception in the middle of an item moves it on, the death of the
process (`Break`) leaves the rest undone. The order of the list was chosen by a
model or by SQLite and is not fixed in the models.

*Language models* are external. `Answered` and `Failed` of `ProgressiveExtraction`
say what the code relies on: a call on a trace that was charged its budget is
refused, another is charged and answered, or fails uncharged. `Judge`, `Filter`
and `AskModel` take any answer the response model parses.

*Transactions of the migration.* Python's `sqlite3` begins a transaction before
an UPDATE, not before an ALTER. So an ALTER before the first due UPDATE
commits at once (`AlterCommitted`), and everything from that UPDATE on is one
transaction (`ChangeInTransaction`, `EndTransaction`).

| code | action or operator |
|---|---|
| `ReviewService.submit_candidate_import`, `ReviewStore.insert_candidate`, `upsert_proposal` | `SubmitValidate`, `SubmitCommit`; `SubmitPayload`, `FilePayload` |
| `load_effective_profile`, `decide_unknown_item`, `_derive_validation_status` | `EffectiveAllowed`, `UnknownReported`, `Severities`, `DeriveValidationStatus`, `ProposalRequests` |
| `load_ontology_pack` | `ActivePredicates`, `PackRule`, `Expected`, `TypeParents`, `PredicateAliases`, `RoleAliases`, `PackAccepted` |
| `load_profile` | `DeclaredPredicates`, `Rules`, `LoaderAccepts` |
| `validate_assertion_payload` | `Findings`: `StructureFindings`, `RuleFindings`, `FillerFindings`, `HierarchyFinding`; `SeverityOf` |
| `ReviewService.review_candidate` | `CandidateReviewRead`, `CandidateReviewCommit` |
| `ReviewService.review_proposal` | `ProposalReviewRead`, `ProposalReviewCommit` |
| `OverlayApplicationService.apply_proposal_to_overlay` | `ApplyRead`, `ApplyScan`, `ApplyAppend`, `ApplyCommit` |
| `CanonicalGraphService.promote_candidate` | `PromoteRead`, `PromoteCommit`; `PromoteAdopt`, `AdoptFiller`, `AdoptInsert`, `AdoptReturn` when another's row is found |
| `recanonicalize_promoted_assertion` | `RecanonRead`, `RecanonCompare`, `RecanonCommit` |
| `export_for_digimon`, `_convert_relationships`, `_entity_fillers_by_role` | `ExportAssertions`, `ExportEntities`, `ExportFillers`, `ExportEnd`; `ConvertRelationship`, `EndRoles`, `EntityByRole` |
| `record_confidence`, `record_supersession`, `record_assertion_disposition` | `ConfidenceRead`/`Commit`, `SupersessionRead`/`Commit`, `DispositionRead`/`Commit` |
| `create_identity_for_entity`, `attach_entity_alias`, `_insert_external_reference` | `CreateRead`/`Commit`, `AttachRead`/`Commit`, `ReferenceRead`/`Commit` |
| `auto_resolve_identities`, `_build_entity_name_map`, `_group_by_name` | `ResolveAssertions`, `ResolveEntities`, `GroupOf`; `ResolveReuse`, `ResolveCreate*` per group, `ResolveAlias*` per member |
| `_build_entity_contexts`, `list_entities`, `search_entities`, `get_entity` | `QueryAssertions`, `QueryIdentities`, `QueryBundle`, `QueryEntities`; `QueryIdentity` |
| `_build_assertion_snapshot` | `EpistemicStatus`; `ReadDispositions`, `ReadSupersession`, `StatusOf` in a report |
| `build_promoted_assertion_collection_report` | `ListAssertions`, `ReadToEnd`, `ReturnReport`, `Related` |
| `_derive_corroboration_groups`, `_derive_tensions`, `_build_tension_record`, `_role_signature_map` | `CorroborationGroups`, `Rivals`, `Tensions`, `AnchorRoles`, `DifferingRoles`, `Comparable` |
| `extract_candidate_run`, `TextExtractionResponse`, `candidate_import_from_extracted` | `Extract`, `Parsed`, `Converts` |
| `_apply_judge_filter`, `_call_judge_result` | `Filter` |
| `extract_and_submit` | `Submit`, `EndSubmit`, `Break` |
| `_apply_review_mode`, `_judge_candidate`, the two guards | `Judge`, `TakeNext`, `StageAfter`, `Omitted`, `Reject`, `Accept`, `PassOver`, `BeginPromotion`, `Promoting` |
| `_handle_accept_all`, `_handle_promote_all` | `Batch`, then `TakeNext`, `Accept`, `BeginPromotion`, `Promoting` |
| `_chunk_text`, `run_pass1`, `_merge_pass1_results` | `ChunkText`, `ReadChunk`, `MergeChunks` |
| `run_pass2`, `_build_single_sense_assertion` | `MapEvent`, `EndPass2`, `AssignSlots` |
| `run_pass3`, `_narrow_candidates`, `_refine_entity` | `RefineEntity`, `NextAssertion`, `EndPass3` |
| `run_pass4_normalization`, `_build_normalization_map`, `_apply_normalization_to_*` | `EntityInfos`, `ResolveAnaphors`, `MergeBatch`, `ApplyNormalization`, `LosePass4` |
| `submit_progressive_report`, `convert_to_candidate_imports` | `BeginSubmit`, `SubmitCandidate`, `EndSubmit`, `CandidateImports` |
| `_group_by_fuzzy` | `GroupFuzzy` |
| `_group_by_llm`, `_postprocess_llm_cluster` | `LeaveSmallFamily`, `AskModel`, `Guarded`, `ModelFails` |
| `_collapse_equivalent_llm_groups` | `CollapseSignatures`, `CollapsePeople`, `CollapsePlaces`, `CollapseOrganizations`, `CollapseGroups` |
| `ReviewStore._initialize`, `_migrate_candidate_assertions_schema` | `Open`, `LookUpColumns`, `AlterCommitted`, `ChangeInTransaction`, `EndTransaction`, `FailOnDuplicate`, `FinishMigration`, `CutOff` |
| `register_artifact`, `add_lineage_edge`, `link_candidate_artifact` | `RegisterArtifact`, `EdgeRead`/`Commit`, `LinkRead`/`Commit` |
| `build_candidate_lineage_report`, `list_ancestor_edges` | `ReportLinks`, `ReportEdges`, `ReportArtifacts`, `AncestorEdges` |

## Model checking

| run | question | size | result |
|---|---|---|---|
| `review_core` | Do the review tables and the overlay file stay consistent, and is every item decided once, whoever overlaps or dies? Does a validation from before the transaction stay on the safe side? | 2 processes, 2 candidates, 3 profiles (mixed, closed, open; the first two share a pack and its overlay), 2 predicates, 5 payloads, 3 types | holds, 443,555 states |
| `review_retry` | Does what is pending application get applied, crashes between file and database included? | 2 processes, 1 candidate, `permissive_review` on | holds, 4,106 states |
| `graph_core` | Is what nobody looked at accepted only past every bar? Are promotions whole, entities earned and of one type, role lists dense, histories complete? | 2 processes that extract (answers of 2 raw candidates, all modes), batch, promote and recanonicalize; 1 person; 2 candidates, 2 entities, 2 types, 2 aliased roles, 2 aliased predicates | holds, 1,050,489 states |
| `graph_repair` | Is what an export returns a graph, whatever is promoted and rewritten while it reads? Does recanonicalization, asked for again, end in the canonical body and exactly its fillers, and do exports follow? | 2 processes and an export, 2 candidates, 4 roles of 2 canonical ones, 2 entities | holds, 8,698 states |
| `judge_labels` | Does `review_mode: llm` accept only what was judged supported? | 1 process, 2 candidates | violated |
| `identity_core` | Is every entity in one identity for good, whoever creates, attaches or resolves at the same time? Does resolution merge namesakes only? Does what a query reads meanwhile add up? | 2 processes, one query at a time, 3 entities, 2 of one name, 1 person, 1 reference | holds, 1,342,269 states |
| `clusters` | Is every entity in exactly one group, whatever the model answers? Do families stay apart through all joins? | 3 scans of 4 entities (people, places, organizations), every answer of up to 2 clusters of up to 3 | holds, 2,125 states |
| `given_names` | Do people of different given names stay apart? | as above | violated |
| `progressive` | Is every event accounted for, every budget kept, every cost reported, every type earned, every paragraph read? | texts of 1 and 2 chunks, 4 answers of Pass 1, 4 names, 3 predicates, 5 types, costs below and above a budget, role answers with and without a name, 2 submissions | holds, 1,169,982 states |
| `storage` | Does a store ever work on half a table, is a status ever lost, do links hold, is a report the ancestry? | 2 processes; tables of 4 ages, 2 old candidates, 1 new; 2 artifacts, 2 support kinds | holds, 282,155 states |
| `epistemic_serial` | One writing call at a time: is supersession a forest, are histories walks, are terminal states terminal? Does a report that calls overtake relate only what stood side by side? | 1 process and a report, 3 candidates, 2 dispositions each, 4 bodies | holds, 903,028 states |
| `retraction_race` | Is a retraction final when calls overlap? | 2 processes, 1 candidate | violated |

*Bounds.* Two processes are enough for each race in the list: every constraint
is over one key, so a third process adds no new kind of overlap on that key.
`review_core` has one predicate the pack declares and rules, and one declared by
nobody, which each of the three modes treats as unknown, and which the overlay
shared by two profiles turns into a known one while candidates are under way; the
mixed profile has a rule for it all the same. Its five payloads come to every
status: well formed, with a type and a value kind that are hard under one profile
and soft under another, with one filler too many, unknown, and without roles. The
same configuration compares `Ancestors` with the least set closed under parents, in
every hierarchy over three types (`AncestorsAreClosure`). The payloads of `graph_core` are an assertion whose legacy and
canonical role merge (with an untyped entity and a value filler), and one that gives
an entity two types: it is rolled back half way if it is the first to mention
the entity, and goes through once the other has stored it without a type. In
`graph_repair` one assertion has its entities in two legacy roles: one of them
merges behind a value, and before that neither is a role an export takes its ends
from; the other has a value only, and a predicate without alias. One
answer in `graph_core` holds up to two raw candidates (`AnswerLimit`), the least
for one to be taken while the other waits; one of the two candidates is known to a
guard. `clusters` tries every answer of up to two clusters of three
(`MaxClusters`, `MaxCluster`; only clusters of two name an entity twice): two
clusters overlap, three members put an initial between two given names. Its
scans are built so that every signature, bridge and guard has something to join
and something to refuse. In `progressive` the second text has three paragraphs,
of which one is short enough to be carried over; the budgets are met exactly,
exceeded and left over; `BatchSize` 1 makes every pair a call of its own. In
`storage` the four tables are none, the first phase's, one of that phase whose
sources already have a kind, and today's, the least to take every branch of the
migration.
Three entities in `identity_core` are the
least for a group of two whose members a person has mixed up with a third; queries change
nothing, so that one at a time is enough, and of references no more is kept than copies of
one (`MCBound`). Three candidates are the
least for a supersession circle longer than an exchange, two dispositions the least
for one to follow a retraction. Assessments of confidence are looked at by nothing
but the next assessment of the same candidate, so `AssessedBeforePromotion` follows
them only while nothing is promoted. The bodies of a report are two that agree in
one role and differ in the other, one that shares nothing with the first, one
without roles, and any two or three of them may be alike. `MaxHistory` is the one bound on a counter: it
stands in the guard of `DispositionRead`; `Attempts` bounds how often a report is
submitted. Nothing else grows without limit: in `review_core` the overlay file
stays short for the reason the same run shows: an append needs a scan that found
no line, and at most one append per process can be behind such a scan.

*Symmetry* permutes processes, candidates, namesakes and artifacts in the safety
runs where they are treated alike; the liveness runs use none.

*Deadlock* is checked except where the system rightly stops: in the graph runs
every candidate may be rejected, or promoted and in order; one run of the
extractor and one grouping come to their end; every start of a store may be over
and every artifact registered and linked.

*Against the program.* The grouping of `ClusterResolution` was compared with the
Python functions on names that have the readings of the three scans, over all
clusterings of up to two clusters that `clusters` tries: the sets of groups that
come out are the same (38 for the people, 8 for the places, 30 for the
organizations).

*Fairness* is assumed in the two liveness runs only: that an export that was begun ends, returned or
dead; and `ApplyFairness` and `RepairFairness` say that somebody asks for the operation again, which is what
the code's idempotence is for (the command prints what is still pending, and
batch commands go through everything there is), and that a call which
is often enough in a position to take its next step takes it. The second needs
strong fairness, because an abandoned call leaves that position: it says that
not every attempt dies. Nothing is assumed of submissions, reviews or promotions.

*The clock.* A disposition's timestamp is assumed not to lie before the ones the
call has read (`seen`); timestamps of overlapping calls come in any order.

## Findings

Three runs state what a docstring, a plan or a test says and find the code doing
otherwise; each is quoted in `PROJECT.json`.

1. "Retracted promoted assertions should fail loudly on later transitions." Two
   overlapping dispositions both read "active"; one is recorded behind the
   other's retraction, and the status is no longer retracted.
2. `_apply_review_mode`: "accept only supported". The label is any string, and
   whatever is neither `unsupported` nor `partially_supported` is accepted.
3. The bridge of names "must not merge two incompatible explicit full person
   names". A cluster of "Gen. J. Smith" and "Jane Smith" passes the guard on
   clusters; the bridge then joins it, by its titled initial, to "Gen. John
   Smith".

Four more are stated as properties of the modules and are not among the runs; add
one as an INVARIANT to the configuration named to see it violated.

* `OneLinePerProposal` (`ReviewRetry.cfg`): `write_overlay_predicate_addition` is
  "idempotent by `proposal_id`", but reads the file and appends to it with nothing
  held between. Validation reads a set, and is unaffected.
* `FillersFollowBody` (`GraphRepair.cfg`): `rewrite_promoted_assertion` keeps
  the graph "aligned with the canonicalized body instead of drifting". A promoter
  that finds another's row has not begun a transaction; if the assertion is
  rewritten meanwhile, it puts a legacy filler back. `graph_repair` shows that
  another recanonicalization removes it.
* `OneTypePerEntity` (`TextExtraction.cfg`): "conflicting type changes fail
  loudly". An entity first mentioned without a type stays untyped, and from then
  on no conflict is found.
* `OneIdentityPerName` (`Identity.cfg`): names and entities are read one after the
  other; an entity promoted in between has no name in this run, gets an identity of
  its own, and no later run merges it, because memberships are for good.

Thirteen observations have no property. `_build_normalization_map` is
applied in one step: when Pass 4 renames A to B and B to C, an A stays behind as
B, although a merge decision promises that all aliases become the canonical
name. `_normalize_pass2_unresolved` returns its input when no event was dropped, so
that events which were only renamed keep their old names. `_chunk_text` promises
to split an oversized paragraph at single newlines and does not; `ChunksCoverText`
says what it does. An assertion without roles can be accepted and promoted under
`permissive_review`, and under the four open profiles that call missing roles
soft; as soon as another of its predicate stands beside it, the derivation of
tensions raises (`Comparable`), and with it every collection report and the report of
any single assertion. `oc:profile_role_type_unknown_relationship`, soft in every
profile of the repository, is never found: it takes an expected type that is not
among the known ones, and the expected types of all rules are (`RelationshipsKnown`);
an unrelated type is a violation, and `type_checks_unknown` is always 0. A
rule for a predicate its profile does not declare lies dormant until the overlay makes
the predicate known: candidates stored before then were not measured by it
(`Dormant`). That a payload without predicate or roles is a hard error where the
ontology is governed is nowhere required of a profile; all of them have it
(`GovernedAssumption`), else such a payload would be stored for review without a
proposal. Of two identifiers of a pack that differ in case only, one becomes the
alias of the other, whichever a set yields last (`Seeds`). An export joins the
predicate of a body it listed with fillers it selected later, which a rewrite may have replaced or
a late promoter added to: a relationship may be named before a rewrite and have the ends
after it, until repair and the next export (`RepairPrevails`). Of the entities of a role
only the first becomes an end: the others are nodes without the edge, although
`digimon_export.py` drops no data silently. `get_entity` by identity raises the error for
stored state that is "internally inconsistent" of an identity whose entity was promoted
after the query had listed the entities, in a database that is consistent; `AnswersAddUp`
says that it does so of no other. When an identity is created between the
list of identities and the lookup, the detail has all its members but the assertions of
the canonical one only. `insert_external_reference` finds and inserts with nothing held between: of
overlapping calls each stores a copy, and queries count them.

## Proofs

All theorems are for any number of processes, candidates, profiles, predicates,
packs and payloads. The assumptions are those of the modules: `ProfileAssumption`
(the types of the profile tables, and that an open profile has no overlay, which
the loader enforces), `AliasAssumption`, `IdempotentAssumption`, `PayloadAssumption` and `ListAssumption`
(alias maps are functions that leave canonical names alone, payloads have lists of fillers), `LoadedAssumption` (the
constants of `ReviewWorkflow` are what the loaders make of files they accept) and
`GovernedAssumption`, `EntityAssumption` and
`KeyAssumption` (finitely many entities; no name is an identifier),
`ExtractionAssumption` (what fails to parse or convert becomes no candidate),
`CostAssumption` and `TextAssumption` (costs and budgets are numbers, a text has a
paragraph), `AnswerAssumption` and `LexiconAssumption` (an answer that was parsed has the
types of the response models, an empty name included; aliases and role labels
are lists), `MigrationAssumption` (the columns an old table
may have), `ScanAssumption` (a scan finds each entity once, with a type and a
form of name) and `BoundAssumption`, and that each sentinel lies outside the set it is added to. TLC evaluates all of them.

What is built by a fold or a recursive function is proved without induction over
data: the value is a CHOOSE, so a function with the recursion's equation is shown to exist
first (`FoldExists`, `LastFoldExists`, from a largest set on which it does), and what
holds of every prefix follows from the least number at which it would not
(`LeastNatural`, `ByCounting`). `Lists_proofs` has these facts for all modules that fold
or thin: a fold from left to right is a reading of the sequence (`FoldScans`), a fold over a finite set
stays where each of its steps does (`FoldKeeps`), a thinned sequence has the elements kept, in order
(`ThinFacts`), a flattened one has the elements of its parts (`FlattenFacts`).

*ReviewWorkflow.* None of the safety properties is inductive: a commit writes
what an earlier read found. `IInv` adds `TasksKnow`, what a call in flight still
knows: a candidate read as reviewable exists and has the validation it
had, since that column is never updated; a proposal being applied is
accepted for the overlay, since acceptance is not taken back; after a scan that
found the line, the line is there, since lines are only appended; a predicate
found allowed stays allowed, for the same reason (`AllowedGrows`). `KnowsStable`
is the one lemma about interference. `ApplicationsAgree` relates the two status
columns of a proposal to its review row; without it `OverlayGoverned` does not
survive `ApplyAppend`. From `IInv` follow all seven safety properties and both
refinements: each step maps to a step of the ledger or leaves it alone, where
`ApplyAppend` publishes (again, if the line is there) and `ApplyCommit` settles.

*GovernedSubmission.* For every payload some flaw makes `ReviewWorkflow` come to the
same status and proposals (`SomeFlaw`), so that each step is one of `ReviewWorkflow`
(`SubmissionRefines`) and everything above carries over. `StatusStillHolds` rests on
`FindingsShrink`: a larger set of known predicates takes findings away and adds none,
unless a rule lay dormant. `HoldInv` says it of stored rows and of
submissions in flight; it is stable because overlay files only grow (`LinesGrow`) and
a row keeps its profile, predicate and validation (`ReviewStepsKeep`).
`AliasesIdempotent` is what `GraphPromotion` assumes of a pack (`IdempotentAssumption`): canonical names are
their own aliases.

*GraphPromotion.* `IInv` adds, for a call, that the candidate to promote is
accepted and that the body to be rewritten came from the payload and is the payload
as long as there is no event; and for an assertion, that its fillers are filled as
its payload's are and that the entities bear each of them. `EntityAfter` is total in what
it inserts because every finite set of slots has a first one
(`FirstFiller`, from `LeastNatural`). `CanonicalBody` shows that merging roles yields a body again.
`RewritesAreFaithful` counts: fillers at distinct places stand in a line (`Line`), the
index in a merged role is the number of fillers before, which grows along the line
(`IndexGrows`) and skips nothing (`IndexDense`), so merging is one to one onto lists
(`MergedLists`); in a list the number before a filler is its index (`ListIndex`), so a
canonical body is its own canonical form. `FaithInv` says that bodies in the graph and
bodies about to be rewritten are payloads or canonical forms of them. `ExportsAreGraphs` adds what
an export has read (`ExportInv`): listed assertions stay promoted
(`PromotionStays`), so the entities selected after them contain all of theirs, and
the fillers selected after that mention what the payload does (`FillersMention`); a
role with an entity yields an end (`EndsFound`).

*Identity.* `MembershipIsForGood` needs types only (`StepGrows`): rows are added under
constraints and nothing is updated. `CanonicalAnchored` and `AutoMergesByName` need
what calls in flight know (`Knows`): a call by hand knows its identity and entity, a
resolution run knows of each group still to do that its members are promoted
namesakes, and of a group in progress that the identity has a namesake
of each member still to attach (`HasNamesake`). That survives every other
process's step because tables only grow (`KnowsStable`). That grouping yields
namesakes although some members were promoted after the names were read
is `GroupOfNamesakes`, from `KeyAssumption`: a name is no entity identifier.
`EarliestMember` says that every group has a first member; `EntityAssumption` makes the
place of a birth a number.

*Epistemic.* `RecordsAreWrittenOnce` holds however calls overlap.
`SerialForest` and `SerialWalk` hold for one call at a time (`Serial`), from
`SerialInv`: what the call has read is still so. A new edge leads from a candidate
that is superseded by nobody's replacement to one that is not superseded; a
set that had an exit keeps one (`NewSupersession`). `SerialTerminal` follows from the
same invariant: a disposition is appended to a history that is not retracted, and
a replacement and its promotion stay. `ReportRelatesWhatStood` lets any number of calls overtake a report: what
is terminal when the report lists it is terminal at each of its SELECTs (`KeepsTerminal`), so what
it takes to stand stood at the start, and what it relates is part of that.

*TextExtraction.* `AcceptedClearedBar` relates a verdict to a label that may be
overwritten by a later judgement of the same candidate. `BarInv` adds why that
does not happen: a candidate is in the hands of one extraction at most, since it is
filed under a fresh identifier and nobody else extracts it (`Apart`), and once it is
accepted unattended it is in nobody's. The label in hand is relied on only in the
stages that `Labelled` names. `PipelineImplementsGraph` shows that every step of
the pipeline is a step of `GraphPromotion` or leaves its state alone, so its
theorems carry over (`PipelineGraphIsSound`).

*ProgressiveExtraction.* `SpendIsBounded` needs that every call is refused by a
trace that was charged the budget handed in, and that the budget handed in is a
share of the passes on that trace or what is left of it (`Call`,
`CallKeepsBound`). `Pass4ReportsItsCost` needs that Pass 4 charges its trace
and its cost together, and that only a return sets `kept`; `CostsAreReported` adds
that a charge to one trace raises the sum over all of them by as much
(`TotalOfCharge`), whatever order the sum is taken in.

`TextIsCovered` follows the loop of `_chunk_text` paragraph by paragraph
(`ChunkedUpto`): the full chunks and the current one cover what was read so far,
the overlap is a proper end of the chunk it is taken from (`OverlapIsEnd`; this is why
a chunk that is closed goes on with a new paragraph), and the size counted is
at least the characters.

What becomes of an event takes four invariants, one per stretch of the run.
`WorkInv`: up to Pass 4 the assertions and the events left are, each event once,
those taken up, with the participants Pass 1 found; each refinement is of a coarse type
of its own event's and stays below it, also when it comes from the cache, which is
keyed by name and coarse type. `AnaphorsDecided`: while Pass 4 merges, it has decided of
every certain anaphor that takes part in an assertion, so that the map renames or
drops it (`MapCovers`). `ReportRight`: what is reported was renamed by one map, and is of the
events that kept a participant, for assertions (`TypedKept`) by that map alone, for
events left (`LeftKept`) by the wider one, also where the unchanged list is returned.
`SubmittedInTurn`: an attempt sends each import once, in order. From these follow
`NothingIsLost`, `TypesAreEarned` and `DroppedStayDropped`: a name that is still dropped by
the map after a renaming must have been put in by it (`RenamedNotDropped`).
The lists are thinned by position (`Thin`, `ThinFacts`), which keeps events apart.

*ReviewStorage.* `StorageInv` says of a process in the middle of the migration that
each column is there or still to be added by the statements to come
(`ToBeAdded`), by what it looked up at the start; a column that was there stays,
and an ALTER of one that another process added meanwhile fails. `LinksAlwaysHold` adds
what a call in flight has checked (`CallsHold`): candidates and artifacts are never deleted.
`StatusAlwaysSurvives` and `OldRowsAlwaysMarked` rest on `RowsInv`, which follows a row through
the statements: a status column that was copied has the old status (`AllCopied`),
one whose copy is due is still to be copied by the process that found it missing, in
the transaction that fills it (`ToBeCopied`), and so for the provenance of old rows
(`ToBeTold`, `FillFollows`); the row another process writes meanwhile has all of it
(`RowAfter`). A row whose source had a kind already keeps it: without that alternative
the property would be false of a table of the first phase. `ReportsAlwaysSound` is `ReportInv`, what
the report has read so far, and `QueryIsAncestry`: the recursive query adds layer by layer
what lies above the previous ones (`LayersExist`, `LayersGrow`), and stops, edges
being finitely many, when it has every ancestor.

*ClusterResolution.* `GroupsAreListed` is the invariant, in three stretches. While families are
gone through, the groups are a listing (`Listing`: none is empty, no two share an entity),
each of one family, and a family is grouped as a whole or not at all; hence nothing of the next batch
is grouped yet (`BatchFacts`). The answer to it may be any list of clusters: what `Take` admits
of one is open, its guard splits that and loses nothing (`GuardedFacts`, by surname, and
`SplitFacts`, by given name: an initial goes with at most one, `AnchorFacts`), and what is left becomes groups of one
(`GrowBySingles`). So the groups grow by that family (`Grown`, `GrownKeeps`), and a first attempt given up
leaves none. While groups are joined, the blocks partition their keys and are of one kind
(`Uniform`), a kind being a family except that places and mentions of unknown kind are one: union keeps
both (`MergeFacts`, `MergeUniform`), every signature and every bridge goes between keys of one
kind (`SignaturesUniform`, `PeopleUniform`, `PlacesUniform`, `DescriptorsUniform`), in whichever order the labels
come. At the end the blocks become a listing of all that was scanned (`CollapsedFacts`). Of the fuzzy strategy
the invariant is that a block is of one family or holds an entity whose type is silent or
overruled (`Guarding`): a pair without one passes the guard only within a family (`CompatibleFacts`).
`GroupedOnce` and `FamiliesStayApart` are what is left of this when a run is done.

*QuerySurface.* Queries leave the tables alone, so `Identity` is implemented
(`QueriesReadOnly`). `QueryInv` says what a query has read so far: the assertions mention
promoted entities, the identities still to be read exist, and who is shown in an
identity belongs to it and is shown with its canonical member (`ShownTruly`), which
`CanonicalAnchored` provides. All of it needs rows only, and rows stay (`AddsUpStable`, from
`StepGrows`). The entities come last, so everybody shown is among them.

Every safety invariant and action property of a passing run is stated by a theorem. Only
model-checked: `RepairPrevails` and `PendingGetsApplied`, which are liveness; that,
ENABLED and recursive operators the proof system used here does not reach.

## Not modelled

The other reports and adapters, the queries for assertions, evidence and sources, evaluation, rule export and
the notebook registry write none of the modelled tables and keep no state.
`text_chunking.py` and `coreference.py` rewrite or cut a text before it is extracted.
Of the ontology runtime, reading files and checking that each field has its type
is left out, as is the cache of loaded packs and profiles, whose files nothing in
the program writes. The report of
one candidate and the summary counts of the epistemic extension are left out.
`sanitize_qcode` asks a remote service and only decides whether a call goes on.

What would come next: that every promoted entity ends in an identity when
resolution is run again and again, under the fairness of the batch command.
