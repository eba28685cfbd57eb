# NarrowCTI in TLA+

NarrowCTI curates threat-intelligence feeds (AlienVault OTX, MISP) for
OpenCTI: it searches a source, scores and filters what it finds, exports what
passes, and holds doubtful candidates in a quarantine that analysts review.
This directory specifies its quarantine, its connector, the path of one item
from feed to STIX bundle and the export to OpenCTI, model-checks them with TLC
and proves almost all of their invariants with TLAPS. Paths below are relative
to the root of the repository.

## 1. The system

| component | code | state | operations |
|---|---|---|---|
| Quarantine repository | `core/quarantine.py`, `gateway/review.py` | append-only JSONL file, the last line of an id is its record; append-only release audit | `add`, `reject`, `release`, `release_indicators`, `mark_exported` |
| Review API | `gateway/review_api.py`, `review_auth.py` | one `RLock` per process | handlers run repository operations under the lock |
| Review CLI | `gateway/quarantine.py` | none, and no lock | the same operations, each command a process |
| Export of released records | `gateway/quarantine_export.py` | none | `export_pending`, `export_record` |
| OTX and MISP processors | `connectors/*/processor.py` | the query and the item at hand | `process_query`, `process_*_outcome`, and every file they advance |
| Gateway runtime | `gateway/runtime.py`, `connector.py` | none | endless loop over the enabled sources; a failing source is isolated |
| State files | `core/state_repository.py`, `deduplication.py`, `graph_deduplication.py`, `decision_audit.py`, `atomic_io.py` | checkpoints, artifact index, graph index (JSON, replaced whole), decision audit (JSONL) | `mark_item`, `filter_new_indicators`, `mark_indicators`, `mark_exported_plan`, `record` |
| Policy, TLP, scoring | `core/policy.py`, `tlp.py`, `scoring.py`, `contextual_scoring.py`, `indicator_policy.py` | none | pure decisions |
| Graph planning | `core/graph_candidates.py`, `graph_export_plan.py`, `opencti_*lookup*.py` | caches | pure, except lookups |
| OpenCTI exporter | `exporters/opencti.py`, `stix_builder.py` | worker log of a call | `send_bundle`, native objects |
| Source clients | `connectors/*/client.py`, `otx_client.py`, `core/retry.py` | none | bounded retries |
| Feed mapping and evidence | `connectors/*/feed_adapter.py`, `core/graph_evidence.py`, `mitre_attack.py`, `ip_asn_enrichment.py` | caches | pure mappings |
| Reports, diagnostics, preflight, settings | `gateway/*.py` (the rest) | none | read files, print |

Interactions. The connector process writes the quarantine file (`add`) and
all JSON state files. The review API and each CLI command are other processes
over the same volume; they write the quarantine file, the release audit and,
when artifact deduplication is asked for, the artifact index. No file lock
exists between processes: appends and atomic replacements are the only
synchronisation, and the API's lock serialises its own handler threads only.
Everybody delivers to OpenCTI, which merges equal identifiers.

What is hard: a decision that is read, checked and appended while another
process appends; a crash, a full disk or a torn line between the repository,
the audit, the delivery and the marks; the five writes that follow an export
in the connector, each of which may fail alone and is then only logged; two
processes that read and replace the artifact index; an item met again under
another query, in another cycle or by another source; limits that end a query
before its items are reached; what is inferred from an event whose parts come
in any order and name each other by aliases; indicators and candidates that the
builder silently leaves out of a bundle; OpenCTI changing, or not answering,
between the lookups, the import and the descriptions of one item.
`PROJECT.json` lists these hazards at their lines with the properties that
watch them.

What makes each component correct:

- Quarantine: a record is decided at most once, by one decision, and what the
  audit says of it stays true; nothing is delivered but what the review
  releases; it is marked exported only after a delivery.
- Connector: nothing is checkpointed, indexed or audited as ingested that was
  not handed to OpenCTI; nothing denied by TLP leaves; nothing known is sent
  again; everything accepted that OpenCTI can have arrives once failures stop,
  unless an index took it for something else.
- Evidence and scoring: what is inferred from an item follows from what it
  states, names nobody it does not name alone, is no surer than its source and
  does not raise the item's own score; the order of the lists in an event
  decides only which of two equally long labels an AS gets; context never costs
  an item its place.
- Plan, lookup and bundle: a candidate is taken for an object of OpenCTI only
  if it is that object; a bundle refers to nothing it does not hold or OpenCTI
  does not have; nothing held back leaves in another way; an object of another
  author that was found keeps its description; the index stays behind the
  imports; what is accepted is delivered in the end.

## 2. Modules

| module | contents |
|---|---|
| `QuarantineRecords` | records of the repository, the effect of a decision, what a release releases, the last line of an id |
| `QuarantineReview` | state machine of the repository file, the audit, the lock and the deliveries under connector, API and CLI, with failures |
| `QuarantineLifecycle` | abstract specification: what the quarantine promises for each record |
| `FeedIngestion` | state machine of the connector's cycle, its state files and a concurrent export of released records |
| `Lists` | lists as the code builds them: mapped, filtered, joined, without repetitions |
| `FeedTexts` | what the patterns of the code find in a text |
| `MispExtraction`, `OtxExtraction` | what one event, one pulse says |
| `GraphEvidence` | the evidence records of an item and what follows from the records of the same event |
| `GraphPlan` | candidates, acceptance policy, keys, plan, what is exportable, the marks of the local index |
| `StixBundle` | which objects, references and relationships the bundle of an item has |
| `ContextualScoring` | base score, context, thresholds, TLP |
| `ItemGraph` | composition of the six above: one item from its document to decision and bundle |
| `GraphLookup` | state machine of the OpenCTI lookups of one plan |
| `GraphExport` | state machine of the graph exports of one installation: lookup, import, native objects, descriptions, state file, audit, index; with failures, analysts and lost files |
| `QuarantineReviewProofs`, `QuarantineHistoryProofs`, `FeedIngestionProofs`, `ContextualScoringProofs`, `GraphLookupProofs`, `GraphExportProofs`, `ItemGraphProofs` | theorems about these modules |
| `ListProofs` | what the operators of `Lists` return, for lists of any length |
| `MC...` | constants for TLC |

`ItemGraph` and `GraphExport` both extend `GraphPlan` and `StixBundle`: the
first computes them from documents, the second runs them against an OpenCTI
that changes. `GraphLookup` takes apart what is one step of `GraphExport`.

What is left of a list when some of it is taken away (the candidates, the
accepted, the plan, the exportable) keeps the positions of the list in
`GraphPlan`: it is a function on some of them. The order is kept, nothing has to
be moved up, and no definition needs recursion, so that every one of them can
be reasoned about. The lists of `GraphEvidence`, which are joined, are sequences
made with the operators of `Lists`.

### QuarantineReview

`log` is the sequence of parsed lines of the repository file, `readable` turns
false when a torn line makes `events()` raise, `audit` is the release audit.
Each actor has a program counter, an operation and the record it read (`snap`).
The steps are the points between which another process can act: `Read` is
`get` with the checks of `_transition` or `export_record`; `Send` the call of
the exporter; `MarkRead` the second `get`, in `mark_exported`; `AppendUpdate`
writes the line built from `snap`, which may be stale by then; `AppendAudit`
the audit line. `Finish` leaves the `with repository_lock` block on every
path. `GatewayFind` and `GatewayAppend` are the two halves of `add`. Failures:
a torn line (`TearAppend`), an audit file that cannot be written
(`AuditFails`), the death of a process (`CrashProcess`) or of the API with all
its handlers (`CrashServer`), an exporter that raises (`SendFails`).

An indicator is its type, the only attribute a decision looks at. Reasons,
reviewers and times are left out (an empty reason is refused before anything
is read). Exports here use no artifact index, the default of API and CLI; the
export with the index is in `FeedIngestion`. A batch is a loop over the export
of one id: in the API it holds the lock throughout, in the CLI it reads
earlier, which `review_api_and_cli` shows the effect of.

### FeedIngestion

A job is one query of one source. `pc` walks through the processor:
`Search`, then for each item `SkipProcessed` or `Enrich`, then the decision
(`Drop`, `Quarantine`/`Queue`, `SkipEmpty`, `PreviewOnly`, `Ingest`), then
`Export` and the writes in the order of the code: artifact index (`Mark` reads
the file, `Save` replaces it), state file (`Checkpoint`), decision audit
(`Audit`), graph index (`MarkGraph`). Both processors have this order; what
differs is in constants: OTX ends a query after `MaxIngested` ingests, only
MISP may replay a graph (`GraphReplay`). What the pure parts compute is a
constant here: `Verdict` per query and item, `Carries`, `Graph`, `Denied`.
A record of the quarantine is named by query and item, as in
`quarantine_id_for`; what reviewers release of it is `Releases`.

What is handed over is less than what is marked. `Built` is `build_indicators`:
an indicator whose type has no STIX pattern (`Pattern`; OTX passes CVE, YARA,
CIDR and URI on) is left out without a word, two with one pattern are one.
`Fingerprints` is `mark_indicators`, which names all of them, and names a URI
like a URL (`Fingerprint`). A graph candidate is the relationship of one item
to one entity (`Entity`). `Plan` leaves out the candidate whose relationship or
whose entity the graph index knows; `Export` hands over those of the plan that
the builder makes objects for (`Bundled`) and any of the others, which are
native objects or skipped; `MarkGraph` marks the whole plan. So the properties
say `HandedOver` and `Settled`: of a checkpointed item OpenCTI has every
allowed indicator that has a pattern, or one of the same fingerprint was handed
over; and every candidate that the builder makes, or another item's
relationship has made its entity known. The lookup of graph entities in OpenCTI,
off by default, is left to `GraphExport`.

Failures: an exception nothing catches ends the source's run (`AbortSource`),
an enrichment gives nothing (`EnrichMissing`), an export fails after OpenCTI
took any part of it (`ExportFails`), a caught write is lost (`AuditFails`,
`WriteFails`), the process dies (`Crash`). `Review...` is
`export_record` with the artifact index, in another process, with its own
failures. Sightings and timestamps in the index records are left out.

### From a document to a bundle: ItemGraph

A text is a string and `Facts[text]` what the patterns of the code find in it
(is it an address, a CVE, a TLP tag; its parts; its AS number): the regular
expressions are abstracted to that table, what is done with their answers is
not. `Extract` runs the extraction functions of `misp/processor.py` (`Galaxies`,
`Vulnerabilities`, `Campaigns`, `Victimology`, `EventReports`, `Sightings`,
`ObjectReferences`, `Infrastructure`, `DetectionRules`), with their
deduplication and the canonical names of AS; a pulse goes through
`entity_extraction.py` (`EntityRecords`, `OtxObservables`,
`InferredInfrastructure`). `BuildEvidence` is `graph_evidence.py` up to the
records, `RelateCampaigns` and `RelateInfrastructure` its two passes over
them: each makes a list of links between two records (`Step`), keeps those that
neither a record nor an earlier link says (`New`), no more than the bound
(`Cut`), and makes a record of each (`Related`). `ApplyPolicy`, `Decide` and `Preview` are `graph_candidates.py`, the
scoring with the thresholds and the TLP, and the builder. The steps are
sequential code; they are actions so that the properties can speak of what
lies between them.

`Decide` takes what `scoring.py` finds (the query in title or tags, the number
of indicators, the age) from the set `Signals`. A sum of impacts is the sum
over the distinct `(category, entity, value)`, as `contextual_adjustments`
deduplicates them; the rounding is Python's, half to even.

`OrderIndependent` compares the records of an event with those of the event
whose lists are reversed. An AS gets the longest of its labels, and of two
equally long ones the first (`misp/processor.py:1628`): `Untied` excludes the
events in which the order decides that way. The attributes inside one object
are not reordered, because the code reads from the first that fits how an AS
and an infrastructure are called.

`VictimsWait` is about the switch for infrastructure victimology. The switch
covers what is inferred: an event whose source states the reference from an
infrastructure object to a victim gets that relationship whatever the switch
says, and the property names this case.

### GraphLookup

One action asks one query of OpenCTI (`Ask`), misses, or fails; `memo` is the
cache of `known_keys_for_plan`, `links` the one of relationships, `asked` the
history of queries. Which queries a candidate gives (by standard id, by name,
by curated alias, by search, by external id, as an observable) and which of
the answers is taken is `Queries` and `Answers`. `Change` lets OpenCTI gain or
lose an object between two queries.

### GraphExport

`Begin` computes what is known from the index and the lookups (any subset of
which may fail) and what is exportable; `Import` hands over the bundle,
`Reject` a part of it; `CreateNative` the objects made through the API, each of
which may fail alone; `ReadText` and `PatchText` the descriptions of existing
objects, two calls with analysts in between (`Edit`); `SaveState`, `Audit` and
`MarkIndex` the files. `Crash`, `MarkFails` and `LoseState` (an unreadable
state file is an empty one) may come at any point. `deployment` is chosen at
the beginning: whether an index and the lookup are configured, and the bounds
of failures and edits.

`text` says whose description an object has, `authored` which objects OpenCTI
got with our author. The objects of a bundle carry descriptions (`HasText`) and
the import is an update (`exporters/opencti.py:317`). What OpenCTI then does
with an object it has is external: `Takes` lets it keep the description or take
ours, and assumes that it keeps the author. `AddAgain` is a native object added,
as an update too, although it is there. With the lookup off or failed our
description therefore does go onto objects of other authors;
`FoundTextIsKept` speaks of the objects the lookup found, and leaves out the two
ATT&CK types whose reference the builder does not recognise (`Renamed`).

## 3. Runs

| run | question | bounds |
|---|---|---|
| `review_api` | two API requests and the connector, with failures: `TypeOK`, `AuditedDecisionStands`, `DeliveredWithinRelease`, the refinement `ImplementsLifecycle` and, under fairness, `EveryReviewEnds` | one record with two types, two deliveries |
| `review_no_failures` | without failures, two records: `ExportedOnce`, `AuditMirrorsLog` | two records, one of a single type |
| `review_all_processes` | API, CLI and connector without a common lock: `NeverReopened`, `ExportedWasDelivered` | one of each, one record |
| `review_api_and_cli` | finding 1 | one request, one command |
| `feed_release_and_faults` | connector (OTX; MISP in dry-run) and release together: `TypeOK`, `CheckpointedIsDelivered`, `IndexesAreHandedOver`, `DeniedStaysOut`, `AuditTellsTruth` | three queries, five items, two failures |
| `feed_arrives` | the connector alone, both sources, MISP replaying graphs: `DeliveredOnce`, `IndexSuppresses`, and the liveness `WantedArrives` | two failures |
| `feed_allowed_types` | finding 2 | no failures |
| `graph_export` | two items that share entities under three installations: `TypeOK`, `BundleIsClosed`, `ExistingIsReused`, `IndexedIsSent`, `IndexedIsNotResent`, `HeldIsNotDelivered`, `FoundTextIsKept`, and the liveness `AcceptedIsDelivered` | two failures and one edit with index and lookup, one failure with the index alone, one of each with the lookup alone |
| `graph_uncertain` | finding 3 | one failure |
| `graph_lookup` | three plans against any subset of eight objects and two relationships, pages of two answers: `TypeOK`, `NothingAskedTwice`, `KnownRelationshipExists`, `PresentIsKnown`, `TakenIsTheOne`, and the liveness `LookupEnds` | one failing query, one change |
| `item_graph` | about 1800 events and pulses, each with every set of signals: `TypeOK`, `NoEdgeTwice`, `OneAdversary`, `ContextNotSurer`, `OrderIndependent`, `VictimsWait`, `OneNameForAs`, `ContextOnlyLifts`, `InferenceScoresNothing` | below |
| `item_sole_actor` | finding 4 | one actor with an alias |

Why the bounds are enough. *Review*: records do not interact except through
the readability of the file, so one record with a proper subset of types to
release shows every decision; the second record is there for the order of the
audit. Two concurrent reviewers are what a race between read and append needs,
and a third process, the connector, appends in between. Two deliveries allow
one repeat, the least that tells once from at least once. *Feed*: one
indicator is carried by items of both sources and by two items of one; one has
no pattern and shares its fingerprint with one that has, two have one pattern
and two fingerprints, one cannot be fingerprinted, one is of a type not allowed;
two items name one entity, and the builder makes nothing of one candidate; one
item is found by
one query only, behind its ingest limit, one is quarantined by two queries,
one is denied by TLP and quarantined by score. Two failures allow one during
the recovery from another. *Export*: the items share an entity with different
anchors, an anchor that is left out with its candidate, a relationship between
identifiers, a candidate too weak, one that waits for validation, one the
builder makes nothing of, a native rule and a native platform, and one entity
OpenCTI has from the start. *Lookup*: ambiguous and preferred aliases, one name for two kinds of
identity, every kind of query, relationships in both directions. *Item*: every
choice of up to two actors, a person, campaigns, capabilities, victims, ports,
AS objects and tags, in three families of events and one of pulses; two AS
labels are equally long, and in some of these events a third is longer. The code's
caps of 100 pairings and 200 records are `MaxPairings` and `MaxRecords`, set to
3 and 4 so that events on both sides of them occur; `MaxOwners` likewise.

`CHECK_DEADLOCK FALSE` stands where the system stops: when every record is
decided and `MaxDeliveries` reached, when the plan is looked up, the items are
exported or the item is built. The feed never stops.

Fairness. `QuarantineReview!FairSpec`: a handler that has begun is
straight-line code with an exporter that answers or raises, hence weak fairness
of `Proceed` for each reviewer; `RLock` does not queue its waiters, so that
`Acquire` needs strong fairness. Nothing obliges anyone to submit a request.
`FeedIngestion!FairSpec`: `run_gateway_loop` is an endless loop in a container
that is restarted, hence weak fairness of the connector's work, not of
failures and not of releases. Failures are bounded by `MaxFaults`, which is how
"once failures stop" is expressed. `GraphExport!FairSpec` says the same of
`Step`; its run assumes it only for installations with lookup and without
index, the ones `AcceptedIsDelivered` speaks of. `GraphLookup`: a call that
returns or raises, hence weak fairness of `Step`, failing queries included.

## 4. Proofs

All theorems hold for every value of the constants that satisfies the named
assumptions. What these ask, and why the code gives it:

| assumption | says |
|---|---|
| `HoldsAssumption`, `ActorsAssumption`, `BoundsAssumption`, `NoneAssumption` | types; `None` is no record, operation or process; a process has one role |
| `JobsAssumption`, `SourcesAssumption`, `ContentAssumption`, `SettingsAssumption` | types; an external id belongs to one source |
| `GraphAssumption` | no two items have a graph candidate in common: `graph_relationship_key` contains the item's external id |
| `ModeAssumption`, `PolicyAssumption`, `CapsAssumption`, `ScoringAssumption` | the settings are of the types to which `gateway/settings.py` parses them; impacts are percentages |
| `ExportAssumption` | types of evidence and installations; what OpenCTI merges is among the keys of the evidence |
| `LookupAssumption` | OpenCTI's ids name one object and are not empty; a type is in one curated group; `ordered_search_values` leaves no name twice |
| `FactsAssumption`, `TechniquesAssumption`, `FeedsAssumption` | what the patterns find, the catalogue holds and the feeds hand over are lists of texts; which fields an event has is `IsMispEvent`, which a pulse has `IsPulse` |
| `AliasesAssumption` | the canonical name of the curated table is not itself an alias, and not empty |

`QuarantineReviewProofs`:

- `TypeCorrect`: `Spec => []TypeOK`.
- `AuditStands` and `ReleaseIsRespected`: `Serialized` implies
  `[]AuditedDecisionStands` and `[]DeliveredWithinRelease`. `Serialized` says
  that reviewers are the handlers of one API, or a single command, and that
  there is one connector; without it the first is false (finding 1). The
  inductive invariant has the parts `LockHeld` (a handler inside an operation
  owns the lock, so at most one reviewer is), `ReadIsCurrent` (what that
  reviewer read is still the current line, because only it and the connector
  append, and the connector appends to unknown ids only), `FindIsCurrent`
  (the id the connector found missing is still missing) and `AuditIsFinal`
  (what is audited is in a final status and agrees with the log).

`QuarantineHistoryProofs`, on top of these:

- `ExportsWereDelivered` (`ExportedWasDelivered`) without any assumption on
  locks: `ReviewerInv` says what has happened when a reviewer is where it is,
  and every appended line preserves what the file says of the past.
- `NeverQueuedAgain` (`NeverReopened`) with a single connector, because the
  found-missing id stays missing for the only process that adds.
- `DeliveredOnce` (`ExportedOnce`), serialized and without failures: `OnceInv`
  says that a delivered record is marked, or its mark is on the way in the
  hands of the one reviewer inside an operation.
- `AuditTellsTheStory` (`AuditMirrorsLog`), serialized and without failures:
  the k-th event of the audit tells the k-th line a review wrote. `Rank` counts
  the lines up to one, so that no sequence has to be filtered. `MirrorInv`
  holds the two files together while one is ahead of the other: at `audit`, the
  audit with the event that is due mirrors the file. The connector's lines are
  not review lines and move no rank.
- `Refinement` (`ImplementsLifecycle`), serialized: each step of the file and
  its processes is `Quarantine`, `Decide`, `Deliver` or `MarkExported` of the
  abstract lifecycle, or changes nothing of it. One lemma for each of the
  three steps that can (`GatewayAppend`, `AppendUpdate`, `Send`), and one for
  what an appended line does to the mapped variables.

`FeedIngestionProofs`:

- `TypeCorrect`, and with the position of the item under review.
- `CheckpointsAreSound`, `IndexesAreSound`, `TLPIsRespected`, `AuditIsSound`
  follow from `DeliveryInv`. Its part `FlowInv` (`DoneFor` the item at hand)
  says what is already settled or written at each step of the processor;
  `SharedInv` that each copy of the artifact index (the file, and the one each
  process loaded) is behind the hand-over, so that a lost update loses a
  fingerprint and never invents one; `GraphInv` that the graph index knows
  nothing of an item before its checkpoint, so that an entity known when an
  item is planned comes from another item.
- `IndexIsUsed` (`IndexSuppresses`) and `OnceWithoutFailures`
  (`DeliveredOnce`) follow from `SoloInv`: while nothing is released the index
  the connector loaded is the file, and a candidate about to be exported has
  nothing in common with it; `OnceInv` adds that without failures all that
  OpenCTI has and the index can name is in the index, or about to be.

`GraphLookupProofs`, all from the two parts that say where the lookup is:
`PlaceInv` (the plan, the action, the phase) and `AskingInv` (what is left to
ask is a tail of the queries of the end looked up). `StepKinds` classifies a
step by what it asks and what the caches gain by it; each theorem adds an
invariant:

- `LookupTypes` (`TypeOK`).
- `AskedOnce` (`NothingAskedTwice`): `AskedInv` says that whoever was asked
  about is decided in a cache, or is being looked up and that query is not
  among those left. It rests on the lemmas that the queries of a candidate are
  each there once, which is what the code's ordered names are for.
- `TakenFits` (`TakenIsTheOne`), an action property: an answer is taken only if
  it is there at that moment and is the only one that fits, or the preferred.
- `KnownIsThere` (`KnownRelationshipExists`): `ExistsInv` says what both caches
  say is true of OpenCTI as long as it does not change, and which ends are
  decided in which phase.
- `PresentIsFound` (`PresentIsKnown`): `FoundInv` says that, nothing failing
  and nothing changing, a cached miss is one of which every query was asked in
  vain, and `PassedInv` that the actions behind are known or missed.

`GraphExportProofs`:

- `ExportTypes` (`TypeOK`). `TypeInv` adds where the candidates of an export
  come from: each is what the policy accepted of a record, with a reference
  OpenCTI may have for its key (`FromRecords`).
- `ClosedBundle` (`BundleIsClosed`): an end of an edge is an object the bundle
  holds, the author or the report, or the reference the lookup found. `Ends`
  goes through the ways the builder resolves an end (an object of the bundle,
  an alias, an existing object, an indicator); `ForeignRefs` says that
  nothing OpenCTI has is taken for the author or the report.
- `ExistingStays` (`ExistingIsReused`) and `IndexSparesImports`
  (`IndexedIsNotResent`) from `ImportInv`: at the import no candidate is in the
  index, and one whose entity was found refers to it by an identifier of its
  type.
- `HeldStays` (`HeldIsNotDelivered`) from `DeliveredInv`: OpenCTI has
  relationships of accepted candidates only, whatever was rejected, retried or
  forgotten in between.
- `IndexIsSent` (`IndexedIsSent`): from the import to the marks the candidates
  of the item are among what OpenCTI confirmed, and the plan that is marked
  names candidates only.
- `FoundTextStays` (`FoundTextIsKept`), an action property: what the lookup
  found goes with the export to its end. `TextInv` says that the candidates of a
  found key refer to its object, that an object with an id of ours is ours
  (`OwnIds`), and that what is about to be patched is ours or gone. What appears
  between the lookup and the writes is ours, or of a key that was not found
  (`Appears`), so import, native objects and hydration write on nothing else
  (`Spared`).

`ContextualScoringProofs`, about the operators: `ContextIsForwardOnly` (the
score stays between the base score and 100), `MoreContextScoresNoLess` (the
cap and the half-even rounding keep the order of impacts) and
`ContextKeepsIngested` (the decision on an item its base score lets in), for
every score, impact and threshold.

`ItemGraphProofs` is about every event and every pulse. The sections before the
invariant follow a document through the code. Each extraction function returns
facts, each evidence function records of which `Stated` holds: an entity type
of the table, its values present and canonical, no inference, no validation,
and a certainty that is not below the floor of its kind (`StatedFloor`, and
`NamedFloor` for canonical names). The floors are what `ContextNotSurer` needs:
a record of a canonical name is raised to its floor again when it is inferred,
and this does not make it surer than its source because no source of such an
inference is below it. `Grown(item, records, n)` is the invariant of the list:
the first `n` records are stated, each later one follows from two of them
(`Follows`), is no surer than either, and is said by none before it. That the
two passes only relate stated records, although the second reads what the
first wrote, is `FirstsAreStated`: the list of entities takes the first record
of each, and whatever is inferred about an entity comes after what is stated of
it. `ItemInv` adds to `Grown` that `accepted`, `decision` and `bundle` are what
the code computes of the records.

- `ItemTypes` (`TypeOK`), `EdgesOnce` (`NoEdgeTwice`) and `InferredIsNotSurer`
  (`ContextNotSurer`) from `Grown`.
- `ContextLiftsOnly` (`ContextOnlyLifts`): the sum of impacts is not negative,
  and nothing without accepted candidates.
- `OnlySourcesScore` (`InferenceScoresNothing`): an inferred record that is
  accepted names an entity that a stated record names too, and that record is
  accepted as well, being at least as sure.
- `VictimsAreWaiting` (`VictimsWait`): links from an infrastructure to a victim
  carry the mark (`Guarded`), the policy holds what is marked, the export
  plan takes only what the policy accepted (`SentIsAdmitted`), and an edge of the bundle
  whose source is an infrastructure is that of a candidate with this anchor, of
  a reference between objects, or of a network (`TargetingEdges`).
- `OnlyAdversary` (`OneAdversary`). `ToldBy(document)` is what an item says of
  adversaries: the actors it names, and the campaign or actor that is its only
  one. Each lemma about a source proves, beside `Stated`, that its records are
  `Backed` by this: none carries an inference about an adversary, none is given
  to a campaign or an actor but the only one or that of its own cluster, and a
  MISP record of an actor is of one the event names. `NamedInv` adds what makes
  the count of the code the count of the event: there is a record of every
  actor a cluster or a tag names (`EvidenceNames`), so a list of actors of
  length one (`OnlyActor`) means an event with one actor (`OneIsNamed`), also
  in the second pass, which reads what the first inferred.

Only model-checked:

- Liveness under fairness: `EveryReviewEnds`, `WantedArrives`,
  `AcceptedIsDelivered`, `LookupEnds`.
- `OrderIndependent` (for events in which no AS has two longest labels)
  compares two runs of the extraction over an event and its reverse: that the
  folds of the extraction commute with a reversal up to order would be an
  induction over the lists.
- `OneNameForAs`: the name is the longest of those found, joined with the
  number by `Record`, and what the patterns find in the joined text is a
  constant here (`Facts`) of which the code's patterns would have to be assumed.

## 5. Findings

1. *A CLI decision can overwrite an API decision* (`review_api_and_cli`).
   `_transition` reads, checks and appends without a lock common to processes;
   a command that read the record as pending before the API's append becomes
   the current line after it. `docs/quarantine-enrichment-v0.6.md:95` says the
   repository must not silently overwrite review records.
2. *A release exports types outside the allow-list* (`feed_allowed_types`).
   The type filter runs after the quarantine decision and on ingests only;
   `docs/configuration-reference.md:73` says it filters exportable indicator
   types.
3. *A failed lookup discards a relationship* (`graph_uncertain`). An entity
   known to the index whose lookup fails has no match to refer to, and its
   candidate is left out together with a relationship that was never sent
   (`core/graph_export_plan.py:286-294`).
4. *A pulse's actor with a curated alias loses its relationships*
   (`item_sole_actor`). The actor is renamed to its canonical name, the
   anchors that name it are not, and the builder does not find it.

Seen while modelling, in the models as the code has it, without a run:

- The artifact index knows indicators that have no pattern and were never
  delivered (`core/deduplication.py:60`, `stix_builder.py:115`), and a URI keeps
  out a URL of the same value: `FeedIngestion!HandedOver`.
- What OpenCTI never got is marked as exported: a candidate the builder makes
  nothing of (`stix_builder.py:432-434`) and a native object that could not be
  created (`exporters/opencti.py:431-440`) are in the plan that is marked
  (`misp/processor.py:2607-2625`) and not tried again, while
  `docs/architecture-v0.9.md:47` says to mark only what OpenCTI confirmed:
  `FeedIngestion!MarkGraph`. The properties therefore speak of what the builder
  makes (`Bundled`).
- Descriptions are overwritten, while
  `docs/opencti-coverage-matrix-v0.8.md:239` says that those that are not empty
  are not, and only objects of ours get one. With the lookup off, or when it
  fails, the import puts ours onto objects of other authors
  (`exporters/opencti.py:317`); it sends an existing object again whose id is
  the one the builder computes, whatever an analyst has written there
  (`stix_builder.py:646-654`); and what is written between read and patch is
  replaced (`exporters/opencti.py:815-832`). `FoundTextIsKept` speaks of the
  rest.
- Plan summaries carry no attributes, so the lookup of relationships never has
  an anchor to ask for (`core/graph_export_plan.py:437`;
  `docs/configuration-reference.md:189`): `GraphExport!LookedUp`.
- The audited plan is computed after the export, from what is known by then
  (`misp/processor.py:2300`; `docs/graph-promotion-v0.8.md:71`).
- A `data-component--` reference is refused by the builder
  (`stix_builder.py:657`; `docs/architecture-v0.8.md:92`).
- The key of the lookup cache leaves the entity type out
  (`opencti_graph_lookup.py:1642`): `PresentIsKnown` excludes plans where that
  shows.
- Inferred infrastructure needs an observable or an AS, while
  `docs/architecture-v0.8.md:175` asks for an observable
  (`entity_extraction.py:937`).
- Edges given to the single anchor of an event carry neither scope nor
  inference (`graph_evidence.py:1567`; `docs/architecture-v1.0.md:103`).

## 6. Not modelled

- HTTP clients and `core/retry.py`: bounded sequential loops without state;
  their outcomes are choices of `FeedIngestion`.
- The steps inside `write_json_atomic`: the temporary file is synced before one
  `os.replace`, so a reader sees the old or the new file.
- `review_auth.py`: a check before an operation, without state across
  requests; whether an operation is asked for is a free choice.
- The lookup of single indicators in OpenCTI (`core/opencti_deduplication.py`),
  off by default; `FeedIngestion` has the local index.
- The MITRE catalogue and the AS table are constants; the curated tables of
  `graph_evidence.py` are represented by a few entries each.
- The contents of STIX objects (labels, patterns, dates, external references)
  and the fields of MISP and OTX that are only copied along.
- The interleaving of a release with a MISP export that writes: TLC has MISP in
  dry-run beside releases, for the size of the state space; the theorems of
  `FeedIngestionProofs` hold for both.
- A graph index that cannot be read while a plan is made: the code then plans
  as if it were empty (`core/graph_export_plan.py:139-144`), and the item is
  sent again.
- Reports, correlation, diagnostics, preflight, validation, settings: tools
  that read the files and print.
