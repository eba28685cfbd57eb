--------------------------- MODULE FeedIngestion ---------------------------
(***************************************************************************)
(* The connector process: the gateway's endless cycle over the sources,    *)
(* their queries and the items a query finds (gateway/runtime.py,          *)
(* connectors/otx/processor.py, connectors/misp/processor.py), with the    *)
(* state files it advances for every item, and the export of released      *)
(* quarantine records by the review processes (gateway/quarantine_export), *)
(* which shares the artifact index file with it and takes no lock.         *)
(*                                                                         *)
(* A job is one query of one source.  What the pure parts compute is a     *)
(* constant: Found (search), Denied (TLP), Verdict (scoring and policy),   *)
(* Carries (the raw indicators left by the guardrail), Pattern (their STIX *)
(* pattern, if the builder knows their type), Fingerprint (what the        *)
(* artifact index calls them: URI and URL are one type to it), Graph (the  *)
(* accepted graph candidates; each is the relationship of one item to one  *)
(* entity).  Releases is what the analysts will let out of a quarantined   *)
(* record; a record is named by item and query.  Texts and scores are left *)
(* out, and OpenCTI is not asked for known entities (opencti_graph_lookup  *)
(* is off by default): GraphExport models that.                            *)
(***************************************************************************)
EXTENDS Naturals, Sequences, FiniteSets

CONSTANTS
    Sources, Items, Indicators, Patterns, ArtifactKeys, GraphKeys, Entities,
    NoPattern, NoFingerprint,
    Source,             \* Source[j]: the source of job j
    Found,              \* Found[j]: the items its search returns, in order
    Verdict,            \* Verdict[j][i]: "ingest", "quarantine" or "drop"
    Carries,            \* Carries[i]: the indicators of item i
    Pattern,            \* Pattern[x]: the STIX pattern of x, or NoPattern
    Fingerprint,        \* Fingerprint[x]: its name in the artifact index, if any
    Graph,              \* Graph[i]: its graph candidates ({} in audit mode)
    Entity,             \* Entity[g]: the entity key of candidate g
    Bundled,            \* candidates the builder makes objects for
    Denied,             \* items whose TLP is not allowed
    AllowedIndicators,  \* indicators of the allowed types
    MaxReviewed,        \* per source: how many found items are reviewed
    MaxIngested,        \* per source: ingests that end a query
    ArtifactDedup,      \* an artifact index is configured
    GraphDedup,         \* a graph index is configured
    GraphReplay,        \* sources with graph_replay_on_artifact_dedup
    DryRun,             \* sources in dry-run
    Releases,           \* Releases[j][i]: the indicators reviewers release
    MaxFaults           \* bound: failures and crashes

Jobs == DOMAIN Source
Records == Jobs \X Items

ASSUME JobsAssumption ==
    /\ Source \in Seq(Sources) /\ Source # << >>
    /\ Found \in [Jobs -> Seq(Items)]
    /\ Verdict \in [Jobs -> [Items -> {"ingest", "quarantine", "drop"}]]

\* An item is a source's external id: no two sources find the same one.
ASSUME SourcesAssumption ==
    \A j, k \in Jobs : \A p \in DOMAIN Found[j], q \in DOMAIN Found[k] :
        Found[j][p] = Found[k][q] => Source[j] = Source[k]

ASSUME ContentAssumption ==
    /\ Carries \in [Items -> SUBSET Indicators]
    /\ Pattern \in [Indicators -> Patterns \cup {NoPattern}]
    /\ Fingerprint \in [Indicators -> ArtifactKeys \cup {NoFingerprint}]
    /\ NoPattern \notin Patterns /\ NoFingerprint \notin ArtifactKeys
    /\ Graph \in [Items -> SUBSET GraphKeys]
    /\ Entity \in [GraphKeys -> Entities] /\ Bundled \subseteq GraphKeys
    /\ Denied \subseteq Items
    /\ AllowedIndicators \subseteq Indicators
    /\ Releases \in [Jobs -> [Items -> SUBSET Indicators]]
    /\ \A j \in Jobs, i \in Items : Releases[j][i] \subseteq Carries[i]

\* A relationship key names the item it is from (graph_relationship_key).
ASSUME GraphAssumption ==
    \A i, k \in Items : i # k => Graph[i] \cap Graph[k] = {}

ASSUME SettingsAssumption ==
    /\ MaxReviewed \in [Sources -> Nat \ {0}]
    /\ MaxIngested \in [Sources -> Nat \ {0}]
    /\ ArtifactDedup \in BOOLEAN /\ GraphDedup \in BOOLEAN
    /\ GraphReplay \subseteq Sources /\ DryRun \subseteq Sources
    /\ MaxFaults \in Nat

VARIABLES
    checkpoint, \* items in the sources' state files
    index,      \* fingerprints in the artifact index file
    graphIndex, \* entities and relationships in the graph deduplication file
    decided,    \* <<item, action>> lines of the decision audit
    queued,     \* records in the quarantine repository
    exported,   \* released records marked exported
    received,   \* the patterns of the indicators OpenCTI has accepted
    repeated,   \* those it has accepted more than once
    graph,      \* graph candidates it has accepted
    sent,       \* items whose bundle was handed to it
    pc, job, pos, ingested,     \* the connector's control
    candidate,  \* the indicators it is about to export
    seen,       \* the artifact index as mark_indicators loaded it
    review,     \* the exporter of released records, a process of its own
    faults      \* failures so far

state == <<checkpoint, graphIndex, decided, queued>>
opencti == <<received, repeated, graph, sent>>
control == <<pc, job, pos, ingested, candidate, seen>>
vars == <<state, index, exported, opencti, control, review, faults>>

Actions == {"ingest", "quarantine", "drop", "skip", "dry_run", "error"}

Idle == [step |-> "idle", record |-> << >>, cand |-> {}, seen |-> {}]

GatewaySteps == {"sleeping", "search", "next", "enrich", "queue", "export",
                 "mark", "save", "checkpoint", "audit", "graph"}

TypeOK ==
    /\ checkpoint \subseteq Items /\ sent \subseteq Items
    /\ queued \subseteq Records /\ exported \subseteq Records
    /\ index \subseteq ArtifactKeys
    /\ graphIndex \in [entities : SUBSET Entities, relationships : SUBSET GraphKeys]
    /\ decided \subseteq Items \X Actions
    /\ received \subseteq Patterns /\ repeated \subseteq received
    /\ graph \subseteq GraphKeys
    /\ pc \in GatewaySteps /\ job \in Jobs
    /\ pos \in Nat \ {0} /\ ingested \in Nat
    /\ candidate \subseteq Indicators /\ seen \subseteq ArtifactKeys
    /\ review \in [step : {"idle", "send", "mark", "save", "done"},
                   record : Records \cup {<< >>},
                   cand : SUBSET Indicators, seen : SUBSET ArtifactKeys]
    /\ review.step # "idle" => review.record \in Records
    /\ faults \in 0 .. MaxFaults

Init ==
    /\ checkpoint = {} /\ index = {} /\ decided = {}
    /\ graphIndex = [entities |-> {}, relationships |-> {}]
    /\ queued = {} /\ exported = {}
    /\ received = {} /\ repeated = {} /\ graph = {} /\ sent = {}
    /\ pc = "sleeping" /\ job = 1 /\ pos = 1 /\ ingested = 0
    /\ candidate = {} /\ seen = {}
    /\ review = Idle
    /\ faults = 0

-----------------------------------------------------------------------------
(* The cycle                                                                *)

Item == Found[job][pos]

\* Mutant: the end of the list of queries is not noticed.
LeaveForAny(j) ==
    /\ job' = j /\ pc' = "search"
    /\ pos' = 1 /\ ingested' = 0 /\ candidate' = {} /\ seen' = {}

\* The next query, or the pause between two cycles.
LeaveFor(j) ==
    /\ IF j \in Jobs THEN job' = j /\ pc' = "search"
                     ELSE job' = 1 /\ pc' = "sleeping"
    /\ pos' = 1 /\ ingested' = 0 /\ candidate' = {} /\ seen' = {}

\* process_..._outcome returns without an ingest.
NextItem ==
    /\ pc' = "next" /\ pos' = pos + 1 /\ candidate' = {}
    /\ UNCHANGED <<job, ingested, seen>>

Goto(step) == pc' = step /\ UNCHANGED <<job, pos, ingested, candidate, seen>>

Decide(action) == decided' = decided \cup {<<Item, action>>}

StartCycle ==
    /\ pc = "sleeping"
    /\ Goto("search")
    /\ UNCHANGED <<state, index, exported, opencti, review, faults>>

Search ==
    /\ pc = "search"
    /\ Goto("next")
    /\ UNCHANGED <<state, index, exported, opencti, review, faults>>

MoreToReview ==
    /\ pos <= Len(Found[job]) /\ pos <= MaxReviewed[Source[job]]
    /\ ingested < MaxIngested[Source[job]]

EndQuery ==
    /\ pc = "next"
    /\ ~MoreToReview
    /\ LeaveFor(job + 1)
    /\ UNCHANGED <<state, index, exported, opencti, review, faults>>

\* Mutant: an item already processed counts towards the query's ingests.
SkipProcessedCounted ==
    /\ pc = "next"
    /\ MoreToReview
    /\ Item \in checkpoint
    /\ Decide("skip")
    /\ pc' = "next" /\ pos' = pos + 1 /\ candidate' = {}
    /\ ingested' = ingested + 1
    /\ UNCHANGED <<job, seen, checkpoint, graphIndex, queued, index, exported,
                   opencti, review, faults>>

SkipProcessed ==
    /\ pc = "next"
    /\ MoreToReview
    /\ Item \in checkpoint
    /\ Decide("skip")
    /\ NextItem
    /\ UNCHANGED <<checkpoint, graphIndex, queued, index, exported, opencti,
                   review, faults>>

Enrich ==
    /\ pc = "next"
    /\ MoreToReview
    /\ Item \notin checkpoint
    /\ Goto("enrich")
    /\ UNCHANGED <<state, index, exported, opencti, review, faults>>

-----------------------------------------------------------------------------
(* The decision                                                             *)

\* Mutant: a candidate is judged by its score alone.
DecisionWithoutTLP == Verdict[job][Item]

\* The TLP decision comes first: a denied candidate is not even queued.
Decision == IF Item \in Denied THEN "drop" ELSE Verdict[job][Item]

\* apply_indicator_type_filter
Wanted(i) == Carries[i] \cap AllowedIndicators

\* Mutant: the artifact index is not consulted.
AllNew(indicators) == indicators

\* filter_new_indicators: what has no fingerprint is always new.
New(indicators) ==
    IF ArtifactDedup THEN {x \in indicators : Fingerprint[x] \notin index}
                     ELSE indicators

\* exportable_graph_candidate_policy: a candidate whose relationship or, with
\* no OpenCTI object to refer to, whose entity is known is left out.
Plan(i) ==
    {g \in Graph[i] : /\ g \notin graphIndex.relationships
                      /\ Entity[g] \notin graphIndex.entities}

DisallowedByType(i) == Carries[i] # {} /\ Wanted(i) = {}

Replays(i) == Source[job] \in GraphReplay /\ Plan(i) # {}

AllKnown(i) == ArtifactDedup /\ New(Wanted(i)) = {} /\ ~Replays(i)

Drop ==
    /\ pc = "enrich"
    /\ Decision = "drop"
    /\ Decide("drop")
    /\ NextItem
    /\ UNCHANGED <<checkpoint, graphIndex, queued, index, exported, opencti,
                   review, faults>>

\* record_decision writes the decision audit, and then the repository.
Quarantine ==
    /\ pc = "enrich"
    /\ Decision = "quarantine"
    /\ Decide("quarantine")
    /\ Goto("queue")
    /\ UNCHANGED <<checkpoint, graphIndex, queued, index, exported, opencti,
                   review, faults>>

Queue ==
    /\ pc = "queue"
    /\ queued' = queued \cup {<<job, Item>>}
    /\ NextItem
    /\ UNCHANGED <<checkpoint, graphIndex, decided, index, exported, opencti,
                   review, faults>>

SkipEmpty ==
    /\ pc = "enrich"
    /\ Decision = "ingest"
    /\ DisallowedByType(Item) \/ AllKnown(Item)
    /\ Decide("skip")
    /\ NextItem
    /\ UNCHANGED <<checkpoint, graphIndex, queued, index, exported, opencti,
                   review, faults>>

Ingestable ==
    Decision = "ingest" /\ ~DisallowedByType(Item) /\ ~AllKnown(Item)

PreviewOnly ==
    /\ pc = "enrich"
    /\ Ingestable
    /\ Source[job] \in DryRun
    /\ Decide("dry_run")
    /\ NextItem
    /\ UNCHANGED <<checkpoint, graphIndex, queued, index, exported, opencti,
                   review, faults>>

\* Mutant: the indicators enter the artifact index before the export.
IngestMarkingFirst ==
    /\ pc = "enrich"
    /\ Ingestable
    /\ Source[job] \notin DryRun
    /\ candidate' = New(Wanted(Item))
    /\ index' = index \cup ({Fingerprint[x] : x \in candidate'} \ {NoFingerprint})
    /\ pc' = "export"
    /\ UNCHANGED <<state, exported, opencti, job, pos, ingested, seen,
                   review, faults>>

Ingest ==
    /\ pc = "enrich"
    /\ Ingestable
    /\ Source[job] \notin DryRun
    /\ candidate' = New(Wanted(Item))
    /\ pc' = "export"
    /\ UNCHANGED <<state, index, exported, opencti, job, pos, ingested, seen,
                   review, faults>>

-----------------------------------------------------------------------------
(* Export and bookkeeping, one file after the other                         *)

\* build_indicators: an indicator without a pattern is silently left out, and
\* so is a second one with the same pattern.
Built(indicators) == {Pattern[x] : x \in indicators} \ {NoPattern}

\* send_bundle: OpenCTI takes these patterns and graph candidates of i.
Accept(i, patterns, candidates) ==
    /\ received' = received \cup patterns
    /\ repeated' = repeated \cup (patterns \cap received)
    /\ graph' = graph \cup candidates
    /\ sent' = sent \cup {i}

\* An export that does not raise.  The candidates that the builder skips, and
\* the native objects that could not be created, are missing without a word.
Export ==
    /\ pc = "export"
    /\ \E natives \in SUBSET (Plan(Item) \ Bundled) :
            Accept(Item, Built(candidate), (Plan(Item) \cap Bundled) \cup natives)
    /\ Goto("mark")
    /\ UNCHANGED <<state, index, exported, review, faults>>

\* Mutant: nothing is remembered of the indicators delivered.
NoFingerprints(indicators) == {}

\* mark_indicators names every indicator of the candidate, built or not.
Fingerprints(indicators) ==
    IF ArtifactDedup THEN {Fingerprint[x] : x \in indicators} \ {NoFingerprint}
                     ELSE {}

\* mark_indicators loads the index file ...
Mark ==
    /\ pc = "mark"
    /\ IF Fingerprints(candidate) = {} THEN pc' = "checkpoint" ELSE pc' = "save"
    /\ seen' = index
    /\ UNCHANGED <<state, index, exported, opencti, job, pos, ingested,
                   candidate, review, faults>>

\* ... and replaces it by what it loaded, with the new fingerprints.
Save ==
    /\ pc = "save"
    /\ index' = seen \cup Fingerprints(candidate)
    /\ Goto("checkpoint")
    /\ UNCHANGED <<state, exported, opencti, review, faults>>

\* Mutant: the item is not written to the source's state file.
CheckpointForgotten ==
    /\ pc = "checkpoint"
    /\ Goto("audit")
    /\ UNCHANGED <<state, index, exported, opencti, review, faults>>

\* state.mark_pulse, state.mark_event
Checkpoint ==
    /\ pc = "checkpoint"
    /\ checkpoint' = checkpoint \cup {Item}
    /\ Goto("audit")
    /\ UNCHANGED <<graphIndex, decided, queued, index, exported, opencti,
                   review, faults>>

Audit ==
    /\ pc = "audit"
    /\ Decide("ingest")
    /\ Goto("graph")
    /\ UNCHANGED <<checkpoint, graphIndex, queued, index, exported, opencti,
                   review, faults>>

\* mark_exported_graph_plan marks the whole plan, with what the builder
\* skipped and the native objects that failed, and the outcome is counted.
MarkGraph ==
    /\ pc = "graph"
    /\ graphIndex' =
          IF GraphDedup
          THEN [entities |-> graphIndex.entities \cup {Entity[g] : g \in Plan(Item)},
                relationships |-> graphIndex.relationships \cup Plan(Item)]
          ELSE graphIndex
    /\ pc' = "next" /\ pos' = pos + 1 /\ candidate' = {} /\ seen' = {}
    /\ ingested' = ingested + 1
    /\ UNCHANGED <<checkpoint, decided, queued, index, exported, opencti, job,
                   review, faults>>

-----------------------------------------------------------------------------
(* Failures of the connector                                                *)

Fault ==
    /\ faults < MaxFaults
    /\ faults' = faults + 1

NextSourceJob ==
    CHOOSE j \in job + 1 .. Len(Source) + 1 :
        /\ j = Len(Source) + 1 \/ Source[j] # Source[job]
        /\ \A k \in job + 1 .. j - 1 : Source[k] = Source[job]

\* An exception nothing catches before execute_source: a search, a read of
\* the state file, an enrichment, the metadata of a decision or the checkpoint
\* fails, and the rest of the source is left for the next cycle.
AbortSource ==
    /\ Fault
    /\ \/ pc \in {"search", "enrich", "queue", "checkpoint", "audit"}
       \/ pc = "next" /\ MoreToReview
    /\ LeaveFor(NextSourceJob)
    /\ UNCHANGED <<state, index, exported, opencti, review>>

\* The source answers an enrichment with nothing, or the replay of a graph
\* cannot be planned.
EnrichMissing ==
    /\ Fault
    /\ pc = "enrich"
    /\ Decide("skip") \/ UNCHANGED decided
    /\ NextItem
    /\ UNCHANGED <<checkpoint, graphIndex, queued, index, exported, opencti,
                   review>>

\* Mutant: a failed export is taken for a complete one.
ExportFailureIgnored ==
    /\ Fault
    /\ pc = "export"
    /\ Goto("mark")
    /\ UNCHANGED <<state, index, exported, opencti, review>>

\* The exporter raises, before or after OpenCTI took a part of the bundle.
ExportFails ==
    /\ Fault
    /\ pc = "export"
    /\ \E patterns \in SUBSET Built(candidate), candidates \in SUBSET Plan(Item) :
            Accept(Item, patterns, candidates)
    /\ Decide("error") \/ UNCHANGED decided
    /\ NextItem
    /\ UNCHANGED <<checkpoint, graphIndex, queued, index, exported, review>>

\* A decision audit that cannot be written is only logged: the decision
\* stands, and a quarantined candidate is queued without its audit line.
AuditFails ==
    /\ Fault
    /\ \/ pc = "next" /\ MoreToReview /\ Item \in checkpoint /\ NextItem
       \/ pc = "enrich" /\ Decision = "quarantine" /\ Goto("queue")
       \/ pc = "enrich" /\ Decision = "drop" /\ NextItem
       \/ /\ pc = "enrich" /\ Decision = "ingest"
          /\ ~Ingestable \/ Source[job] \in DryRun
          /\ NextItem
       \/ pc = "audit" /\ Goto("graph")
    /\ UNCHANGED <<state, index, exported, opencti, review>>

\* So is a write of the repository, of the artifact and of the graph index.
WriteFails ==
    /\ Fault
    /\ \/ pc = "queue" /\ NextItem
       \/ pc \in {"mark", "save"} /\ Goto("checkpoint")
       \/ /\ pc = "graph"
          /\ pc' = "next" /\ pos' = pos + 1 /\ candidate' = {} /\ seen' = {}
          /\ ingested' = ingested + 1 /\ UNCHANGED job
    /\ UNCHANGED <<state, index, exported, opencti, review>>

\* The process is killed and started again.
Crash ==
    /\ Fault
    /\ pc # "sleeping"
    /\ LeaveFor(Len(Source) + 1)
    /\ UNCHANGED <<state, index, exported, opencti, review>>

-----------------------------------------------------------------------------
(* The export of a released record: QuarantineExporter.export_record with   *)
(* the artifact index, run by the review API or the CLI                     *)

ReviewGoto(step) == review' = [step |-> step, record |-> review.record,
                               cand |-> review.cand, seen |-> review.seen]

\* A released record that is not marked exported, without what is known.
ReviewFilter(j, i) ==
    /\ review.step = "idle"
    /\ <<j, i>> \in queued \ exported
    /\ Releases[j][i] # {}
    /\ LET new == New(Releases[j][i]) IN
          review' = [step |-> IF new = {} THEN "done" ELSE "send",
                     record |-> <<j, i>>, cand |-> new, seen |-> {}]
    /\ UNCHANGED <<state, index, exported, opencti, control, faults>>

ReviewSend ==
    /\ review.step = "send"
    /\ Accept(review.record[2], Built(review.cand), {})
    /\ ReviewGoto("mark")
    /\ UNCHANGED <<state, index, exported, control, faults>>

ReviewMark ==
    /\ review.step = "mark"
    /\ review' = [step |-> IF Fingerprints(review.cand) = {} THEN "done" ELSE "save",
                  record |-> review.record, cand |-> review.cand,
                  seen |-> index]
    /\ UNCHANGED <<state, index, exported, opencti, control, faults>>

ReviewSave ==
    /\ review.step = "save"
    /\ index' = review.seen \cup Fingerprints(review.cand)
    /\ ReviewGoto("done")
    /\ UNCHANGED <<state, exported, opencti, control, faults>>

\* mark_exported
ReviewDone ==
    /\ review.step = "done"
    /\ exported' = exported \cup {review.record}
    /\ review' = Idle
    /\ UNCHANGED <<state, index, opencti, control, faults>>

\* The exporter raises, or the process is killed.
ReviewFails ==
    /\ Fault
    /\ review.step # "idle"
    /\ review' = Idle
    /\ \/ UNCHANGED opencti
       \/ /\ review.step = "send"
          /\ \E patterns \in SUBSET Built(review.cand) :
                Accept(review.record[2], patterns, {})
    /\ UNCHANGED <<state, index, exported, control>>

\* The artifact index cannot be written: logged, and the record is marked.
ReviewMarkFails ==
    /\ Fault
    /\ review.step \in {"mark", "save"}
    /\ ReviewGoto("done")
    /\ UNCHANGED <<state, index, exported, opencti, control>>

-----------------------------------------------------------------------------
Work ==
    \/ StartCycle \/ Search \/ EndQuery
    \/ SkipProcessed \/ Enrich \/ Drop \/ Quarantine \/ Queue
    \/ SkipEmpty \/ PreviewOnly \/ Ingest
    \/ Export \/ Mark \/ Save \/ Checkpoint \/ Audit \/ MarkGraph

Failure ==
    AbortSource \/ EnrichMissing \/ ExportFails \/ AuditFails \/ WriteFails \/ Crash

Review ==
    \/ \E j \in Jobs, i \in Items : ReviewFilter(j, i)
    \/ ReviewSend \/ ReviewMark \/ ReviewSave \/ ReviewDone
    \/ ReviewFails \/ ReviewMarkFails

Next == Work \/ Failure \/ Review

Spec == Init /\ [][Next]_vars

(***************************************************************************)
(* The gateway's loop never stops by itself (run_gateway_loop), and a      *)
(* container restarts it after a crash.  Nobody has to release anything.   *)
(***************************************************************************)
FairSpec == Spec /\ WF_vars(Work)

-----------------------------------------------------------------------------
(* Properties                                                               *)

\* A fingerprint f was handed over: an item that was sent carries an indicator
\* that f stands for, which OpenCTI has or for which there is no pattern.
HandedOver(f) ==
    /\ f \in ArtifactKeys
    /\ \E i \in sent : \E x \in Carries[i] :
          Fingerprint[x] = f /\ Pattern[x] \in received \cup {NoPattern}

\* x is in OpenCTI, cannot be, or was taken for one that was handed over.
Settled(x) == Pattern[x] \in received \cup {NoPattern} \/ HandedOver(Fingerprint[x])

IndicatorsSettled(i) == \A x \in Wanted(i) : Settled(x)

\* A candidate of item i is in OpenCTI, was not for the builder to deliver, or
\* lost its relationship to another item's: that one made its entity known.
GraphSettled(i) ==
    \A g \in Graph[i] :
        \/ g \in graph \/ g \notin Bundled
        \/ \E h \in graphIndex.relationships \ Graph[i] : Entity[h] = Entity[g]

\* A checkpoint is never ahead of the delivery: of an item in a state file
\* OpenCTI has every allowed indicator it can have, unless one of the same
\* fingerprint was handed over instead, and every graph candidate that the
\* builder makes, unless the graph index already knew its entity from another
\* item.  So no stale read, failed write, partial export or crash loses more.
CheckpointedIsDelivered ==
    \A i \in checkpoint : IndicatorsSettled(i) /\ GraphSettled(i)

\* Both indexes are behind the hand-over: every fingerprint, written by the
\* connector or by a release, was handed over, every relationship of the graph
\* index that the builder makes is in OpenCTI, and an entity is only known
\* with a relationship to it.
IndexesAreHandedOver ==
    /\ \A f \in index : HandedOver(f)
    /\ graphIndex.relationships \cap Bundled \subseteq graph
    /\ graphIndex.entities = {Entity[g] : g \in graphIndex.relationships}

\* TLP cannot be bypassed: nothing of a denied item reaches OpenCTI, not even
\* through the quarantine, whatever the score of the item.
DeniedStaysOut ==
    /\ sent \cap Denied = {}
    /\ \A r \in queued : r[2] \notin Denied

\* The decision audit is never ahead of the facts: an item it calls ingested
\* is in the state file, so that it is not ingested again, and its bundle was
\* handed to OpenCTI, whatever failed or crashed between the three writes.
AuditTellsTruth ==
    \A i \in Items : <<i, "ingest">> \in decided => i \in checkpoint \cap sent

NoReleases == \A j \in Jobs, i \in Items : Releases[j][i] = {}

\* The indicators of pattern p that the artifact index, ix, does not know.
Unknown(p, ix) == {x \in Indicators : Pattern[x] = p /\ Fingerprint[x] \notin ix}

\* The index cannot tell p by one name: a host name and a domain have one
\* pattern and two fingerprints, and a blank value has none.
Ambiguous(p) ==
    \E x, y \in Indicators :
        /\ Pattern[x] = p /\ Pattern[y] = p
        /\ Fingerprint[x] = NoFingerprint \/ Fingerprint[x] # Fingerprint[y]

\* When nothing fails and nothing is released, OpenCTI receives a pattern
\* once, however many items, queries and sources carry it and however often
\* the cycle meets them, unless it has no fingerprint or several.
DeliveredOnce ==
    ArtifactDedup /\ NoReleases /\ faults = 0 => \A p \in repeated : Ambiguous(p)

\* As long as the connector is the only writer of the artifact index, what the
\* index knows is never forgotten and never delivered again, whatever fails in
\* between: a pattern repeats only for an indicator that is not in the index.
IndexSuppresses ==
    [][ArtifactDedup /\ NoReleases =>
          /\ index \subseteq index'
          /\ \A p \in repeated' \ repeated : Unknown(p, index) # {}]_vars

WantedBy(j) ==
    {i \in Items \ Denied :
        /\ \E p \in DOMAIN Found[j] : p <= MaxReviewed[Source[j]] /\ Found[j][p] = i
        /\ Verdict[j][i] = "ingest" /\ ~DisallowedByType(i)
        /\ Source[j] \notin DryRun}

\* Whatever the failures and crashes, once they stop everything of an item that
\* a query finds and accepts is settled: a query that ends at its ingest limit
\* gets to the items behind it in later cycles, and with graph replay the graph
\* of an item whose indicators are all known arrives too.
WantedArrives ==
    \A j \in Jobs : \A i \in WantedBy(j) :
        <>(IndicatorsSettled(i) /\ (Source[j] \in GraphReplay => GraphSettled(i)))

\* The configuration reference: the allowed indicator types filter what is
\* exportable.
OnlyAllowedTypes == received \subseteq {Pattern[x] : x \in AllowedIndicators}
=============================================================================
