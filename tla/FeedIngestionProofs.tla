------------------------ MODULE FeedIngestionProofs ------------------------
(***************************************************************************)
(* Proofs about FeedIngestion, for all sources, queries, items, settings   *)
(* and any number of failures: its type invariant, that checkpoints,       *)
(* indexes and the decision audit never run ahead of what OpenCTI has,     *)
(* that TLP holds, and that the artifact index suppresses what it knows.   *)
(*                                                                         *)
(* None of them is inductive alone.  A checkpoint is right because the     *)
(* steps that lead to it are: FlowInv says what is already settled and     *)
(* written at each step of the connector, SharedInv that every copy of     *)
(* the index, the file's and the two that processes hold in memory, is     *)
(* behind the hand-over, and GraphInv that the graph index knows nothing   *)
(* of an item before its checkpoint.  SoloInv says what the connector      *)
(* knows of the index file while nobody else writes it.                    *)
(***************************************************************************)
EXTENDS FeedIngestion, TLAPS

AtItem == {"enrich", "queue", "export", "mark", "save", "checkpoint", "audit",
           "graph"}
AfterExport == {"mark", "save", "checkpoint", "audit", "graph"}

PositionInv == pc \in AtItem => pos \in 1 .. Len(Found[job])

\* What is done for item i, if it is the one under review.
DoneFor(i) ==
    /\ pc \in {"queue", "export"} \cup AfterExport => i \notin Denied
    /\ pc = "export" =>
           /\ candidate \subseteq Wanted(i)
           /\ \A x \in Wanted(i) : x \in candidate \/ Settled(x)
    /\ pc \in AfterExport =>
           /\ IndicatorsSettled(i) /\ GraphSettled(i)
           /\ Plan(i) \cap Bundled \subseteq graph
           /\ i \in sent
    /\ pc \in {"mark", "save"} => \A f \in Fingerprints(candidate) : HandedOver(f)
    /\ pc \in {"enrich", "export"} => i \notin checkpoint
    /\ pc \in {"audit", "graph"} => i \in checkpoint

FlowInv == \A i \in Items : i = Item => DoneFor(i)

GraphInv ==
    \A i \in Items : Graph[i] \cap graphIndex.relationships # {} => i \in checkpoint

SharedInv ==
    /\ IndexesAreHandedOver
    /\ \A f \in seen \cup review.seen : HandedOver(f)
    /\ review.step = "send" => review.cand \subseteq Carries[review.record[2]]
    /\ review.step \in {"mark", "save"} =>
           \A f \in Fingerprints(review.cand) : HandedOver(f)
    /\ review.step # "idle" => review.record[2] \notin Denied

TypeInv == TypeOK /\ PositionInv
DeliveryInv ==
    /\ CheckpointedIsDelivered /\ DeniedStaysOut /\ AuditTellsTruth
    /\ FlowInv /\ GraphInv /\ SharedInv

SoloInv ==
    ArtifactDedup /\ NoReleases =>
        /\ review.step = "idle"
        /\ pc = "export" => \A x \in candidate : Fingerprint[x] \notin index
        /\ pc = "save" => seen = index

-----------------------------------------------------------------------------
(* Types                                                                    *)

\* The item under review is one of the items.
LEMMA ItemIsAnItem ==
    ASSUME TypeInv, pc \in AtItem \/ MoreToReview
    PROVE  Item \in Items
<1>1. Len(Found[job]) \in Nat /\ Found[job] \in Seq(Items)
  BY JobsAssumption DEF TypeInv, TypeOK, Jobs
<1>2. pos \in 1 .. Len(Found[job])
  BY <1>1 DEF TypeInv, TypeOK, PositionInv, MoreToReview
<1>. QED
  BY <1>1, <1>2 DEF Item

\* What is computed of an item stays within the indicators and candidates.
LEMMA ContentTypes ==
    ASSUME NEW i \in Items
    PROVE  /\ Carries[i] \subseteq Indicators /\ Wanted(i) \subseteq Indicators
           /\ Graph[i] \subseteq GraphKeys /\ Plan(i) \subseteq GraphKeys
           /\ Wanted(i) \subseteq Carries[i]
           /\ \A g \in GraphKeys : Entity[g] \in Entities
BY ContentAssumption DEF Wanted, Plan

\* What is made of indicators are patterns, fingerprints and indicators.
LEMMA IndicatorTypes ==
    ASSUME NEW S \in SUBSET Indicators
    PROVE  /\ Built(S) \subseteq Patterns /\ Fingerprints(S) \subseteq ArtifactKeys
           /\ New(S) \subseteq S
<1>1. \A x \in S : /\ Pattern[x] \in Patterns \cup {NoPattern}
                    /\ Fingerprint[x] \in ArtifactKeys \cup {NoFingerprint}
  BY ContentAssumption
<1>. QED
  BY <1>1 DEF Built, Fingerprints, New

\* Initially every variable has its type.
LEMMA InitTypes == Init => TypeInv
<1>. SUFFICES ASSUME Init PROVE TypeInv
  OBVIOUS
<1>1. 1 \in Jobs
  BY JobsAssumption DEF Jobs
<1>2. review \in [step : {"idle", "send", "mark", "save", "done"},
                  record : Records \cup {<< >>},
                  cand : SUBSET Indicators, seen : SUBSET ArtifactKeys]
  BY DEF Init, Idle
<1>3. faults \in 0 .. MaxFaults
  BY SettingsAssumption DEF Init
<1>4. review.step = "idle"
  BY DEF Init, Idle
<1>. QED
  BY <1>1, <1>2, <1>3, <1>4 DEF Init, TypeInv, TypeOK, PositionInv, GatewaySteps, AtItem

\* Leaving a query leads to another job or to the pause.
LEMMA LeaveTypes ==
    ASSUME NEW j, LeaveFor(j)
    PROVE  /\ pc' \in {"search", "sleeping"} /\ job' \in Jobs /\ pos' = 1
           /\ ingested' = 0 /\ candidate' = {} /\ seen' = {}
<1>1. 1 \in Jobs
  BY JobsAssumption DEF Jobs
<1>. QED
  BY <1>1 DEF LeaveFor

\* Every step of the connector keeps the types.
LEMMA WorkTypes ==
    ASSUME TypeInv, Work
    PROVE  TypeInv'
<1>. USE DEF TypeInv, TypeOK, GatewaySteps, Actions, PositionInv, AtItem
<1>1. CASE StartCycle
  BY <1>1 DEF StartCycle, Goto, state, opencti
<1>2. CASE Search
  BY <1>2 DEF Search, Goto, state, opencti
<1>3. CASE EndQuery
  BY <1>3, LeaveTypes DEF EndQuery, state, opencti
<1>4. CASE SkipProcessed
  <2>1. Item \in Items
    BY <1>4, ItemIsAnItem DEF SkipProcessed
  <2>. QED
    BY <1>4, <2>1 DEF SkipProcessed, Decide, NextItem, opencti
<1>5. CASE Enrich
  <2>1. pos \in 1 .. Len(Found[job])
    <3>1. Len(Found[job]) \in Nat
      BY JobsAssumption DEF Jobs
    <3>. QED
      BY <3>1, <1>5 DEF Enrich, MoreToReview
  <2>. QED
    BY <1>5, <2>1 DEF Enrich, Goto, state, opencti
<1>6. CASE pc = "enrich" /\ (Drop \/ SkipEmpty \/ PreviewOnly)
  <2>1. Item \in Items
    BY <1>6, ItemIsAnItem
  <2>. QED
    BY <1>6, <2>1 DEF Drop, SkipEmpty, PreviewOnly, Decide, NextItem, opencti
<1>7. CASE Quarantine
  <2>1. Item \in Items
    BY <1>7, ItemIsAnItem DEF Quarantine
  <2>. QED
    BY <1>7, <2>1 DEF Quarantine, Decide, Goto, opencti
<1>8. CASE Queue
  <2>1. Item \in Items
    BY <1>8, ItemIsAnItem DEF Queue
  <2>. QED
    BY <1>8, <2>1 DEF Queue, NextItem, Records, opencti
<1>9. CASE Ingest
  <2>1. Item \in Items
    BY <1>9, ItemIsAnItem DEF Ingest
  <2>2. New(Wanted(Item)) \subseteq Indicators
    BY <2>1, ContentTypes, IndicatorTypes
  <2>. QED
    BY <1>9, <2>2 DEF Ingest, state, opencti
<1>10. CASE Export
  <2>1. Item \in Items /\ Plan(Item) \subseteq GraphKeys
    BY <1>10, ItemIsAnItem, ContentTypes DEF Export
  <2>2. Built(candidate) \subseteq Patterns
    BY IndicatorTypes
  <2>3. PICK G \in SUBSET GraphKeys : Accept(Item, Built(candidate), G)
    BY <1>10, <2>1 DEF Export
  <2>. QED
    BY <1>10, <2>1, <2>2, <2>3 DEF Export, Accept, Goto, state
<1>11. CASE Mark
  BY <1>11 DEF Mark, state, opencti
<1>12. CASE Save
  BY <1>12, IndicatorTypes DEF Save, Goto, state, opencti
<1>13. CASE Checkpoint
  <2>1. Item \in Items
    BY <1>13, ItemIsAnItem DEF Checkpoint
  <2>. QED
    BY <1>13, <2>1 DEF Checkpoint, Goto, opencti
<1>14. CASE Audit
  <2>1. Item \in Items
    BY <1>14, ItemIsAnItem DEF Audit
  <2>. QED
    BY <1>14, <2>1 DEF Audit, Decide, Goto, opencti
<1>15. CASE MarkGraph
  <2>1. Item \in Items /\ Plan(Item) \subseteq GraphKeys
    BY <1>15, ItemIsAnItem, ContentTypes DEF MarkGraph
  <2>2. {Entity[g] : g \in Plan(Item)} \subseteq Entities
    BY <2>1, ContentTypes
  <2>3. graphIndex' \in [entities : SUBSET Entities,
                         relationships : SUBSET GraphKeys]
    BY <1>15, <2>1, <2>2 DEF MarkGraph
  <2>. QED
    BY <1>15, <2>3 DEF MarkGraph, opencti
<1>. QED
  BY <1>1, <1>2, <1>3, <1>4, <1>5, <1>6, <1>7, <1>8, <1>9, <1>10, <1>11,
     <1>12, <1>13, <1>14, <1>15 DEF Work, Drop, SkipEmpty, PreviewOnly

\* Every failure keeps the types.
LEMMA FailureTypes ==
    ASSUME TypeInv, Failure
    PROVE  TypeInv'
<1>. USE DEF TypeInv, TypeOK, GatewaySteps, Actions, PositionInv, AtItem
<1>1. faults' \in 0 .. MaxFaults
  BY SettingsAssumption DEF Failure, Fault, AbortSource, EnrichMissing,
                            ExportFails, AuditFails, WriteFails, Crash
<1>2. CASE AbortSource \/ Crash
  BY <1>1, <1>2, LeaveTypes DEF AbortSource, Crash, state, opencti
<1>3. CASE EnrichMissing
  <2>1. Item \in Items
    BY <1>3, ItemIsAnItem DEF EnrichMissing
  <2>. QED
    BY <1>1, <1>3, <2>1 DEF EnrichMissing, Decide, NextItem, opencti
<1>4. CASE ExportFails
  <2>1. Item \in Items /\ Plan(Item) \subseteq GraphKeys
    BY <1>4, ItemIsAnItem, ContentTypes DEF ExportFails
  <2>2. PICK S \in SUBSET Patterns, G \in SUBSET GraphKeys : Accept(Item, S, G)
    BY <1>4, <2>1, IndicatorTypes DEF ExportFails
  <2>. QED
    BY <1>1, <1>4, <2>1, <2>2 DEF ExportFails, Accept, Decide, NextItem
<1>5. CASE WriteFails
  BY <1>1, <1>5 DEF WriteFails, NextItem, Goto, state, opencti
<1>6. CASE AuditFails
  BY <1>1, <1>6 DEF AuditFails, NextItem, Goto, state, opencti
<1>. QED
  BY <1>2, <1>3, <1>4, <1>5, <1>6 DEF Failure

\* Every step of a release's export keeps the types.
LEMMA ReviewTypes ==
    ASSUME TypeInv, Review
    PROVE  TypeInv'
<1>. USE DEF TypeInv, TypeOK, PositionInv
<1>1. CASE \E j \in Jobs, i \in Items : ReviewFilter(j, i)
  <2>1. PICK j \in Jobs, i \in Items : ReviewFilter(j, i)
    BY <1>1
  <2>2. New(Releases[j][i]) \subseteq Indicators /\ <<j, i>> \in Records
    BY ContentAssumption, IndicatorTypes DEF Records
  <2>. QED
    BY <2>1, <2>2 DEF ReviewFilter, state, opencti, control
<1>2. CASE review.step = "send" /\ ReviewSend
  <2>1. review.record[2] \in Items
    BY <1>2 DEF Records
  <2>. QED
    BY <1>2, <2>1, IndicatorTypes DEF ReviewSend, ReviewGoto, Accept, state, control
<1>3. CASE ReviewMark \/ ReviewSave
  BY <1>3, IndicatorTypes DEF ReviewMark, ReviewSave, ReviewGoto, state, opencti, control
<1>4. CASE ReviewDone
  BY <1>4 DEF ReviewDone, Idle, state, opencti, control
<1>5. CASE ReviewFails
  <2>1. review.record[2] \in Items
    BY <1>5 DEF ReviewFails, Records
  <2>2. received' \subseteq Patterns /\ repeated' \subseteq received'
        /\ graph' = graph /\ sent' \subseteq Items
    <3>1. Built(review.cand) \subseteq Patterns
      BY IndicatorTypes
    <3>. QED
      BY <1>5, <2>1, <3>1 DEF ReviewFails, Accept, opencti
  <2>. QED
    BY <1>5, <2>2, SettingsAssumption DEF ReviewFails, Fault, Idle, state, control
<1>6. CASE ReviewMarkFails
  BY <1>6, SettingsAssumption DEF ReviewMarkFails, ReviewGoto, Fault, state, opencti, control
<1>. QED
  BY <1>1, <1>2, <1>3, <1>4, <1>5, <1>6 DEF Review, ReviewSend

\* Every step keeps the types.
LEMMA NextTypes ==
    ASSUME TypeInv, [Next]_vars
    PROVE  TypeInv'
<1>1. CASE UNCHANGED vars
  BY <1>1 DEF TypeInv, TypeOK, PositionInv, vars, state, opencti, control
<1>. QED
  BY <1>1, WorkTypes, FailureTypes, ReviewTypes DEF Next

\* Type correctness: whatever the sources, the settings and the failures, the
\* state files, the indexes and the control of every process have their types.
THEOREM TypeCorrect == Spec => []TypeOK
<1>1. Init => TypeInv
  BY InitTypes
<1>2. TypeInv /\ [Next]_vars => TypeInv'
  BY NextTypes
<1>3. TypeInv => TypeOK
  BY DEF TypeInv
<1>. QED
  BY <1>1, <1>2, <1>3, PTL DEF Spec

\* The invariant with the position of the item under review.
LEMMA PositionCorrect == Spec => []TypeInv
<1>1. Init => TypeInv
  BY InitTypes
<1>2. TypeInv /\ [Next]_vars => TypeInv'
  BY NextTypes
<1>. QED
  BY <1>1, <1>2, PTL DEF Spec

-----------------------------------------------------------------------------
(* Deliveries                                                               *)

\* What is settled stays so, since nothing is taken back from OpenCTI and the
\* graph index only grows.
LEMMA SettledStays ==
    ASSUME received \subseteq received', sent \subseteq sent', graph \subseteq graph',
           graphIndex.relationships \subseteq graphIndex'.relationships
    PROVE  /\ \A f : HandedOver(f) => HandedOver(f)'
           /\ \A x : Settled(x) => Settled(x)'
           /\ \A i : IndicatorsSettled(i) => IndicatorsSettled(i)'
           /\ \A i : GraphSettled(i) => GraphSettled(i)'
<1>1. \A f : HandedOver(f) => HandedOver(f)'
  BY DEF HandedOver
<1>2. \A x : Settled(x) => Settled(x)'
  BY <1>1 DEF Settled
<1>. QED
  BY <1>1, <1>2 DEF IndicatorsSettled, Wanted, GraphSettled

\* OpenCTI forgets nothing.
LEMMA AcceptGrows ==
    ASSUME NEW i, NEW S, NEW G, Accept(i, S, G)
    PROVE  /\ received' = received \cup S
           /\ graph' = graph \cup G
           /\ sent' = sent \cup {i}
BY DEF Accept

\* Whatever OpenCTI takes of the patterns built from indicators of i, their
\* fingerprints are handed over as soon as it has all of them.
LEMMA BuiltIsHandedOver ==
    ASSUME TypeInv, NEW i, NEW S \in SUBSET Indicators, S \subseteq Carries[i],
           Built(S) \subseteq received', i \in sent'
    PROVE  /\ \A f \in Fingerprints(S) : HandedOver(f)'
           /\ \A x \in S : Settled(x)'
<1>1. \A x \in S : Pattern[x] \in received' \cup {NoPattern}
  BY DEF Built
<1>2. Fingerprints(S) \subseteq ArtifactKeys
  BY IndicatorTypes
<1>3. \A f \in Fingerprints(S) : \E x \in S : Fingerprint[x] = f
  BY DEF Fingerprints
<1>. QED
  BY <1>1, <1>2, <1>3 DEF HandedOver, Settled

\* A decision that is not an ingest leaves the ingests of the audit alone.
LEMMA OtherDecisions ==
    ASSUME NEW a, a # "ingest", Decide(a) \/ UNCHANGED decided
    PROVE  \A i : <<i, "ingest">> \in decided' => <<i, "ingest">> \in decided
BY DEF Decide

\* Initially nothing is claimed.
LEMMA InitDelivery == Init => DeliveryInv
BY DEF Init, DeliveryInv, CheckpointedIsDelivered, IndexesAreHandedOver,
       DeniedStaysOut, AuditTellsTruth, FlowInv, DoneFor, GraphInv, SharedInv,
       AfterExport, Idle

\* The artifact index, and the copies of it, may grow by what is handed over.
LEMMA SharedStays ==
    ASSUME SharedInv, UNCHANGED <<graphIndex, review>>,
           received \subseteq received', sent \subseteq sent', graph \subseteq graph',
           NEW K, \A f \in K : HandedOver(f)',
           index' \cup seen' \subseteq index \cup seen \cup K
    PROVE  SharedInv'
<1>1. \A f : HandedOver(f) => HandedOver(f)'
  BY SettledStays
<1>. QED
  BY <1>1 DEF SharedInv, IndexesAreHandedOver, Fingerprints

\* A step that writes no state file and no graph index keeps the invariant if
\* it keeps what concerns the item under review and the copies of the index.
LEMMA DeliveryStays ==
    ASSUME DeliveryInv, UNCHANGED <<checkpoint, graphIndex>>,
           received \subseteq received', sent \subseteq sent', graph \subseteq graph',
           sent' \cap Denied = {}, \A r \in queued' : r[2] \notin Denied,
           \A i : <<i, "ingest">> \in decided' => <<i, "ingest">> \in decided,
           FlowInv', SharedInv'
    PROVE  DeliveryInv'
<1>1. /\ \A i : IndicatorsSettled(i) => IndicatorsSettled(i)'
      /\ \A i : GraphSettled(i) => GraphSettled(i)'
  BY SettledStays
<1>. QED
  BY <1>1 DEF DeliveryInv, CheckpointedIsDelivered, DeniedStaysOut,
              AuditTellsTruth, GraphInv

\* A step that only leaves the item under review keeps it.
LEMMA LeavingDelivery ==
    ASSUME DeliveryInv, UNCHANGED <<checkpoint, index, graphIndex, review>>,
           received \subseteq received', sent \subseteq sent', graph \subseteq graph',
           sent' \cap Denied = {}, \A r \in queued' : r[2] \notin Denied,
           \A i : <<i, "ingest">> \in decided' => <<i, "ingest">> \in decided,
           seen' \in {seen, {}}, pc' \in {"next", "search", "sleeping"}
    PROVE  DeliveryInv'
<1>1. SharedInv'
  <2>. DEFINE K == {}
  <2>1. index' \cup seen' \subseteq index \cup seen \cup K
    OBVIOUS
  <2>2. \A f \in K : HandedOver(f)'
    OBVIOUS
  <2>. HIDE DEF K
  <2>. QED
    BY <2>1, <2>2, SharedStays DEF DeliveryInv
<1>2. FlowInv'
  BY DEF FlowInv, DoneFor, AfterExport
<1>. QED
  BY <1>1, <1>2, DeliveryStays

\* What is done for the item under review.
LEMMA CurrentItem ==
    ASSUME TypeInv, DeliveryInv, pc \in AtItem
    PROVE  Item \in Items /\ DoneFor(Item)
<1>1. Item \in Items
  BY ItemIsAnItem
<1>. QED
  BY <1>1 DEF DeliveryInv, FlowInv

\* At the next step of the same item, what is to be done is what was done.
LEMMA SameItem ==
    ASSUME UNCHANGED <<job, pos>>, DoneFor(Item)'
    PROVE  FlowInv'
<1>1. Item' = Item
  BY DEF Item
<1>. QED
  BY <1>1 DEF FlowInv, DoneFor, IndicatorsSettled, GraphSettled, Plan

\* The steps that do not export or write what is exported.
LEMMA DecisionDelivery ==
    ASSUME TypeInv, DeliveryInv,
           \/ StartCycle \/ Search \/ EndQuery \/ SkipProcessed \/ Enrich
           \/ Drop \/ Quarantine \/ Queue \/ SkipEmpty \/ PreviewOnly \/ Ingest
    PROVE  DeliveryInv'
<1>0. sent \cap Denied = {} /\ \A r \in queued : r[2] \notin Denied
  BY DEF DeliveryInv, DeniedStaysOut
<1>1. CASE Search \/ EndQuery
  BY <1>0, <1>1, LeavingDelivery, LeaveTypes DEF Search, EndQuery, Goto, state, opencti
<1>2. CASE SkipProcessed \/ Drop \/ SkipEmpty \/ PreviewOnly
  <2>1. \A i : <<i, "ingest">> \in decided' => <<i, "ingest">> \in decided
    BY <1>2, OtherDecisions DEF SkipProcessed, Drop, SkipEmpty, PreviewOnly
  <2>. QED
    BY <1>0, <1>2, <2>1, LeavingDelivery
       DEF SkipProcessed, Drop, SkipEmpty, PreviewOnly, NextItem, opencti
<1>3. CASE Queue
  <2>1. Item \notin Denied
    BY <1>3, CurrentItem DEF Queue, AtItem, DoneFor
  <2>. QED
    BY <1>0, <1>3, <2>1, LeavingDelivery DEF Queue, NextItem, opencti
<1>4. CASE StartCycle \/ Enrich \/ Quarantine \/ Ingest
  <2>1. /\ UNCHANGED <<checkpoint, graphIndex, queued, index, seen, review, job, pos>>
        /\ UNCHANGED <<received, sent, graph>>
    BY <1>4 DEF StartCycle, Enrich, Quarantine, Ingest, Goto, state, opencti
  <2>2. \A i : <<i, "ingest">> \in decided' => <<i, "ingest">> \in decided
    BY <1>4, OtherDecisions DEF StartCycle, Enrich, Quarantine, Ingest, state
  <2>3. SharedInv'
    <3>. DEFINE K == {}
    <3>1. index' \cup seen' \subseteq index \cup seen \cup K
      BY <2>1
    <3>2. \A f \in K : HandedOver(f)'
      OBVIOUS
    <3>. HIDE DEF K
    <3>. QED
      BY <2>1, <3>1, <3>2, SharedStays DEF DeliveryInv
  <2>4. DoneFor(Item)'
    <3>1. Item' = Item
      BY <2>1 DEF Item
    <3>2. CASE StartCycle
      BY <3>2 DEF StartCycle, Goto, DoneFor, AfterExport
    <3>3. CASE Enrich
      BY <3>1, <3>3, <2>1 DEF Enrich, Goto, DoneFor, AfterExport
    <3>4. CASE Quarantine
      BY <3>1, <3>4 DEF Quarantine, Goto, DoneFor, AfterExport, Decision
    <3>5. CASE Ingest
      <4>1. Item \notin Denied /\ Item \notin checkpoint
        BY <3>5, CurrentItem DEF Ingest, Ingestable, Decision, AtItem, DoneFor
      <4>2. \A f \in index : HandedOver(f)
        BY DEF DeliveryInv, SharedInv, IndexesAreHandedOver
      <4>3. \A x \in Wanted(Item) : x \in New(Wanted(Item)) \/ Settled(x)
        BY <4>2 DEF New, Settled
      <4>4. New(Wanted(Item)) \subseteq Wanted(Item)
        BY DEF New
      <4>5. \A x : Settled(x) => Settled(x)'
        BY <2>1, SettledStays
      <4>. QED
        BY <3>1, <3>5, <2>1, <4>1, <4>3, <4>4, <4>5 DEF Ingest, DoneFor, AfterExport, Wanted
    <3>. QED
      BY <1>4, <3>2, <3>3, <3>4, <3>5
  <2>. QED
    BY <1>0, <2>1, <2>2, <2>3, <2>4, SameItem, DeliveryStays
<1>. QED
  BY <1>1, <1>2, <1>3, <1>4

\* An export that does not raise settles all of its item.
LEMMA ExportDelivery ==
    ASSUME TypeInv, DeliveryInv, Export
    PROVE  DeliveryInv'
<1>1. /\ UNCHANGED <<checkpoint, graphIndex, queued, decided, index, seen, review>>
      /\ UNCHANGED <<job, pos, candidate>>
      /\ pc = "export" /\ pc' = "mark"
  BY DEF Export, Goto, state
<1>2. Item' = Item
  BY <1>1 DEF Item
<1>3. Item \in Items /\ DoneFor(Item)
  BY <1>1, CurrentItem DEF AtItem
<1>4. PICK G \in SUBSET Plan(Item) :
         Plan(Item) \cap Bundled \subseteq G /\ Accept(Item, Built(candidate), G)
  <2>1. PICK N \in SUBSET (Plan(Item) \ Bundled) :
           Accept(Item, Built(candidate), (Plan(Item) \cap Bundled) \cup N)
    BY DEF Export
  <2>. QED
    BY <2>1
<1>5. /\ received' = received \cup Built(candidate)
      /\ graph' = graph \cup G
      /\ sent' = sent \cup {Item}
  BY <1>4, AcceptGrows
<1>6. /\ candidate \subseteq Carries[Item] /\ candidate \subseteq Indicators
      /\ Item \notin Denied /\ Item \notin checkpoint
  BY <1>1, <1>3 DEF DoneFor, Wanted, TypeInv, TypeOK
<1>7. /\ \A f \in Fingerprints(candidate) : HandedOver(f)'
      /\ \A x \in candidate : Settled(x)'
  BY <1>5, <1>6, BuiltIsHandedOver
<1>8. \A x : Settled(x) => Settled(x)'
  BY <1>1, <1>5, SettledStays
<1>9. IndicatorsSettled(Item)'
  BY <1>1, <1>2, <1>3, <1>7, <1>8 DEF DoneFor, IndicatorsSettled, Wanted
<1>10. GraphSettled(Item)'
  <2>. SUFFICES ASSUME NEW g \in Graph[Item], g \in Bundled, g \notin graph'
                PROVE  \E h \in graphIndex.relationships \ Graph[Item] :
                           Entity[h] = Entity[g]
    BY <1>1, <1>2 DEF GraphSettled
  <2>1. Graph[Item] \cap graphIndex.relationships = {}
    BY <1>3, <1>6 DEF DeliveryInv, GraphInv
  <2>2. g \notin Plan(Item)
    BY <1>4, <1>5
  <2>3. Entity[g] \in graphIndex.entities
    BY <2>1, <2>2 DEF Plan
  <2>4. PICK h \in graphIndex.relationships : Entity[h] = Entity[g]
    BY <2>3 DEF DeliveryInv, SharedInv, IndexesAreHandedOver
  <2>. QED
    BY <2>1, <2>4
<1>11. DoneFor(Item)'
  <2>1. Plan(Item)' = Plan(Item)
    BY <1>1, <1>2 DEF Plan
  <2>2. Fingerprints(candidate)' = Fingerprints(candidate)
    BY <1>1 DEF Fingerprints
  <2>. QED
    BY <1>1, <1>2, <1>4, <1>5, <1>6, <1>7, <1>9, <1>10, <2>1, <2>2
       DEF DoneFor, AfterExport
<1>12. SharedInv'
  <2>. DEFINE K == {}
  <2>1. index' \cup seen' \subseteq index \cup seen \cup K
    BY <1>1
  <2>2. \A f \in K : HandedOver(f)'
    OBVIOUS
  <2>. HIDE DEF K
  <2>. QED
    BY <1>1, <1>5, <2>1, <2>2, SharedStays DEF DeliveryInv
<1>13. sent' \cap Denied = {} /\ \A r \in queued' : r[2] \notin Denied
  BY <1>1, <1>5, <1>6 DEF DeliveryInv, DeniedStaysOut
<1>. QED
  BY <1>1, <1>5, <1>11, <1>12, <1>13, SameItem, DeliveryStays

\* A step after the export that goes on with the item and leaves OpenCTI, the
\* state files and the release alone, and the index to what is handed over.
LEMMA AfterwardsDelivery ==
    ASSUME TypeInv, DeliveryInv,
           UNCHANGED <<checkpoint, graphIndex, queued, received, sent, graph, review>>,
           UNCHANGED <<job, pos, candidate>>,
           index' \cup seen' \subseteq index \cup seen \cup Fingerprints(candidate),
           \A i : <<i, "ingest">> \in decided' => <<i, "ingest">> \in decided,
           \/ pc = "mark" /\ pc' \in {"save", "checkpoint"}
           \/ pc = "save" /\ pc' = "checkpoint"
           \/ pc = "audit" /\ pc' = "graph" /\ UNCHANGED <<index, seen>>
    PROVE  DeliveryInv'
<1>1. Item' = Item
  BY DEF Item
<1>2. Item \in Items /\ DoneFor(Item)
  BY CurrentItem DEF AtItem
<1>3. /\ \A f : HandedOver(f) => HandedOver(f)'
      /\ \A i : IndicatorsSettled(i) => IndicatorsSettled(i)'
      /\ \A i : GraphSettled(i) => GraphSettled(i)'
  BY SettledStays
<1>4. DoneFor(Item)'
  <2>1. IndicatorsSettled(Item)' /\ GraphSettled(Item)'
    <3>1. IndicatorsSettled(Item) /\ GraphSettled(Item)
      BY <1>2 DEF DoneFor, AfterExport
    <3>. QED
      BY <1>1, <1>3, <3>1 DEF IndicatorsSettled, Settled, HandedOver, GraphSettled, Wanted
  <2>2. Plan(Item)' = Plan(Item) /\ Fingerprints(candidate)' = Fingerprints(candidate)
    BY <1>1 DEF Plan, Fingerprints
  <2>. QED
    BY <1>1, <1>2, <1>3, <2>1, <2>2 DEF DoneFor, AfterExport
<1>5. SharedInv'
  <2>1. CASE pc \in {"mark", "save"}
    <3>. DEFINE K == Fingerprints(candidate)
    <3>1. \A f \in K : HandedOver(f)'
      BY <1>2, <1>3, <2>1 DEF DoneFor
    <3>2. index' \cup seen' \subseteq index \cup seen \cup K
      OBVIOUS
    <3>. HIDE DEF K
    <3>. QED
      BY <3>1, <3>2, SharedStays DEF DeliveryInv
  <2>2. CASE UNCHANGED <<index, seen>>
    <3>. DEFINE K == {}
    <3>1. index' \cup seen' \subseteq index \cup seen \cup K
      BY <2>2
    <3>2. \A f \in K : HandedOver(f)'
      OBVIOUS
    <3>. HIDE DEF K
    <3>. QED
      BY <3>1, <3>2, SharedStays DEF DeliveryInv
  <2>. QED
    BY <2>1, <2>2
<1>6. sent' \cap Denied = {} /\ \A r \in queued' : r[2] \notin Denied
  BY DEF DeliveryInv, DeniedStaysOut
<1>. QED
  BY <1>4, <1>5, <1>6, SameItem, DeliveryStays

\* The state file and the decision audit are written for what is settled.
LEMMA RecordDelivery ==
    ASSUME TypeInv, DeliveryInv, Checkpoint \/ Audit
    PROVE  DeliveryInv'
<1>1. /\ UNCHANGED <<graphIndex, queued, index, seen, review, job, pos, candidate>>
      /\ UNCHANGED <<received, sent, graph>>
      /\ \/ pc = "checkpoint" /\ pc' = "audit"
         \/ pc = "audit" /\ pc' = "graph"
  BY DEF Checkpoint, Audit, Goto, opencti
<1>2. Item' = Item
  BY <1>1 DEF Item
<1>3. Item \in Items /\ DoneFor(Item)
  BY <1>1, CurrentItem DEF AtItem
<1>4. /\ \A f : HandedOver(f) => HandedOver(f)'
      /\ \A i : IndicatorsSettled(i) => IndicatorsSettled(i)'
      /\ \A i : GraphSettled(i) => GraphSettled(i)'
  BY <1>1, SettledStays
<1>5. IndicatorsSettled(Item) /\ GraphSettled(Item) /\ Item \in sent
  BY <1>1, <1>3 DEF DoneFor, AfterExport
<1>6. /\ checkpoint \subseteq checkpoint' /\ checkpoint' \subseteq checkpoint \cup {Item}
      /\ Item \in checkpoint'
  BY <1>1, <1>3 DEF Checkpoint, Audit, DoneFor
<1>7. CheckpointedIsDelivered'
  BY <1>4, <1>5, <1>6 DEF DeliveryInv, CheckpointedIsDelivered
<1>8. AuditTellsTruth'
  <2>1. \A i : <<i, "ingest">> \in decided' =>
                 <<i, "ingest">> \in decided \/ i = Item
    BY DEF Checkpoint, Audit, Decide
  <2>. QED
    BY <1>1, <1>5, <1>6, <2>1 DEF DeliveryInv, AuditTellsTruth
<1>9. FlowInv'
  <2>1. IndicatorsSettled(Item)' /\ GraphSettled(Item)'
    BY <1>1, <1>2, <1>5 DEF IndicatorsSettled, Settled, HandedOver, GraphSettled, Wanted
  <2>2. Plan(Item)' = Plan(Item)
    BY <1>1, <1>2 DEF Plan
  <2>3. DoneFor(Item)'
    BY <1>1, <1>2, <1>3, <1>5, <1>6, <2>1, <2>2 DEF DoneFor, AfterExport
  <2>. QED
    BY <1>1, <2>3, SameItem
<1>10. SharedInv'
  <2>. DEFINE K == {}
  <2>1. index' \cup seen' \subseteq index \cup seen \cup K
    BY <1>1
  <2>2. \A f \in K : HandedOver(f)'
    OBVIOUS
  <2>. HIDE DEF K
  <2>. QED
    BY <1>1, <2>1, <2>2, SharedStays DEF DeliveryInv
<1>11. DeniedStaysOut' /\ GraphInv'
  BY <1>1, <1>6 DEF DeliveryInv, DeniedStaysOut, GraphInv
<1>. QED
  BY <1>7, <1>8, <1>9, <1>10, <1>11 DEF DeliveryInv

\* The graph index learns the plan of an item that is checkpointed, and of it
\* nothing that another item lacks.
LEMMA MarkGraphDelivery ==
    ASSUME TypeInv, DeliveryInv, MarkGraph
    PROVE  DeliveryInv'
<1>1. /\ UNCHANGED <<checkpoint, queued, decided, index, review, received, sent, graph>>
      /\ pc = "graph" /\ pc' = "next" /\ seen' = {}
  BY DEF MarkGraph, opencti
<1>2. Item \in Items /\ DoneFor(Item)
  BY <1>1, CurrentItem DEF AtItem
<1>3. Plan(Item) \subseteq Graph[Item] /\ Plan(Item) \cap Bundled \subseteq graph
  BY <1>1, <1>2 DEF DoneFor, AfterExport, Plan
<1>4. Item \in checkpoint
  BY <1>1, <1>2 DEF DoneFor
<1>5. \/ graphIndex' = graphIndex
      \/ /\ graphIndex'.relationships = graphIndex.relationships \cup Plan(Item)
         /\ graphIndex'.entities = graphIndex.entities \cup {Entity[g] : g \in Plan(Item)}
  BY DEF MarkGraph
<1>6. graphIndex.relationships \subseteq graphIndex'.relationships
  BY <1>5
<1>7. /\ \A f : HandedOver(f) => HandedOver(f)'
      /\ \A i : IndicatorsSettled(i) => IndicatorsSettled(i)'
      /\ \A i : GraphSettled(i) => GraphSettled(i)'
  BY <1>1, <1>6, SettledStays
<1>8. CheckpointedIsDelivered' /\ DeniedStaysOut' /\ AuditTellsTruth'
  BY <1>1, <1>7 DEF DeliveryInv, CheckpointedIsDelivered, DeniedStaysOut, AuditTellsTruth
<1>9. GraphInv'
  <2>1. \A i \in Items : i # Item => Graph[i] \cap Plan(Item) = {}
    BY <1>2, <1>3, GraphAssumption
  <2>. QED
    BY <1>1, <1>4, <1>5, <2>1 DEF DeliveryInv, GraphInv
<1>10. SharedInv'
  <2>1. IndexesAreHandedOver'
    <3>1. graphIndex.entities = {Entity[g] : g \in graphIndex.relationships}
          /\ graphIndex.relationships \cap Bundled \subseteq graph
      BY DEF DeliveryInv, SharedInv, IndexesAreHandedOver
    <3>2. /\ graphIndex'.entities = {Entity[g] : g \in graphIndex'.relationships}
          /\ graphIndex'.relationships \cap Bundled \subseteq graph
      BY <1>3, <1>5, <3>1
    <3>. QED
      BY <1>1, <1>7, <3>2 DEF DeliveryInv, SharedInv, IndexesAreHandedOver
  <2>. QED
    BY <1>1, <1>7, <2>1 DEF DeliveryInv, SharedInv, Fingerprints
<1>11. FlowInv'
  BY <1>1 DEF FlowInv, DoneFor, AfterExport
<1>. QED
  BY <1>8, <1>9, <1>10, <1>11 DEF DeliveryInv

\* Every step of the connector keeps the delivery invariant.
LEMMA WorkDelivery ==
    ASSUME TypeInv, DeliveryInv, Work
    PROVE  DeliveryInv'
<1>1. CASE Mark \/ Save
  BY <1>1, AfterwardsDelivery DEF Mark, Save, Goto, state, opencti
<1>. QED
  BY <1>1, DecisionDelivery, ExportDelivery, RecordDelivery, MarkGraphDelivery DEF Work

\* Every failure of the connector keeps it: none of them goes on to a later
\* step of the same item without what that step relies on.
LEMMA FailureDelivery ==
    ASSUME TypeInv, DeliveryInv, Failure
    PROVE  DeliveryInv'
<1>0. sent \cap Denied = {} /\ \A r \in queued : r[2] \notin Denied
  BY DEF DeliveryInv, DeniedStaysOut
<1>1. CASE AbortSource \/ Crash
  BY <1>0, <1>1, LeavingDelivery, LeaveTypes DEF AbortSource, Crash, state, opencti
<1>2. CASE EnrichMissing
  <2>1. \A i : <<i, "ingest">> \in decided' => <<i, "ingest">> \in decided
    BY <1>2, OtherDecisions DEF EnrichMissing
  <2>. QED
    BY <1>0, <1>2, <2>1, LeavingDelivery DEF EnrichMissing, NextItem, opencti
<1>3. CASE ExportFails
  <2>1. PICK S \in SUBSET Built(candidate), G \in SUBSET Plan(Item) : Accept(Item, S, G)
    BY <1>3 DEF ExportFails
  <2>2. \A i : <<i, "ingest">> \in decided' => <<i, "ingest">> \in decided
    BY <1>3, OtherDecisions DEF ExportFails
  <2>3. Item \notin Denied
    BY <1>3, CurrentItem DEF ExportFails, AtItem, DoneFor
  <2>. QED
    BY <1>0, <1>3, <2>1, <2>2, <2>3, AcceptGrows, LeavingDelivery DEF ExportFails, NextItem
<1>4. CASE WriteFails
  <2>1. CASE pc \in {"mark", "save"} /\ Goto("checkpoint")
    BY <1>4, <2>1, AfterwardsDelivery DEF WriteFails, Goto, state, opencti
  <2>. QED
    BY <1>0, <1>4, <2>1, LeavingDelivery DEF WriteFails, NextItem, state, opencti
<1>5. CASE AuditFails
  <2>1. CASE pc = "audit" /\ Goto("graph")
    BY <1>5, <2>1, AfterwardsDelivery DEF AuditFails, Goto, state, opencti
  <2>2. CASE pc = "enrich" /\ Decision = "quarantine" /\ Goto("queue")
    <3>1. Item' = Item /\ Item \notin Denied
      BY <2>2 DEF Goto, Item, Decision
    <3>2. FlowInv'
      BY <2>2, <3>1 DEF Goto, FlowInv, DoneFor, AfterExport
    <3>3. SharedInv'
      <4>. DEFINE K == {}
      <4>1. index' \cup seen' \subseteq index \cup seen \cup K
        BY <1>5, <2>2 DEF AuditFails, Goto
      <4>2. \A f \in K : HandedOver(f)'
        OBVIOUS
      <4>. HIDE DEF K
      <4>. QED
        BY <1>5, <4>1, <4>2, SharedStays DEF DeliveryInv, AuditFails, state, opencti
    <3>. QED
      BY <1>0, <1>5, <3>2, <3>3, DeliveryStays DEF AuditFails, state, opencti
  <2>. QED
    BY <1>0, <1>5, <2>1, <2>2, LeavingDelivery DEF AuditFails, NextItem, state, opencti
<1>. QED
  BY <1>1, <1>2, <1>3, <1>4, <1>5 DEF Failure

\* The export of a release keeps it, although it writes the index too.
LEMMA ReviewDelivery ==
    ASSUME TypeInv, DeliveryInv, Review
    PROVE  DeliveryInv'
<1>1. /\ UNCHANGED <<checkpoint, graphIndex, queued, decided, graph>>
      /\ UNCHANGED <<job, pos, pc, candidate, seen>>
      /\ received \subseteq received' /\ sent \subseteq sent'
  BY DEF Review, ReviewFilter, ReviewSend, ReviewMark, ReviewSave, ReviewDone,
         ReviewFails, ReviewMarkFails, Accept, state, opencti, control
<1>2. /\ \A f : HandedOver(f) => HandedOver(f)'
      /\ \A x : Settled(x) => Settled(x)'
      /\ \A i : IndicatorsSettled(i) => IndicatorsSettled(i)'
      /\ \A i : GraphSettled(i) => GraphSettled(i)'
  BY <1>1, SettledStays
<1>3. FlowInv'
  BY <1>1, <1>2 DEF DeliveryInv, FlowInv, DoneFor, Item, Plan, Fingerprints
<1>4. /\ \A f \in index \cup seen \cup review.seen : HandedOver(f)'
      /\ IndexesAreHandedOver /\ SharedInv
  BY <1>2 DEF DeliveryInv, SharedInv, IndexesAreHandedOver
<1>5. sent' \cap Denied = {} /\ SharedInv'
  <2>0. sent \cap Denied = {} /\ \A r \in queued : r[2] \notin Denied
    BY DEF DeliveryInv, DeniedStaysOut
  <2>1. CASE \E j \in Jobs, i \in Items : ReviewFilter(j, i)
    <3>1. PICK j \in Jobs, i \in Items : ReviewFilter(j, i)
      BY <2>1
    <3>2. New(Releases[j][i]) \subseteq Carries[i]
      BY ContentAssumption DEF New
    <3>3. index' = index /\ sent' = sent /\ received' = received
          /\ review' = [step |-> IF New(Releases[j][i]) = {} THEN "done" ELSE "send",
                         record |-> <<j, i>>, cand |-> New(Releases[j][i]), seen |-> {}]
          /\ i \notin Denied
      BY <2>0, <3>1 DEF ReviewFilter, state, opencti
    <3>. QED
      BY <1>1, <1>4, <2>0, <3>2, <3>3 DEF SharedInv, IndexesAreHandedOver
  <2>2. CASE ReviewSend
    <3>1. /\ review.record[2] \in sent' /\ sent' = sent \cup {review.record[2]}
          /\ Built(review.cand) \subseteq received'
          /\ review.step = "send" /\ index' = index
          /\ review'.step = "mark" /\ review'.record = review.record
          /\ review'.cand = review.cand /\ review'.seen = review.seen
      BY <2>2 DEF ReviewSend, ReviewGoto, Accept
    <3>2. /\ review.cand \subseteq Carries[review.record[2]]
          /\ review.record[2] \notin Denied /\ review.cand \subseteq Indicators
      BY <1>4, <3>1 DEF SharedInv, TypeInv, TypeOK
    <3>3. \A f \in Fingerprints(review.cand) : HandedOver(f)'
      BY <3>1, <3>2, BuiltIsHandedOver
    <3>. QED
      BY <1>1, <1>4, <2>0, <3>1, <3>2, <3>3
         DEF SharedInv, IndexesAreHandedOver, Fingerprints
  <2>3. CASE ReviewMark \/ ReviewMarkFails \/ ReviewSave
    <3>1. /\ review.step \in {"mark", "save"} /\ review'.step \in {"save", "done"}
          /\ review'.record = review.record /\ review'.cand = review.cand
          /\ review'.seen \subseteq index \cup review.seen
          /\ index' \subseteq index \cup review.seen \cup Fingerprints(review.cand)
          /\ sent' = sent
      BY <2>3 DEF ReviewMark, ReviewMarkFails, ReviewSave, ReviewGoto, state, opencti
    <3>2. /\ \A f \in Fingerprints(review.cand) : HandedOver(f)'
          /\ review.record[2] \notin Denied
      BY <1>2, <1>4, <3>1 DEF SharedInv
    <3>. QED
      BY <1>1, <1>4, <2>0, <3>1, <3>2 DEF SharedInv, IndexesAreHandedOver, Fingerprints
  <2>4. CASE ReviewDone \/ ReviewFails
    <3>1. /\ index' = index /\ review' = Idle /\ review.step # "idle"
          /\ sent' \subseteq sent \cup {review.record[2]}
      BY <2>4 DEF ReviewDone, ReviewFails, Accept, state, opencti
    <3>. QED
      BY <1>1, <1>4, <2>0, <3>1 DEF SharedInv, IndexesAreHandedOver, Idle
  <2>. QED
    BY <2>1, <2>2, <2>3, <2>4 DEF Review
<1>. QED
  BY <1>1, <1>3, <1>5, DeliveryStays DEF DeliveryInv, DeniedStaysOut

\* Every step keeps the delivery invariant.
LEMMA NextDelivery ==
    ASSUME TypeInv, DeliveryInv, [Next]_vars
    PROVE  DeliveryInv'
<1>1. CASE UNCHANGED vars
  BY <1>1 DEF vars, state, opencti, control, DeliveryInv, FlowInv, DoneFor, GraphInv,
              SharedInv, CheckpointedIsDelivered, IndexesAreHandedOver, DeniedStaysOut,
              AuditTellsTruth, IndicatorsSettled, GraphSettled, Settled, HandedOver,
              Plan, Item, Wanted, Fingerprints
<1>. QED
  BY <1>1, WorkDelivery, FailureDelivery, ReviewDelivery DEF Next

\* The delivery invariant holds in every reachable state.
LEMMA DeliveryCorrect == Spec => []DeliveryInv
<1>1. Init => DeliveryInv
  BY InitDelivery
<1>2. TypeInv /\ DeliveryInv /\ [Next]_vars => DeliveryInv'
  BY NextDelivery
<1>. QED
  BY <1>1, <1>2, PositionCorrect, PTL DEF Spec

\* No checkpoint without delivery: with any number of sources, of releases
\* exported at the same time and of failures and crashes at any step, all of an
\* item that the processors wrote to a state file is settled: in OpenCTI, not
\* deliverable, or taken for what was handed over before.
THEOREM CheckpointsAreSound == Spec => []CheckpointedIsDelivered
<1>1. DeliveryInv => CheckpointedIsDelivered
  BY DEF DeliveryInv
<1>. QED
  BY <1>1, DeliveryCorrect, PTL

\* The indexes suppress only what was handed over, although two processes read
\* and replace the artifact index file without a lock.
THEOREM IndexesAreSound == Spec => []IndexesAreHandedOver
<1>1. DeliveryInv => IndexesAreHandedOver
  BY DEF DeliveryInv, SharedInv
<1>. QED
  BY <1>1, DeliveryCorrect, PTL

\* TLP holds end to end, through the quarantine and its releases.
THEOREM TLPIsRespected == Spec => []DeniedStaysOut
<1>1. DeliveryInv => DeniedStaysOut
  BY DEF DeliveryInv
<1>. QED
  BY <1>1, DeliveryCorrect, PTL

\* What the decision audit calls ingested is checkpointed and was handed to
\* OpenCTI, although the three writes are separate and each may fail.
THEOREM AuditIsSound == Spec => []AuditTellsTruth
<1>1. DeliveryInv => AuditTellsTruth
  BY DEF DeliveryInv
<1>. QED
  BY <1>1, DeliveryCorrect, PTL

-----------------------------------------------------------------------------
(* The connector as the only writer of the artifact index                   *)

\* Initially nobody has begun anything.
LEMMA InitSolo == Init => SoloInv
BY DEF Init, SoloInv, Idle

\* Every step keeps it: without releases no export of one begins.
LEMMA NextSolo ==
    ASSUME SoloInv, [Next]_vars
    PROVE  SoloInv'
<1>. SUFFICES ASSUME ArtifactDedup, NoReleases PROVE SoloInv'
  BY DEF SoloInv, NoReleases
<1>. USE DEF SoloInv
<1>1. CASE UNCHANGED vars
  BY <1>1 DEF vars, control
<1>2. CASE Work
  <2>1. CASE Ingest
    BY <2>1 DEF Ingest, New
  <2>2. CASE EndQuery
    BY <2>2, LeaveTypes DEF EndQuery
  <2>3. CASE Mark \/ Save
    BY <2>3 DEF Mark, Save, Goto
  <2>4. CASE ~(Ingest \/ EndQuery \/ Mark \/ Save)
    BY <1>2, <2>4 DEF Work, StartCycle, Search, SkipProcessed, Enrich, Drop,
          Quarantine, Queue, SkipEmpty, PreviewOnly, Export, Checkpoint, Audit,
          MarkGraph, Goto, NextItem
  <2>. QED
    BY <2>1, <2>2, <2>3, <2>4
<1>3. CASE Failure
  <2>1. CASE AbortSource \/ Crash
    BY <2>1, LeaveTypes DEF AbortSource, Crash
  <2>2. CASE ~(AbortSource \/ Crash)
    BY <1>3, <2>2 DEF Failure, EnrichMissing, ExportFails, AuditFails, WriteFails,
          Goto, NextItem
  <2>. QED
    BY <2>1, <2>2
<1>4. CASE Review
  BY <1>4 DEF Review, ReviewFilter, ReviewSend, ReviewMark, ReviewSave,
        ReviewDone, ReviewFails, ReviewMarkFails, NoReleases, Idle
<1>. QED
  BY <1>1, <1>2, <1>3, <1>4 DEF Next

\* What the artifact index knows is never forgotten and never sent again, for
\* any sources and settings and whatever fails, while nothing is released.
THEOREM IndexIsUsed == Spec => IndexSuppresses
<1>1. Init => SoloInv
  BY InitSolo
<1>2. SoloInv /\ [Next]_vars => SoloInv'
  BY NextSolo
<1>3. TypeInv /\ SoloInv /\ [Next]_vars =>
         [ArtifactDedup /\ NoReleases =>
             /\ index \subseteq index'
             /\ \A p \in repeated' \ repeated : Unknown(p, index) # {}]_vars
  <2>. SUFFICES ASSUME TypeInv, SoloInv, Next, ArtifactDedup, NoReleases
                PROVE  /\ index \subseteq index'
                       /\ \A p \in repeated' \ repeated : Unknown(p, index) # {}
    OBVIOUS
  <2>. USE DEF SoloInv
  <2>1. CASE Export \/ ExportFails
    <3>1. index' = index /\ pc = "export" /\ repeated' \subseteq repeated \cup Built(candidate)
      BY <2>1 DEF Export, ExportFails, Accept
    <3>2. \A p \in Built(candidate) : Unknown(p, index) # {}
      <4>. SUFFICES ASSUME NEW x \in candidate PROVE x \in Unknown(Pattern[x], index)
        BY DEF Built
      <4>. QED
        BY <3>1 DEF Unknown, TypeInv, TypeOK
    <3>. QED
      BY <3>1, <3>2
  <2>2. CASE Work /\ ~Export
    BY <2>2 DEF Work, StartCycle, Search, EndQuery, SkipProcessed, Enrich, Drop,
          Quarantine, Queue, SkipEmpty, PreviewOnly, Ingest, Mark, Save,
          Checkpoint, Audit, MarkGraph, opencti
  <2>3. CASE Failure /\ ~ExportFails
    BY <2>3 DEF Failure, AbortSource, EnrichMissing, AuditFails, WriteFails, Crash, opencti
  <2>4. CASE Review
    BY <2>4 DEF Review, ReviewFilter, ReviewSend, ReviewMark, ReviewSave,
          ReviewDone, ReviewFails, ReviewMarkFails, NoReleases
  <2>. QED
    BY <2>1, <2>2, <2>3, <2>4 DEF Next
<1>. QED
  BY <1>1, <1>2, <1>3, PositionCorrect, PTL DEF Spec, IndexSuppresses

OnceInv ==
    ArtifactDedup /\ NoReleases /\ faults = 0 =>
        /\ \A p \in repeated : Ambiguous(p)
        /\ \A p \in received : Ambiguous(p) \/
              \E x \in Indicators :
                  /\ Pattern[x] = p
                  /\ \/ Fingerprint[x] \in index
                     \/ pc \in {"mark", "save"} /\ Fingerprint[x] \in Fingerprints(candidate)

\* A step that fails nothing keeps it.
LEMMA NextOnce ==
    ASSUME TypeInv, SoloInv, OnceInv, [Next]_vars
    PROVE  OnceInv'
<1>. SUFFICES ASSUME ArtifactDedup, NoReleases, faults' = 0 PROVE OnceInv'
  BY DEF OnceInv, NoReleases
<1>1. faults \in Nat
  BY SettingsAssumption DEF TypeInv, TypeOK
<1>2. ~Fault
  BY <1>1 DEF Fault
<1>. USE DEF SoloInv, OnceInv
<1>3. CASE UNCHANGED vars
  BY <1>3 DEF vars, opencti, control
<1>4. CASE Work
  <2>1. faults = 0 /\ OnceInv
    BY <1>4 DEF Work, StartCycle, Search, EndQuery, SkipProcessed, Enrich, Drop,
          Quarantine, Queue, SkipEmpty, PreviewOnly, Ingest, Export, Mark, Save,
          Checkpoint, Audit, MarkGraph
  <2>2. CASE Export
    <3>1. /\ index' = index /\ candidate' = candidate /\ pc = "export" /\ pc' = "mark"
          /\ received' = received \cup Built(candidate)
          /\ repeated' = repeated \cup (Built(candidate) \cap received)
          /\ candidate \subseteq Indicators
      BY <2>2 DEF Export, Accept, Goto, TypeInv, TypeOK
    <3>2. Fingerprints(candidate)' = Fingerprints(candidate)
      BY <3>1 DEF Fingerprints
    <3>3. ASSUME NEW p \in Built(candidate), ~Ambiguous(p)
          PROVE  /\ \E x \in Indicators : /\ Pattern[x] = p
                                          /\ Fingerprint[x] \in Fingerprints(candidate)
                 /\ p \notin received
      <4>1. PICK x \in candidate : Pattern[x] = p
        BY DEF Built
      <4>2. /\ Fingerprint[x] # NoFingerprint
            /\ \A y \in Indicators : Pattern[y] = p => Fingerprint[y] = Fingerprint[x]
        BY <3>1, <3>3, <4>1 DEF Ambiguous
      <4>3. Fingerprint[x] \notin index
        BY <3>1, <4>1
      <4>4. Fingerprint[x] \in Fingerprints(candidate)
        BY <4>1, <4>2 DEF Fingerprints
      <4>. QED
        BY <2>1, <3>1, <3>3, <4>1, <4>2, <4>3, <4>4
    <3>. QED
      BY <2>1, <3>1, <3>2, <3>3
  <2>3. CASE Mark \/ Save
    BY <2>1, <2>3 DEF Mark, Save, Goto, Fingerprints, opencti
  <2>4. CASE EndQuery
    BY <2>1, <2>4, LeaveTypes DEF EndQuery, opencti
  <2>5. CASE ~(Export \/ Mark \/ Save \/ EndQuery)
    BY <1>4, <2>1, <2>5 DEF Work, StartCycle, Search, SkipProcessed, Enrich, Drop,
          Quarantine, Queue, SkipEmpty, PreviewOnly, Ingest, Checkpoint, Audit,
          MarkGraph, Goto, NextItem, opencti
  <2>. QED
    BY <2>2, <2>3, <2>4, <2>5
<1>5. CASE Failure
  BY <1>2, <1>5 DEF Failure, AbortSource, EnrichMissing, ExportFails, AuditFails,
        WriteFails, Crash
<1>6. CASE Review
  BY <1>2, <1>6 DEF Review, ReviewFilter, ReviewSend, ReviewMark, ReviewSave,
        ReviewDone, ReviewFails, ReviewMarkFails, NoReleases
<1>. QED
  BY <1>3, <1>4, <1>5, <1>6 DEF Next

\* Exactly once while nothing fails: however many queries and sources find an
\* indicator that the artifact index can name, OpenCTI receives it once.
THEOREM OnceWithoutFailures == Spec => []DeliveredOnce
<1>1. Init => SoloInv /\ OnceInv
  BY InitSolo DEF Init, OnceInv
<1>2. TypeInv /\ SoloInv /\ OnceInv /\ [Next]_vars => SoloInv' /\ OnceInv'
  BY NextSolo, NextOnce
<1>3. OnceInv => DeliveredOnce
  BY DEF OnceInv, DeliveredOnce
<1>. QED
  BY <1>1, <1>2, <1>3, PositionCorrect, PTL DEF Spec
=============================================================================
