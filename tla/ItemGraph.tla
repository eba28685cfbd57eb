----------------------------- MODULE ItemGraph -----------------------------
(***************************************************************************)
(* One item of a feed on its way to a STIX bundle: decision_metadata of    *)
(* connectors/misp/processor.py and connectors/otx/processor.py, which     *)
(* extracts what the item says, builds the evidence, adds what follows     *)
(* from the records of one MISP event, applies the acceptance policy,      *)
(* scores the item by what is accepted and builds the preview of the       *)
(* bundle; and the decision on the item, by its TLP and its score.  The    *)
(* lookups of the plan and what is sent are in GraphExport.                *)
(***************************************************************************)
EXTENDS GraphEvidence, StixBundle, ContextualScoring

CONSTANTS
    Events, Pulses,     \* what MISP and OTX may hand over
    Signals             \* what scoring.py may find in it

ASSUME FeedsAssumption ==
    /\ \A e \in Events : IsMispEvent(e)
    /\ \A p \in Pulses : IsPulse(p)
    /\ \A c \in Signals : c.age \in Int

VARIABLES
    document,   \* the item: its source, and the event or the pulse
    stage,
    meta,       \* the metadata of an event
    records,    \* its evidence
    accepted,   \* the candidates the policy accepts
    decision,   \* what scoring.py found, the score and the action
    bundle

vars == <<document, stage, meta, records, accepted, decision, bundle>>

Stages == {"found", "extracted", "evidence", "campaigns", "related", "accepted",
           "decided", "built"}
IsEvent == document.source = "misp"
Item == [source |-> document.source, id |-> "item"]
NoMeta == [tags |-> <<>>]
NoDecision == [signals |-> <<>>, score |-> 0, action |-> ""]
NoBundle == [objects |-> {}, edges |-> {}, refs |-> {}]

Init ==
    /\ \/ \E e \in Events : document = [source |-> "misp", body |-> e]
       \/ \E p \in Pulses : document = [source |-> "otx", body |-> p]
    /\ stage = "found" /\ meta = NoMeta /\ records = <<>> /\ accepted = <<>>
    /\ decision = NoDecision /\ bundle = NoBundle

---------------------------------------------------------------------------
(* Steps *)

Metadata(e) ==
    [collector |-> "misp", original |-> "", tags |-> e.tags, galaxies |-> Galaxies(e),
     vulnerabilities |-> Vulnerabilities(e), campaigns |-> Campaigns(e),
     victims |-> Victimology(e), reports |-> EventReports(e), sightings |-> Sightings(e),
     references |-> ObjectReferences(e), infrastructure |-> Infrastructure(e),
     rules |-> DetectionRules(e)]

Extract ==
    /\ stage = "found"
    /\ meta' = IF IsEvent THEN Metadata(document.body) ELSE NoMeta
    /\ stage' = "extracted"
    /\ UNCHANGED <<document, records, accepted, decision, bundle>>

BuildEvidence ==
    /\ stage = "extracted"
    /\ records' = IF IsEvent THEN EventEvidence(Item, meta)
                  ELSE PulseEvidence(Item, document.body)
    /\ stage' = "evidence"
    /\ UNCHANGED <<document, meta, accepted, decision, bundle>>

\* What campaigns use and target, then what infrastructure does: the second
\* sees the records of the first.
WithCampaigns(rs) == rs \o CampaignContext(Item, rs)
WithInfrastructure(rs) == rs \o InfrastructureContext(Item, rs)

RelateCampaigns ==
    /\ stage = "evidence"
    /\ records' = WithCampaigns(records)
    /\ stage' = "campaigns"
    /\ UNCHANGED <<document, meta, accepted, decision, bundle>>

RelateInfrastructure ==
    /\ stage = "campaigns"
    /\ records' = WithInfrastructure(records)
    /\ stage' = "related"
    /\ UNCHANGED <<document, meta, accepted, decision, bundle>>

ApplyPolicy ==
    /\ stage = "related"
    /\ accepted' = Accepted(records)
    /\ stage' = "accepted"
    /\ UNCHANGED <<document, meta, records, decision, bundle>>

TlpOf(d) ==
    {v \in IF d.source = "misp" THEN {t.tlp : t \in ToSet(d.body.tags)}
           ELSE {Facts[t].tlp : t \in ToSet(TextsOf(d.body, "tags"))} : v # ""}

\* A marking that is not allowed is decided before any score.
Decide ==
    /\ stage = "accepted"
    /\ \E c \in Signals :
          LET base == BaseScore(c)
              score == DecisionScore(base, accepted)
          IN decision' = IF TlpIsAllowed(TlpOf(document))
                         THEN [signals |-> c, score |-> score,
                               action |-> ShouldIngest(c.age, score)]
                         ELSE [signals |-> c, score |-> base, action |-> "drop"]
    /\ stage' = "decided"
    /\ UNCHANGED <<document, meta, records, accepted, bundle>>

\* In export mode the preview is of what may be sent, else of what is accepted.
Preview ==
    /\ stage = "decided"
    /\ LET sent == IF Mode = "export"
                   THEN Exportable(accepted, PlanActions(accepted, NothingKnown), NothingKnown)
                   ELSE accepted
       IN bundle' = Bundle(sent, {})
    /\ stage' = "built"
    /\ UNCHANGED <<document, meta, records, accepted, decision>>

Next ==
    Extract \/ BuildEvidence \/ RelateCampaigns \/ RelateInfrastructure
    \/ ApplyPolicy \/ Decide \/ Preview

Spec == Init /\ [][Next]_vars

---------------------------------------------------------------------------
(* Properties *)

ToRecords == ToSet(records)
IsInferred(r) == r.src = "misp-context"

\* Every record is a candidate with a target and a certainty, and the bundle
\* waits for the policy (core/graph_evidence.py evidence_record).
TypeOK ==
    /\ stage \in Stages
    /\ \A r \in ToRecords :
          /\ r.ent \in DOMAIN Targets /\ IsCandidate(r)
          /\ r.rel # "" /\ r.conf \in 0 .. 100 /\ r.source = document.source
    /\ ToSet(accepted) \subseteq {Candidate(r) : r \in ToRecords}
    /\ decision.score \in 0 .. 100
    /\ decision.action \in {"", "ingest", "quarantine", "drop"}
    /\ stage # "built" => bundle = NoBundle

\* What an item states is not inferred once more, and nothing is inferred
\* twice, although two passes relate the same records
\* (core/graph_evidence.py semantic_relationship_keys).
NoEdgeTwice ==
    \A i, j \in DOMAIN records :
        /\ i # j /\ IsInferred(records[j])
        /\ "" \notin ToSet(records[i].given)
        => SemanticKey(records[i].given, records[i].rel, records[i])
              # SemanticKey(records[j].given, records[j].rel, records[j])

\* The actors and the campaigns an event names, as the records call them.
NamedClusters(e) == Galaxies(e) \o TagClusters(e.tags)
ActorsNamed(e) ==
    {<<ClassOf(c).ent, CanonicalValue(ClassOf(c).ent, ValueOf(c))>> :
        c \in {c \in ToSet(NamedClusters(e)) : ClassOf(c).ent \in Adversaries}}
\* The other ends the extraction may choose among.
AnchorsNamed(e) ==
    {AnchorOf(c) : c \in {c \in ToSet(NamedClusters(e)) : AnchorOf(c) # NoEnd}}
    \union {<<"campaign", c.val>> : c \in ToSet(Campaigns(e))}

AnchorTypes == {"campaign", "intrusion-set", "threat-actor"}

\* Multiple actors suppress the inferred edge: an edge from or to an actor is
\* inferred only if the item names no other, and evidence is given to a
\* campaign or an actor only if it is the only one, unless it is the one whose
\* cluster says so (docs/architecture-v1.0.md, docs/graph-enrichment-v0.7.md).
OneAdversary ==
    \A r \in ToRecords :
        /\ r.inference \in {"campaign-adversary", "infrastructure-adversary"}
              => Cardinality(ActorsNamed(document.body)) = 1
        /\ ~IsInferred(r) /\ r.given[1] \in AnchorTypes
              => IF IsEvent
                 THEN r.parentVal = r.given[2] \/ AnchorsNamed(document.body) = {r.given}
                 ELSE ToSet(TextsOf(document.body, "adversary")) = {r.given[2]}

\* What follows from two records is not surer than either, although a
\* canonical name raises the certainty of some records again
\* (core/graph_evidence.py evidence_confidence).
ContextNotSurer ==
    \A r \in {r \in ToRecords : IsInferred(r)} :
        /\ \E s \in ToRecords : <<s.type, s.val>> = r.given /\ r.conf <= s.conf
        /\ \E s \in ToRecords : ~IsInferred(s) /\ EntityKey(s) = EntityKey(r)
                                /\ r.conf <= s.conf

\* The records of the same event with its lists in the reverse order. The
\* attributes inside one object keep theirs: the code reads the name of an AS
\* and of an infrastructure from the first that fits.
Reversed(e) ==
    [e EXCEPT !.tags = Reverse(@), !.clusters = Reverse(@),
              !.attributes = Reverse(@), !.objects = Reverse(@)]
RecordsOf(e) == WithInfrastructure(WithCampaigns(EventEvidence(Item, Metadata(e))))
Relationships(rs) == {<<r.given, r.rel, r.type, r.val>> : r \in ToSet(rs)}
\* Unless a bound cut one of them off.
SameRelationships(rs, others) ==
    LET Complete(s) == Len(Selected(s, IsInferred)) < MaxRecords
    IN Complete(rs) /\ Complete(others) => Relationships(rs) = Relationships(others)
\* Of two equally long labels of one AS the code keeps the first, so there the
\* order decides, unless a third label is longer.
Untied(e) ==
    LET facts == ToSet(InfrastructureFacts(e))
    IN \A f, g \in {f \in facts : f.number # NoAs} :
        f.number = g.number /\ f.val # g.val /\ Len(f.val) = Len(g.val)
        => \E h \in facts : h.number = f.number /\ Len(h.val) > Len(f.val)

\* The order of the tags, clusters, attributes and objects of an event does not
\* decide which relationships it has, as long as no bound cuts them off and no
\* AS has two longest labels.
OrderIndependent ==
    stage = "related" /\ IsEvent /\ Untied(document.body) =>
        SameRelationships(records, RecordsOf(Reversed(document.body)))

\* An infrastructure targets a victim in the bundle only where a source says
\* so, of the infrastructure or by a reference of one of its objects: what
\* follows from the event waits for validation, through policy, plan and
\* builder (docs/architecture-v1.0.md, the victimology switch).
VictimsWait ==
    \A e \in bundle.edges :
        /\ ~AllowVictimology
        /\ e.src[1] = "infrastructure" /\ e.rel = "targets"
        => \E r \in ToRecords :
              /\ r.rel = e.rel
              /\ \/ ~IsInferred(r) /\ r.anchor = <<"infrastructure", e.src[2][1]>>
                 \/ /\ r.type = "relationship"
                    /\ \E s \in ToRecords :
                          r.from \in s.uuid /\ EntityKey(s) = <<"infrastructure", e.src[2][1]>>

\* Context is forward-only: an item its base score lets in stays in, and one
\* the base score keeps out is let in only by what was accepted from it, in
\* mode "enforce", within the age limit and the TLP
\* (docs/configuration-reference.md, contextual scoring).
ContextOnlyLifts ==
    decision # NoDecision =>
        LET base == BaseScore(decision.signals)
            age == decision.signals.age
            alone == IF TlpIsAllowed(TlpOf(document)) THEN ShouldIngest(age, base) ELSE "drop"
        IN /\ base <= decision.score
           /\ alone = "ingest" => decision.action = "ingest"
           /\ decision.action = "ingest" /\ alone # "ingest" =>
                 /\ ScoringMode = "enforce" /\ accepted # <<>>
                 /\ ~IsTooOld(age) /\ TlpIsAllowed(TlpOf(document))

\* What follows from an item does not raise its score: only what a source
\* states does, and only once, however often and in however many relationships
\* it is stated (core/contextual_scoring.py contextual_adjustments).
InferenceScoresNothing ==
    decision.action # "" =>
        Impact(accepted) = Impact(Accepted(Selected(records, LAMBDA r : ~IsInferred(r))))

\* An AS has one name in an item, whatever its objects, its attributes, its
\* indicators and the offline table call it: OpenCTI knows it by its number.
OneNameForAs ==
    \A r, s \in {r \in ToRecords : r.ent = "autonomous_system"} :
        Facts[r.val].asn = Facts[s.val].asn => r.val = s.val

\* A pulse or an event that names one actor and no campaign relates what the
\* actor uses and targets to it, not to the report
\* (docs/graph-enrichment-v0.7.md: OTX pulses with exactly one adversary).
SoleActorIsSource ==
    stage = "built" /\ ~IsEvent =>
        \A a \in ToSet(accepted) :
            a.ent = "intrusion_set" /\ Len(TextsOf(document.body, "adversary")) = 1 =>
                \A r \in ToSet(accepted) :
                    r.ent \in {"malware", "target_sector"} /\ r.src = "otx" /\ Resolves(r)
                    => \E e \in bundle.edges :
                          e.src = ObjectRef(a) /\ e.tgt = ObjectRef(r) /\ e.rel = r.rel
=============================================================================
