--------------------------- MODULE GraphEvidence ---------------------------
(***************************************************************************)
(* core/graph_evidence.py: the evidence records of one item, from what was *)
(* extracted from it, and the relationships that follow from the records   *)
(* of the same MISP event.                                                 *)
(*                                                                         *)
(* A record has the fields GraphPlan and StixBundle read, and               *)
(*   src           source_name                                              *)
(*   given         relationship_source_stix_object_type and _value, where   *)
(*                 they are set                                             *)
(*   norm, alias   the value was replaced by the canonical one; source_value*)
(*   inference     relationship_inference: what follows from the item       *)
(***************************************************************************)
EXTENDS MispExtraction, OtxExtraction

CONSTANTS
    Aliases,                        \* curated aliases: <<entity type, alias, canonical>>
    MaxOwners, MaxPairings, MaxRecords

ASSUME CapsAssumption == {MaxOwners, MaxPairings, MaxRecords} \subseteq Nat

NoEnd == <<"", "">>

Locations ==
    {"target_administrative_area", "target_city", "target_country", "target_position",
     "target_region"}
Victims ==
    Locations
    \union {"target_sector", "target_organization", "target_individual", "target_system"}

\* entity type -> default STIX type and relationship
Row(ents, type, rel) == <<ents, [type |-> type, rel |-> rel]>>
TargetRows ==
    { Row({"campaign"}, "campaign", "related-to"),
      Row({"course_of_action"}, "course-of-action", "related-to"),
      Row({"threat_actor", "threat_actor_individual"}, "threat-actor", "attributed-to"),
      Row({"intrusion_set"}, "intrusion-set", "attributed-to"),
      Row({"infrastructure"}, "infrastructure", "uses"),
      Row({"autonomous_system"}, "autonomous-system", "related-to"),
      Row({"channel"}, "channel", "uses"),
      Row({"event"}, "event", "related-to"),
      Row({"malware"}, "malware", "uses"),
      Row({"narrative"}, "narrative", "related-to"),
      Row({"security_platform"}, "security-platform", "related-to"),
      Row({"tool"}, "tool", "uses"),
      Row({"vulnerability"}, "vulnerability", "related-to"),
      Row({"observable"}, "observable", "based-on"),
      Row({"attack_pattern"}, "attack-pattern", "uses"),
      Row({"attack_tactic"}, "x-mitre-tactic", "uses"),
      Row(Victims \ Locations, "identity", "targets"),
      Row(Locations, "location", "targets"),
      Row({"source_identity"}, "identity", "originated-from"),
      Row({"collector"}, "identity", "collected-by"),
      Row({"tag"}, "label", "labels"),
      Row({"marking"}, "marking-definition", "marked-with"),
      Row({"external_reference"}, "external-reference", "references"),
      Row({"detection_rule"}, "indicator", "detects"),
      Row({"attack_platform"}, "x-narrowcti-attack-platform", "applies-to"),
      Row({"attack_data_source"}, "x-mitre-data-source", "detects"),
      Row({"attack_data_component"}, "x-mitre-data-component", "detects"),
      Row({"detection_guidance", "event_report"}, "note", "documents"),
      Row({"sighting"}, "sighting", "sighting-of"),
      Row({"object_reference"}, "relationship", "related-to") }
Targets == Table(TargetRows)

Adversaries == {"intrusion_set", "threat_actor", "threat_actor_individual"}
InfrastructureCapabilities == {"malware", "tool", "channel"}
CampaignCapabilities == InfrastructureCapabilities \union {"attack_pattern"}

---------------------------------------------------------------------------
(* One record *)

AliasesOf(ent, val) == {a \in Aliases : a[1] = ent /\ a[2] = val}
CanonicalValue(ent, val) ==
    IF AliasesOf(ent, val) = {} THEN val ELSE (CHOOSE a \in AliasesOf(ent, val) : TRUE)[3]

\* A canonical value is not an alias of another.
ASSUME AliasesAssumption ==
    \A a \in Aliases : a[3] # "" /\ AliasesOf(a[1], a[3]) = {}

\* What a record may carry; "targeted" of a field named after its target.
Plain ==
    [type |-> "", rel |-> "", given |-> NoEnd, norm |-> FALSE, alias |-> "",
     parent |-> {}, parentVal |-> "", targeted |-> FALSE, inference |-> "",
     validate |-> FALSE, uuid |-> {}, number |-> TRUE, place |-> FALSE, obs |-> "",
     hash |-> FALSE, pattern |-> "", compat |-> TRUE, described |-> FALSE,
     from |-> "", to |-> "", positive |-> TRUE]

AtLeast(conf, floor) == IF conf < floor THEN floor ELSE conf

\* Some kinds of evidence are held to be at least this sure.
Confidence(ent, conf, src, a) ==
    CASE ent = "target_sector" /\ src = "misp-galaxy" /\ a.targeted -> AtLeast(conf, 75)
      [] ent = "target_sector" /\ ~(src = "misp-galaxy" /\ a.targeted)
         /\ ((src = "otx" /\ a.targeted) \/ a.norm) -> AtLeast(conf, 60)
      [] ent \in Locations /\ src = "misp-galaxy" /\ a.targeted -> AtLeast(conf, 70)
      [] ent \in Locations /\ src = "otx" /\ a.targeted -> AtLeast(conf, 60)
      [] ent \in {"intrusion_set", "malware"} /\ a.norm -> AtLeast(conf, 70)
      [] OTHER -> conf

\* The other end of the relationship is read from the first of the source
\* given, source_value and the cluster the record comes from.
TargetedRecord(item, ent, val, src, sure, a, target) ==
    [source |-> item.source, item |-> item.id, ent |-> ent, val |-> val,
     type |-> FirstText(<<a.type, target.type>>), rel |-> FirstText(<<a.rel, target.rel>>),
     src |-> src, conf |-> sure, rconf |-> sure, prov |-> TRUE,
     given |-> a.given, norm |-> a.norm, alias |-> a.alias,
     anchor |-> <<a.given[1], FirstText(<<a.given[2], a.alias, a.parentVal>>)>>,
     parent |-> a.parent, parentVal |-> a.parentVal, targeted |-> a.targeted,
     inference |-> a.inference, validate |-> a.validate,
     victim |-> a.inference = "infrastructure-victimology",
     number |-> a.number, place |-> a.place, obs |-> a.obs, hash |-> a.hash,
     pattern |-> a.pattern, compat |-> a.compat, wellformed |-> TRUE,
     described |-> a.described, uuid |-> a.uuid, from |-> a.from, to |-> a.to,
     positive |-> a.positive, existing |-> NoEnd]

SureRecord(item, ent, val, src, conf, a) ==
    TargetedRecord(item, ent, val, src, Confidence(ent, conf, src, a), a, Targets[ent])

\* The canonical value replaces an alias, which stays as source_value.
Renamed(a, val) == [a EXCEPT !.norm = TRUE, !.alias = FirstText(<<@, val>>)]
NamedRecord(item, ent, val, canonical, src, conf, a) ==
    SureRecord(item, ent, canonical, src, conf, IF canonical = val THEN a ELSE Renamed(a, val))

Record(item, ent, val, src, conf, attributes) ==
    IF "" \in {ent, val} THEN <<>>
    ELSE <<NamedRecord(item, ent, val, CanonicalValue(ent, val), src, conf, attributes)>>

---------------------------------------------------------------------------
(* OTX, ATT&CK techniques, and the tags of a MISP event *)

OtxEvidence(item, p) ==
    Concat(OtxRecords(p), LAMBDA f :
        Record(item, f.ent, f.val, "otx", f.conf,
               [Plain EXCEPT !.rel = f.rel, !.given = f.given, !.targeted = f.targeted,
                             !.obs = f.obs, !.hash = f.hash, !.pattern = f.pattern,
                             !.uuid = f.uuid, !.place = f.place,
                             !.inference = f.inference]))

\* A technique the cache has, and what its entry names, with it as source.
AttackEvidence(item, ids) ==
    LET Of(id) ==
          LET t == Techniques[id]
              Context(ent, conf, values) ==
                 Concat(values, LAMBDA v :
                     Record(item, ent, v, "mitre-attack", conf,
                            [Plain EXCEPT !.given = <<"attack-pattern", id>>]))
              components == Selected(t.sources, LAMBDA s : Len(Facts[s].parts) = 2)
          IN Record(item, "attack_pattern", id, "mitre-attack", 90,
                    [Plain EXCEPT !.described = TRUE])
             \o Record(item, "external_reference", t.url, "mitre-attack", 90, Plain)
             \o Context("attack_tactic", 85, t.tactics)
             \o Context("attack_platform", 75, t.platforms)
             \o Context("attack_data_source", 80, t.sources)
             \o Context("attack_data_component", 78,
                        MapSeq(components, LAMBDA s : Facts[s].parts[2]))
             \o Context("detection_guidance", 70, t.detection)
    IN Concat(Selected(ids, LAMBDA id : id \in DOMAIN Techniques), Of)

PulseEvidence(item, p) == OtxEvidence(item, p) \o AttackEvidence(item, AttackIds(p))

\* A galaxy tag is the cluster it names.
TagClusters(tags) ==
    MapSeq(Selected(tags, LAMBDA t : t.words # {} /\ t.val # ""),
           LAMBDA t : [type |-> t.text, words |-> t.words, val |-> t.val, uuid |-> "",
                       attack |-> FirstText(Facts[t.text].attacks),
                       cve |-> FirstText(Facts[t.text].cves), person |-> FALSE, mitigates |-> "",
                       meta |-> <<>>])

---------------------------------------------------------------------------
(* Galaxies *)

\* In this order: the first whose words are in the names of the cluster.
GalaxyClasses ==
    << <<{"attack-pattern"}, "attack_pattern", 85>>,
       <<{"intrusion-set"}, "intrusion_set", 80>>,
       <<{"vulnerability", "cve"}, "vulnerability", 80>>,
       <<{"campaign"}, "campaign", 75>>,
       <<{"course-of-action"}, "course_of_action", 75>>,
       <<{"person"}, "threat_actor_individual", 65>>,
       <<{"threat-actor"}, "threat_actor", 80>>,
       <<{"malpedia", "ransomware", "malware"}, "malware", 80>>,
       <<{"tool"}, "tool", 75>>, <<{"sector"}, "target_sector", 70>>,
       <<{"country"}, "target_country", 70>>, <<{"region"}, "target_region", 65>> >>

ClassOf(c) ==
    LET words == c.words \union IF c.person THEN {"person"} ELSE {}
        fits == {i \in DOMAIN GalaxyClasses : GalaxyClasses[i][1] \intersect words # {}}
        first == FirstOf(GalaxyClasses, fits)
    IN IF words = {} \/ fits = {} THEN [ent |-> "", conf |-> 0]
       ELSE [ent |-> first[2], conf |-> first[3]]

ValueOf(c) ==
    CASE ClassOf(c).ent = "attack_pattern" -> FirstText(<<c.attack, c.val>>)
      [] ClassOf(c).ent = "vulnerability" -> FirstText(<<c.cve, c.val>>)
      [] OTHER -> c.val

AnchoredByContext ==
    {"attack_pattern", "channel", "infrastructure", "malware", "tool"} \union Victims

TypeOfAnchor ==
    Table({<<{"campaign"}, "campaign">>, <<{"intrusion_set"}, "intrusion-set">>,
           <<{"threat_actor"}, "threat-actor">>})

AnchorOf(c) ==
    IF ClassOf(c).ent \in DOMAIN TypeOfAnchor
    THEN <<TypeOfAnchor[ClassOf(c).ent], ValueOf(c)>> ELSE NoEnd

\* What the metadata of a cluster may name is held to be a name, not an
\* address, an account, the platforms themselves or an identifier.
IsSafeValue(ent, val) ==
    LET isName == Facts[val].shape \notin {"", "reserved", "url", "tlp", "email", "attack",
                                           "cve"}
                  /\ ~ReadsAsDomain(val)
    IN CASE ent = "target_individual" -> isName /\ Facts[val].shape \notin {"account", "number"}
         [] ent \in {"channel", "event", "narrative", "security_platform",
                     "target_organization", "target_system"} ->
              isName /\ Facts[val].shape # "number"
         [] OTHER -> val # ""

\* Records of the metadata of a cluster: victims are those of the cluster's
\* campaign or actor, or of the one of the event.
MetaEvidence(item, c, anchor) ==
    LET source == IF AnchorOf(c) # NoEnd THEN AnchorOf(c) ELSE anchor
        fields == Distinct(Selected(c.meta, LAMBDA m :
                              m.val # "" /\ IsSafeValue(m.ent, CanonicalValue(m.ent, m.val))),
                           LAMBDA m : <<m.ent, CanonicalValue(m.ent, m.val)>>)
    IN Concat(fields, LAMBDA m :
          Record(item, m.ent, m.val, "misp-galaxy", MetaConfidence[m.ent],
                 [Plain EXCEPT !.given = IF m.ent \in Victims THEN source ELSE NoEnd,
                               !.parent = c.words, !.parentVal = c.val, !.targeted = m.targeted]))

GalaxyEvidence(item, clusters, anchor) ==
    LET Given(c) ==
            IF ClassOf(c).ent = "course_of_action" /\ c.mitigates # ""
            THEN <<"attack-pattern", c.mitigates>>
            ELSE IF ClassOf(c).ent \in AnchoredByContext THEN anchor ELSE NoEnd
        Of(c) ==
            Record(item, ClassOf(c).ent, ValueOf(c), "misp-galaxy", ClassOf(c).conf,
                   [Plain EXCEPT !.given = Given(c), !.uuid = {c.uuid} \ {""},
                                 !.rel = IF ClassOf(c).ent = "course_of_action"
                                            /\ c.mitigates # ""
                                         THEN "mitigates" ELSE ""])
            \o MetaEvidence(item, c, anchor)
    IN Concat(Selected(clusters, LAMBDA c : ClassOf(c).ent # ""), Of)

\* The campaign or actor of the event, if it names exactly one.
SingleAnchor(anchors) ==
    IF Cardinality(ToSet(anchors)) = 1 THEN anchors[1] ELSE NoEnd

ContextAnchor(m) ==
    LET clusters == m.galaxies \o TagClusters(m.tags)
        anchors == MapSeq(m.campaigns, LAMBDA c : <<"campaign", c.val>>)
                   \o Selected(MapSeq(clusters, AnchorOf), LAMBDA a : a # NoEnd)
    IN SingleAnchor(anchors)

\* The provenance and the tags: a marking once for each TLP value, and a tag
\* that is a galaxy is evidence like the galaxy, without anchor.
TagEvidence(item, m) ==
    LET tlp == Selected(m.tags, LAMBDA t : t.tlp # "")
        plain == Selected(m.tags, LAMBDA t : t.tlp = "")
    IN Record(item, "collector", m.collector, "misp", 80, Plain)
       \o Record(item, "source_identity", m.original, "misp", 70, Plain)
       \o Concat(Distinct(tlp, LAMBDA t : t.tlp), LAMBDA t :
             Record(item, "marking", t.tlp, "misp", 80, Plain))
       \o Concat(plain, LAMBDA t : Record(item, "tag", t.text, "misp", 35, Plain))
       \o GalaxyEvidence(item, TagClusters(m.tags), NoEnd)

---------------------------------------------------------------------------
(* The other parts of a MISP event *)

VictimEvidence(item, found, anchor) ==
    Concat(Selected(found, LAMBDA v : IsSafeValue(v.ent, CanonicalValue(v.ent, v.val))),
           LAMBDA v : Record(item, v.ent, v.val, "misp-attribute", v.conf,
                             [Plain EXCEPT !.given = anchor, !.uuid = v.uuids]))

\* One record for each technique the rule detects.
RuleEvidence(item, r) ==
    LET ids == IF r.type \in {"sigma", "yara"} /\ r.compat THEN r.attacks ELSE <<>>
        Of(id) == Record(item, "detection_rule", r.val, "misp", IF id = "" THEN 70 ELSE 85,
                         [Plain EXCEPT !.pattern = r.type, !.compat = r.compat,
                                       !.uuid = r.uuids,
                                       !.rel = IF id = "" THEN "" ELSE "detects",
                                       !.given = IF id = "" THEN NoEnd
                                                 ELSE <<"attack-pattern", id>>])
    IN IF ids = <<>> THEN Of("") ELSE Concat(ids, Of)

StatedEvidence(item, m) ==
    Concat(m.vulnerabilities, LAMBDA v :
        Record(item, "vulnerability", v.val, "misp", 75, [Plain EXCEPT !.uuid = v.uuids]))
    \o Concat(m.campaigns, LAMBDA c :
        Record(item, "campaign", c.val, "misp", 70, [Plain EXCEPT !.uuid = c.uuids]))
    \o VictimEvidence(item, m.victims, ContextAnchor(m))
    \o Concat(m.reports, LAMBDA r :
        Record(item, "event_report", r.title, "misp", 70,
               [Plain EXCEPT !.uuid = {r.uuid} \ {""}, !.described = TRUE]))
    \o Concat(m.sightings, LAMBDA s :
        Record(item, "sighting", s.val, "misp", s.conf,
               [Plain EXCEPT !.positive = s.positive, !.to = s.of]))
    \o Concat(m.references, LAMBDA r :
        Record(item, "object_reference", r.from \o " " \o r.rel \o " " \o r.to, "misp", 60,
               [Plain EXCEPT !.rel = r.rel, !.from = r.from, !.to = r.to]))
    \o Concat(m.infrastructure, LAMBDA f :
        Record(item, f.ent, f.val, "misp-object", f.conf,
               [Plain EXCEPT !.type = f.type, !.rel = f.rel, !.given = f.anchor,
                             !.number = f.number # NoAs, !.obs = f.obs, !.uuid = f.uuids]))
    \o Concat(m.rules, LAMBDA r : RuleEvidence(item, r))

EventEvidence(item, m) ==
    TagEvidence(item, m) \o GalaxyEvidence(item, m.galaxies, ContextAnchor(m))
    \o StatedEvidence(item, m)

---------------------------------------------------------------------------
(* What follows from the records of one event *)

IsMisp(r) == r.src \in {"misp", "misp-galaxy", "misp-attribute", "misp-object",
                        "misp-context"}

Unique(records, Is(_)) ==
    Distinct(Selected(records, LAMBDA r : IsMisp(r) /\ Is(r)),
             LAMBDA r : <<r.ent, r.type, r.val>>)

SemanticKey(given, rel, r) == <<given, rel, <<r.type, r.val>>>>
SemanticKeys(records) ==
    {SemanticKey(records[i].given, records[i].rel, records[i]) :
        i \in {i \in DOMAIN records : "" \notin ToSet(records[i].given)}}

\* Mutant: as sure as the target.
SureAsTarget(a, b) == b

WeakerOf(a, b) == IF a < b THEN a ELSE b

\* What the target is, with the source as the other end; not surer than both.
InferredRecord(item, l, validate) ==
    Record(item, l.to.ent, l.to.val, "misp-context", WeakerOf(l.by.conf, l.to.conf),
           [l.to EXCEPT !.rel = l.rel, !.given = <<l.by.type, l.by.val>>,
                        !.inference = l.inference, !.validate = validate])

\* Mutant: who is a victim of an infrastructure needs no validation.
InferredUnmarked(item, l) == InferredRecord(item, l, FALSE)

Inferred(item, l) ==
    InferredRecord(item, l, l.to.validate \/ l.inference = "infrastructure-victimology")

\* Mutant: as many pairs as are allowed.
FirstPairs(targets, sources) ==
    LET all == Concat(targets, LAMBDA t : MapSeq(sources, LAMBDA s : [to |-> t, by |-> s]))
    IN SubSeq(all, 1, WeakerOf(MaxPairings, Len(all)))

\* All pairs, the targets first, or none if they are too many.
ByTarget(targets, sources) ==
    IF Len(targets) * Len(sources) > MaxPairings THEN <<>>
    ELSE Concat(targets, LAMBDA t : MapSeq(sources, LAMBDA s : [to |-> t, by |-> s]))
BySource(targets, sources) ==
    IF Len(targets) * Len(sources) > MaxPairings THEN <<>>
    ELSE Concat(sources, LAMBDA s : MapSeq(targets, LAMBDA t : [to |-> t, by |-> s]))

\* Mutant: all of them, whichever it was.
AllOfThem(found) == found

OnlyOne(found) == IF Len(found) = 1 THEN found ELSE <<>>

InfrastructureIn(records) ==
    Unique(records, LAMBDA r : r.ent = "infrastructure" /\ r.type = "infrastructure")
ActorsIn(records) == Unique(records, LAMBDA r : r.ent \in Adversaries)
VictimsIn(records) == Unique(records, LAMBDA r : r.ent \in Victims)

\* A link is what one step says of a pair.
Step(pairs, rel, inference) ==
    MapSeq(pairs, LAMBDA p : [to |-> p.to, by |-> p.by, rel |-> rel, inference |-> inference])

LinkKey(l) == SemanticKey(<<l.by.type, l.by.val>>, l.rel, l.to)

\* Mutant: what is stated already is related again.
NewAgain(records, links) == DOMAIN links

\* A target is related to a source unless a record or an earlier link says so.
New(records, links) ==
    {i \in DOMAIN links :
        /\ LinkKey(links[i]) \notin SemanticKeys(records)
        /\ "" \notin {links[i].by.type, links[i].by.val}
        /\ \A j \in DOMAIN links : j < i => LinkKey(links[j]) # LinkKey(links[i])}

\* The first of them, as many as are allowed.
Cut(places) == {i \in places : Cardinality({j \in places : j < i}) < MaxRecords}

Related(item, records, links) ==
    Concat(Picked(links, Cut(New(records, links))), LAMBDA l : Inferred(item, l))

\* A campaign is attributed to the one actor, uses the capabilities and the
\* infrastructure and targets the victims of its event.
RelatedToCampaigns(item, records, campaigns) ==
    Related(item, records,
        Step(ByTarget(OnlyOne(ActorsIn(records)), campaigns), "attributed-to",
             "campaign-adversary")
        \o Step(ByTarget(Unique(records, LAMBDA r : r.ent \in CampaignCapabilities), campaigns),
                "uses", "campaign-capability")
        \o Step(ByTarget(InfrastructureIn(records), campaigns), "uses",
                "campaign-infrastructure")
        \o Step(ByTarget(VictimsIn(records), campaigns), "targets", "campaign-victimology"))

CampaignContext(item, records) ==
    LET campaigns == Unique(records, LAMBDA r : r.ent = "campaign" /\ r.type = "campaign")
    IN IF Len(campaigns) > MaxOwners THEN <<>>
       ELSE RelatedToCampaigns(item, records, campaigns)

\* Infrastructure is used by the one actor, the one campaign and the malware,
\* tools and channels, is related to the techniques and targets the victims.
RelatedToInfrastructure(item, records, networks) ==
    LET EntitiesIn(ents) == Unique(records, LAMBDA r : r.ent \in ents)
        One(s) == Concat(networks, LAMBDA t : MapSeq(OnlyOne(s), LAMBDA x : [to |-> t, by |-> x]))
    IN Related(item, records,
        Step(One(ActorsIn(records)), "uses", "infrastructure-adversary")
        \o Step(One(EntitiesIn({"campaign"})), "uses", "infrastructure-campaign")
        \o Step(ByTarget(networks, EntitiesIn(InfrastructureCapabilities)), "uses",
                "infrastructure-capability")
        \o Step(BySource(EntitiesIn({"attack_pattern"}), networks), "related-to",
                "infrastructure-ttp")
        \o Step(BySource(VictimsIn(records), networks), "targets",
                "infrastructure-victimology"))

InfrastructureContext(item, records) ==
    LET networks == InfrastructureIn(records)
    IN IF Len(networks) > MaxOwners THEN <<>>
       ELSE RelatedToInfrastructure(item, records, networks)
=============================================================================
