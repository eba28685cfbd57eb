----------------------------- MODULE StixBundle -----------------------------
(***************************************************************************)
(* exporters/stix_builder.py: the STIX bundle of one item, built from its  *)
(* indicators and from the graph candidates that are exportable.           *)
(*                                                                         *)
(* A reference is <<prefix, name, owner>>: the STIX type, what the         *)
(* deterministic id is computed from, and who computed it ("narrowcti" or  *)
(* "opencti").  Of a candidate's attributes the builder reads              *)
(*   obs, hash       the observable type, a hash algorithm is given        *)
(*   pattern, compat the pattern type of a detection rule, and whether     *)
(*                   OpenCTI takes it as an indicator                      *)
(*   number, place   an AS number, a place of the location can be told     *)
(*   wellformed      the rest of what the STIX constructor asks for        *)
(*   described       the record has a description of its own               *)
(*   uuid            the identifiers other records may refer to it by      *)
(*   from, to        the identifiers a reference record points at          *)
(*   positive        a sighting that is not a false positive               *)
(*   existing        the object OpenCTI has for it (None: none is known)   *)
(* Names, dates, labels, confidence and other properties are left out.     *)
(***************************************************************************)
EXTENDS GraphPlan

Report == <<"report", <<"item", "">>, "narrowcti">>
Author == <<"identity", <<"author", "">>, "narrowcti">>
IndicatorRef(v) == <<"indicator", <<v, "">>, "narrowcti">>

SemanticTypes ==
    {"attributed-to", "based-on", "belongs-to", "consists-of", "detects",
     "indicates", "mitigates", "related-to", "targets", "uses"}

SightedTypes ==
    {"attack-pattern", "campaign", "course-of-action", "grouping", "identity",
     "indicator", "infrastructure", "intrusion-set", "malware",
     "malware-analysis", "note", "observed-data", "opinion", "report",
     "threat-actor", "tool", "vulnerability"}

\* The types OpenCTI or the code adds to STIX.
CustomTypes ==
    {"channel", "event", "narrative", "x-mitre-data-component", "x-mitre-data-source"}

ObjectTypes ==
    {"attack-pattern", "campaign", "course-of-action", "threat-actor",
     "intrusion-set", "infrastructure", "autonomous-system", "malware", "tool",
     "vulnerability", "identity", "location", "indicator", "note", "observable"}
    \union CustomTypes

\* What is described by its context when the record does not describe it.
ContextEntities ==
    {"campaign", "channel", "course_of_action", "attack_data_component",
     "attack_data_source", "event", "infrastructure", "intrusion_set", "malware",
     "narrative", "security_platform", "threat_actor", "threat_actor_individual",
     "tool", "vulnerability",
     "target_administrative_area", "target_city", "target_country",
     "target_individual", "target_organization", "target_position",
     "target_region", "target_sector", "target_system"}

---------------------------------------------------------------------------
(* Objects *)

RelationshipOnly(c) == c.type \in {"relationship", "sighting"}

\* A detection rule OpenCTI would not take as an indicator becomes a note.
RuleType(c) ==
    CASE ~c.compat -> "note"
      [] c.pattern \in {"sigma", "yara"} -> "indicator"
      [] c.pattern \in {"pcre", "snort", "suricata"} -> "note"
      [] c.type = "indicator" -> "note"
      [] OTHER -> c.type

ObjectType(c) == IF c.ent = "detection_rule" THEN RuleType(c) ELSE c.type

\* The prefix of the id: observables are named by what they observe.
ObjectPrefix(c) == IF ObjectType(c) = "observable" THEN c.obs ELSE ObjectType(c)

IdentityClass(c) ==
    CASE c.ent \in {"collector", "source_identity", "target_organization"} ->
            "organization"
      [] c.ent = "target_individual" -> "individual"
      [] c.ent = "target_system" -> "system"
      [] OTHER -> "class"

\* What the id is computed from besides the value: countries and regions
\* that are only named have the id of any object, other places their own.
IdDetail(c) ==
    CASE ObjectType(c) = "identity" -> IdentityClass(c)
      [] ObjectType(c) = "location"
         /\ ~(c.ent \in {"target_country", "target_region"} /\ ~c.place) -> c.ent
      [] OTHER -> ""

ObjectRef(c) == <<ObjectPrefix(c), <<c.val, IdDetail(c)>>, "narrowcti">>

ObservableBuilds(c) ==
    c.obs \in Observables /\ (c.obs \in {"artifact", "file"} => c.hash)

\* STIX wants a country, a region or a position; only the first two follow
\* from the value.
LocationBuilds(c) == c.ent \in {"target_country", "target_region"} \/ c.place

Builds(c) ==
    /\ ObjectType(c) \in ObjectTypes
    /\ ~(ObjectType(c) = "threat-actor" /\ c.ent = "threat_actor_individual")
    /\ ObjectType(c) = "observable" => ObservableBuilds(c)
    /\ ObjectType(c) = "location" => LocationBuilds(c)
    /\ ObjectType(c) = "autonomous-system" => c.number
    /\ c.wellformed

Described(c) ==
    c.described \/ c.ent = "detection_rule" \/ c.ent \in ContextEntities

\* Notes and observables have no description of their own.
HasText(c) ==
    Described(c) /\ ObjectType(c) \notin {"note", "observable", "autonomous-system"}

\* The prefixes the builder takes for an existing object of the candidate.
BuilderPrefixes(c) ==
    CASE c.type = "security-platform" -> {"identity", "security-platform"}
      [] c.type = "observable" -> {c.obs} \intersect Observables
      [] OTHER -> {c.type}

ExistingRef(c) ==
    IF c.existing[1] \in BuilderPrefixes(c) THEN c.existing ELSE None

\* An object already there is sent again only if its id is the one we compute.
Hydrates(c) == Builds(c) /\ ObjectRef(c) = ExistingRef(c) /\ Described(c)

Resolves(c) == ~RelationshipOnly(c) /\ (ExistingRef(c) # None \/ Builds(c))

\* The candidates that give their key its object: the first that can.
Registered(cands) ==
    {i \in DOMAIN cands :
        /\ Resolves(cands[i])
        /\ ~ \E j \in DOMAIN cands :
              /\ j < i
              /\ Resolves(cands[j]) /\ EntityKey(cands[j]) = EntityKey(cands[i])}

Skipped(cands) ==
    {c \in ToSet(cands) : ~RelationshipOnly(c) /\ ~Resolves(c)}

RefOf(c) == IF ExistingRef(c) # None THEN ExistingRef(c) ELSE ObjectRef(c)

\* graph_object_ids: the object of every key.
ObjectOf(cands, key) ==
    LET found == {i \in Registered(cands) : EntityKey(cands[i]) = key}
    IN IF found = {} THEN None ELSE RefOf(cands[CHOOSE i \in found : TRUE])

\* graph_alias_ids: the object of an identifier; the first that has it wins.
AliasOf(cands, uuid) ==
    LET found == {i \in Registered(cands) : uuid \in cands[i].uuid}
    IN IF found = {} THEN None
       ELSE RefOf(cands[CHOOSE i \in found : \A j \in found : i <= j])

\* Mutant: what exists is built again.
ObjectsRebuilt(cands) == {ObjectRef(cands[i]) : i \in
                             {i \in Registered(cands) : Builds(cands[i])}}

\* Those whose object the bundle carries, not only refers to.
Carried(cands) ==
    {i \in Registered(cands) : ExistingRef(cands[i]) = None \/ Hydrates(cands[i])}

Objects(cands) == {ObjectRef(cands[i]) : i \in Carried(cands)}

ReportRefs(cands, indicators) ==
    LET refs == {IndicatorRef(v) : v \in indicators}
                \union {RefOf(cands[i]) : i \in Registered(cands)}
    IN IF refs = {} THEN {Author} ELSE refs

---------------------------------------------------------------------------
(* Relationships *)

Edge(s, r, t) == [src |-> s, rel |-> r, tgt |-> t]

\* A reference between two records: both ends must be in the bundle.
ReferenceEdges(c, cands) ==
    LET s == AliasOf(cands, c.from)  t == AliasOf(cands, c.to)
    IN IF c.type = "relationship" /\ None \notin {s, t} /\ s # t
       THEN {Edge(s, c.rel, t)} ELSE {}

SightingTarget(c, cands, indicators) ==
    IF c.val \in indicators THEN IndicatorRef(c.val)
    ELSE IF ObjectOf(cands, <<"indicator", c.val>>) # None
         THEN ObjectOf(cands, <<"indicator", c.val>>)
         ELSE AliasOf(cands, c.to)

SightingEdges(c, cands, indicators) ==
    LET t == SightingTarget(c, cands, indicators)
    IN IF c.type = "sighting" /\ t[1] \in SightedTypes /\ c.positive
       THEN {Edge(Author, "sighting", t)} ELSE {}

HasAnchor(c) == "" \notin {c.anchor[1], c.anchor[2]}

\* Some records name the candidate that points at the anchor, not the reverse.
PointsAtAnchor(c) ==
    HasAnchor(c) /\
    \/ c.rel = "detects"
       /\ c.ent \in {"attack_data_source", "attack_data_component", "detection_rule"}
    \/ c.rel = "mitigates" /\ c.ent = "course_of_action"

\* The edge of a candidate whose anchor is not in the bundle, or whose
\* relationship is not semantic, comes from the report of the item.
ContextEdge(c, t) ==
    IF PointsAtAnchor(c) /\ HasAnchor(c)
    THEN Edge(t, "related-to", Report) ELSE Edge(Report, "related-to", t)

SemanticEdge(c, s, t) ==
    IF PointsAtAnchor(c) THEN Edge(t, c.rel, s) ELSE Edge(s, c.rel, t)

\* Mutant: the anchor is named whether or not the bundle has it.
EntityEdgesNamed(c, cands) ==
    LET t == ObjectOf(cands, EntityKey(c))
    IN IF t = None THEN {}
       ELSE IF HasAnchor(c) /\ c.rel \in SemanticTypes
            THEN {SemanticEdge(c, <<c.anchor[1], <<c.anchor[2], "">>, "narrowcti">>, t)}
            ELSE {ContextEdge(c, t)}

\* Mutant: an edge only where the anchor is in the bundle.
EntityEdgesAnchored(c, cands) ==
    LET t == ObjectOf(cands, EntityKey(c))
        s == IF HasAnchor(c) THEN ObjectOf(cands, c.anchor) ELSE Report
    IN IF None \in {s, t} THEN {} ELSE {SemanticEdge(c, s, t)}

EntityEdges(c, cands) ==
    LET t == ObjectOf(cands, EntityKey(c))
        s == IF HasAnchor(c) THEN ObjectOf(cands, c.anchor) ELSE None
    IN IF t = None THEN {}
       ELSE IF s \notin {None, t} /\ c.rel \in SemanticTypes
            THEN {SemanticEdge(c, s, t)} ELSE {ContextEdge(c, t)}

CandidateEdges(c, cands, indicators) ==
    ReferenceEdges(c, cands) \union SightingEdges(c, cands, indicators)
    \union EntityEdges(c, cands)

Bundle(cands, indicators) ==
    [objects |-> {IndicatorRef(v) : v \in indicators} \union Objects(cands),
     edges |-> UNION {CandidateEdges(c, cands, indicators) : c \in ToSet(cands)},
     refs |-> ReportRefs(cands, indicators)]
=============================================================================
