----------------------------- MODULE GraphPlan -----------------------------
(***************************************************************************)
(* From the graph evidence of one item to the graph candidates its export  *)
(* may use: core/graph_candidates.py (candidates and acceptance policy),   *)
(* core/graph_export_plan.py (the plan, what is known, what is             *)
(* exportable) and core/graph_deduplication.py (the local index).          *)
(*                                                                         *)
(* A record of evidence, and a candidate, is a record with the fields      *)
(*   source, item   the feed and the item (source_key, external_id)        *)
(*   ent, type, val entity_type, stix_object_type, value                   *)
(*   rel            relationship_type                                      *)
(*   conf, rconf    confidence and relationship_confidence                 *)
(*   prov           it has provenance                                      *)
(*   validate       relationship_validation_state asks for validation      *)
(*   victim         the inference of an infrastructure victimology record  *)
(*   anchor         the other end of the relationship, <<type, value>>, as *)
(*                  far as it is given; parent: what the name of the       *)
(*                  galaxy it comes from contains                          *)
(* and the attributes StixBundle reads.  Keys are the tuples the code      *)
(* hashes.  Texts, counts and display fields are left out.                 *)
(*                                                                         *)
(* What is left of a list of records keeps its positions: the candidates,  *)
(* the accepted, the plan and the exportable are functions on some of the  *)
(* positions of the records.                                               *)
(***************************************************************************)
EXTENDS Lists

CONSTANTS
    Mode,                       \* graph_export_mode
    MinEntityConfidence, MinRelationshipConfidence,
    AllowedEntityTypes,         \* configured; {} for none
    AllowedStixTypes,           \* configured; {} for none
    SafeEntityTypes, SafeStixTypes,
    RequireProvenance,          \* require_relationship_provenance
    AllowVictimology,           \* allow_infrastructure_victimology_export
    VictimologyTypes            \* entity types of victimology

ASSUME ModeAssumption == Mode \in {"audit", "dry-run", "export"}
ASSUME PolicyAssumption == {MinEntityConfidence, MinRelationshipConfidence} \subseteq Int

None == <<"", "">>

---------------------------------------------------------------------------
(* Candidates and the acceptance policy *)

Clamped(n) == IF n < 0 THEN 0 ELSE IF n > 100 THEN 100 ELSE n

\* A record without entity type, value or STIX type is no candidate.
IsCandidate(r) == "" \notin {r.ent, r.val, r.type}

\* The type of an anchor that is the cluster of a galaxy: the first that fits.
GalaxyTypes ==
    << <<{"attack-pattern"}, "attack-pattern">>, <<{"campaign"}, "campaign">>,
       <<{"intrusion-set"}, "intrusion-set">>,
       <<{"threat-actor", "threat actor"}, "threat-actor">>,
       <<{"malpedia", "ransomware", "malware"}, "malware">>, <<{"tool"}, "tool">>,
       <<{"sector"}, "identity">>, <<{"country", "region"}, "location">> >>

ParentType(words) ==
    LET fits == {i \in DOMAIN GalaxyTypes : GalaxyTypes[i][1] \intersect words # {}}
    IN IF fits = {} THEN "" ELSE FirstOf(GalaxyTypes, fits)[2]

Anchor(r) ==
    <<IF r.anchor[1] = "" THEN ParentType(r.parent) ELSE r.anchor[1], r.anchor[2]>>

Candidate(r) ==
    [r EXCEPT !.rel = IF @ = "" THEN "related-to" ELSE @, !.anchor = Anchor(r),
              !.conf = Clamped(@), !.rconf = Clamped(@)]

Candidates(records) ==
    [i \in {i \in DOMAIN records : IsCandidate(records[i])} |-> Candidate(records[i])]

\* An empty allow-list admits everything, but in export mode only what is safe.
Allowed(configured, safe) ==
    IF configured = {} /\ Mode = "export" THEN safe ELSE configured

Admits(list, t) == list = {} \/ t \in list

IsVictimology(c) ==
    /\ c.ent \in VictimologyTypes
    /\ c.rel = "targets"
    /\ c.anchor[1] = "infrastructure"
    /\ c.victim

\* Mutant: a record that needs validation is let through with the switch alone.
HeldReasonsSwitchOnly(c) ==
    IF c.validate /\ ~AllowVictimology
    THEN {"relationship_requires_opencti_validation"} ELSE {}

HeldReasons(c) ==
    LET holds ==
        [entity_confidence_below_min |-> c.conf < MinEntityConfidence,
         relationship_confidence_below_min |-> c.rconf < MinRelationshipConfidence,
         entity_type_not_allowed |->
            ~Admits(Allowed(AllowedEntityTypes, SafeEntityTypes), c.ent),
         stix_object_type_not_allowed |->
            ~Admits(Allowed(AllowedStixTypes, SafeStixTypes), c.type),
         relationship_provenance_required |-> RequireProvenance /\ ~c.prov,
         relationship_requires_opencti_validation |->
            c.validate /\ ~(AllowVictimology /\ IsVictimology(c))]
    IN {r \in DOMAIN holds : holds[r]}

IsAccepted(c) == HeldReasons(c) = {}

Passed(records) == {c \in ToSet(Candidates(records)) : IsAccepted(c)}

Accepted(records) ==
    [i \in {i \in DOMAIN Candidates(records) : Candidates(records)[i] \in Passed(records)} |->
        Candidates(records)[i]]

---------------------------------------------------------------------------
(* Keys *)

EntityKey(c) == <<c.type, c.val>>

RelationshipKey(c) ==
    <<c.source, c.item, c.rel, c.anchor, EntityKey(c)>>

Fingerprint(c) ==
    <<c.source, c.item, c.ent, c.type, c.val, c.rel, c.anchor>>

---------------------------------------------------------------------------
(* The plan *)

\* matches: the object OpenCTI has for a key.
NothingKnown == [ents |-> {}, rels |-> {}, matches |-> <<>>]

PlannedAction(relDuplicate) ==
    CASE relDuplicate      -> "deduplicated"
      [] Mode = "dry-run" -> "would_create"
      [] Mode = "export"  -> "exported"
      [] OTHER            -> "audit_only"

PlanActions(accepted, known) ==
    LET Before(i) == {accepted[j] : j \in {j \in DOMAIN accepted : j < i}}
        entityDuplicate(i) ==
            EntityKey(accepted[i]) \in
                known.ents \union {EntityKey(c) : c \in Before(i)}
        relDuplicate(i) ==
            RelationshipKey(accepted[i]) \in
                known.rels \union {RelationshipKey(c) : c \in Before(i)}
    IN [i \in DOMAIN accepted |->
          [action |-> PlannedAction(relDuplicate(i)),
           fingerprint |-> Fingerprint(accepted[i]),
           ent |-> EntityKey(accepted[i]),
           rel |-> RelationshipKey(accepted[i]),
           entDuplicate |-> entityDuplicate(i),
           relDuplicate |-> relDuplicate(i),
           summary |-> [accepted[i] EXCEPT !.anchor = None]]]

---------------------------------------------------------------------------
(* The local index, and what is known of a plan *)

EmptyIndex == [ents |-> {}, rels |-> {}]

\* Mutant: only entities are remembered.
EntitiesKnown(index, plan) ==
    [ents |-> {a.ent : a \in ToSet(plan)} \intersect index.ents,
     rels |-> {}, matches |-> <<>>]

LocallyKnown(index, plan) ==
    [ents |-> {a.ent : a \in ToSet(plan)} \intersect index.ents,
     rels |-> {a.rel : a \in ToSet(plan)} \intersect index.rels,
     matches |-> <<>>]

\* CompositeGraphLookup: the answers of the local index and of OpenCTI; of
\* two matches of an entity the last is used.
Merged(known, others) ==
    [ents |-> known.ents \union others.ents,
     rels |-> known.rels \union others.rels,
     matches |-> [key \in DOMAIN known.matches \union DOMAIN others.matches |->
                     IF key \in DOMAIN others.matches THEN others.matches[key]
                     ELSE known.matches[key]]]

\* Mutant: the keys are filed the wrong way round.
MarkedCrosswise(index, plan) ==
    [ents |-> index.ents \union {a.rel : a \in ToSet(plan)},
     rels |-> index.rels \union {a.ent : a \in ToSet(plan)}]

\* Only what was exported enters the index; a dry run leaves it alone.
Marked(index, plan) ==
    LET exported == {a \in ToSet(plan) : a.action = "exported"}
    IN [ents |-> index.ents \union {a.ent : a \in exported},
        rels |-> index.rels \union {a.rel : a \in exported}]

---------------------------------------------------------------------------
(* What is exportable *)

Observables ==
    {"artifact", "domain-name", "email-addr", "file", "ipv4-addr", "ipv6-addr",
     "url"}

\* The STIX id prefixes under which OpenCTI may know a candidate.
RefPrefixes(c) ==
    CASE c.type = "security-platform" -> {"identity", "security-platform"}
      [] c.type = "x-mitre-data-component" ->
            {"data-component", "x-mitre-data-component"}
      [] c.type = "x-mitre-data-source" -> {"data-source", "x-mitre-data-source"}
      [] c.type = "observable" -> {c.obs} \intersect Observables
      [] OTHER -> {c.type}

MatchOf(known, key) ==
    IF key \in DOMAIN known.matches THEN known.matches[key] ELSE None

\* A known entity is usable only through the object OpenCTI has for it.
UsableRef(c, known) ==
    LET ref == MatchOf(known, EntityKey(c))
    IN IF ref[1] \in RefPrefixes(c) THEN ref ELSE None

\* accepted_by_fingerprint: the candidate of an action is the last accepted
\* with its fingerprint.
Named(a, accepted) ==
    {accepted[i] : i \in
        {i \in DOMAIN accepted :
            /\ Fingerprint(accepted[i]) = a.fingerprint
            /\ \A j \in DOMAIN accepted :
                  Fingerprint(accepted[j]) = a.fingerprint => j <= i}}

\* What is known is exported again only by reference.
Annotated(a, accepted, known) ==
    {[c EXCEPT !.existing = IF a.ent \in known.ents THEN UsableRef(c, known) ELSE None] :
        c \in Named(a, accepted)}

IsExportable(a, accepted, known) ==
    /\ a.action = "exported"
    /\ a.rel \notin known.rels
    /\ a.ent \in known.ents =>
          \E c \in Named(a, accepted) : UsableRef(c, known) # None

Exportable(accepted, plan, known) ==
    IF Mode # "export" THEN <<>>
    ELSE [i \in {i \in DOMAIN plan : IsExportable(plan[i], accepted, known)} |->
             CHOOSE c \in Annotated(plan[i], accepted, known) : TRUE]
=============================================================================
