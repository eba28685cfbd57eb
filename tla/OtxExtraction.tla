--------------------------- MODULE OtxExtraction ---------------------------
(***************************************************************************)
(* What connectors/otx/entity_extraction.py extracts from one OTX pulse,   *)
(* and the ATT&CK techniques core/mitre_attack.py knows by their number.   *)
(*                                                                         *)
(* A pulse has an id, fields (name -> texts; a text with commas is split), *)
(* cves, tlp and references (texts), and indicators with type, val, name   *)
(* and uuid.  The synonyms of a field's name are left out, and so are      *)
(* authors, votes, dates and what labels a kind of channel, narrative,     *)
(* event or platform.                                                      *)
(***************************************************************************)
EXTENDS FeedTexts

CONSTANT
    Techniques      \* the ATT&CK cache: number -> [url, tactics, platforms,
                    \* sources, detection]

ASSUME TechniquesAssumption ==
    \A id \in DOMAIN Techniques :
        LET t == Techniques[id]
        IN IsList(t.tactics) /\ IsList(t.platforms) /\ IsList(t.sources) /\ IsList(t.detection)

---------------------------------------------------------------------------
(* The fields of a pulse *)

\* What OTX may hand over.
IsPulse(p) ==
    /\ \A name \in DOMAIN p.fields : IsTextList(p.fields[name])
    /\ IsTextList(p.cves) /\ IsTextList(p.references) /\ IsList(p.tlp)
    /\ IsList(p.indicators) /\ \A i \in ToSet(p.indicators) : i.val \in DOMAIN Facts

Field(name, ent, conf, takes) == [name |-> name, ent |-> ent, conf |-> conf, takes |-> takes]

\* In this order, with what each field takes.
EntityFields ==
    << Field("adversary", "intrusion_set", 60, "any"),
       Field("campaigns", "campaign", 65, "safe"),
       Field("operations", "campaign", 65, "safe"),
       Field("infrastructures", "infrastructure", 65, "inferred"),
       Field("channels", "channel", 60, "safe"),
       Field("c2_channels", "channel", 65, "safe"),
       Field("communication_channels", "channel", 60, "safe"),
       Field("delivery_channels", "channel", 60, "safe"),
       Field("marketplaces", "channel", 60, "safe"),
       Field("malware_families", "malware", 55, "other"),
       Field("narratives", "narrative", 55, "safe"),
       Field("objectives", "narrative", 62, "safe"),
       Field("motivations", "narrative", 60, "safe"),
       Field("events", "event", 55, "safe"),
       Field("incidents", "event", 62, "safe"),
       Field("security_platforms", "security_platform", 62, "safe"),
       Field("siems", "security_platform", 65, "safe"),
       Field("edrs", "security_platform", 65, "safe"),
       Field("ndrs", "security_platform", 65, "safe"),
       Field("xdrs", "security_platform", 65, "safe"),
       Field("scanners", "security_platform", 60, "safe"),
       Field("attack_ids", "attack_pattern", 70, "attacks"),
       Field("vulnerabilities", "vulnerability", 75, "cves"),
       Field("industries", "target_sector", 50, "any"),
       Field("targeted_regions", "target_region", 50, "safe"),
       Field("targeted_administrative_areas", "target_administrative_area", 50, "safe"),
       Field("targeted_cities", "target_city", 50, "safe"),
       Field("targeted_countries", "target_country", 50, "any"),
       Field("targeted_positions", "target_position", 50, "positions"),
       Field("targeted_systems", "target_system", 60, "safe"),
       Field("tags", "tag", 35, "any") >>

ActorAnchored ==
    {"attack_pattern", "campaign", "channel", "event", "infrastructure", "malware",
     "narrative", "security_platform", "target_country", "target_region",
     "target_administrative_area", "target_city", "target_position",
     "target_sector", "target_system"}

IsSafeText(t) ==
    Facts[t].shape \notin {"", "reserved", "url", "tlp", "email", "account", "attack",
                           "cve", "domain", "number"}

TextsOf(p, name) ==
    Distinct(Selected(IF name \in DOMAIN p.fields THEN p.fields[name] ELSE <<>>,
                       LAMBDA t : t # ""), LAMBDA t : t)

\* A family named like the adversary is noise.
OtherFamilies(p) ==
    Selected(TextsOf(p, "malware_families"), LAMBDA t :
        Facts[t].key \notin {""} \union {Facts[a].key : a \in ToSet(TextsOf(p, "adversary"))})

AttackIds(p) ==
    Distinct(Concat(TextsOf(p, "attack_ids"), LAMBDA t : Facts[t].attacks), LAMBDA id : id)

CveIds(p) ==
    LET named == Selected(p.indicators, LAMBDA i : i.type \in {"cve", "vulnerability"})
        texts == p.cves \o TextsOf(p, "tags") \o p.references \o MapSeq(named, LAMBDA i : i.val)
    IN Distinct(Concat(texts, LAMBDA t : Facts[t].cves), LAMBDA id : id)

---------------------------------------------------------------------------
(* The indicators of a pulse *)

ObservableTypes ==
    LET All(types, as) == [t \in types |-> as] IN
    All({"ipv4", "ip", "cidr", "netblock", "network"}, "ipv4-addr") @@
    All({"ipv6", "ipv6-cidr"}, "ipv6-addr") @@
    All({"domain", "hostname"}, "domain-name") @@
    All({"url", "uri"}, "url") @@ All({"email"}, "email-addr") @@
    All({"filehash-md5", "filehash-sha1", "filehash-sha256"}, "file")

\* An address is what it is, whatever its indicator says.
ObservedType(i) ==
    LET named == ObservableTypes[i.type]
    IN IF named \in {"ipv4-addr", "ipv6-addr"} /\ Facts[i.val].shape \in {"ip", "network"}
       THEN Facts[i.val].version ELSE named

OtxObservables(p) ==
    LET usable == Selected(p.indicators, LAMBDA i :
                      i.type \in DOMAIN ObservableTypes /\ i.val # "")
        Hash(i) == IF ObservableTypes[i.type] = "file" THEN i.type ELSE ""
    IN Distinct(MapSeq(usable, LAMBDA i : [type |-> ObservedType(i), val |-> i.val,
                                           hash |-> Hash(i), uuid |-> {i.uuid} \ {""}]),
                LAMBDA o : <<o.type, o.hash, o.val>>)

IsNetworkObservable(o) == o.type \in {"domain-name", "ipv4-addr", "ipv6-addr", "url"}

\* One AS for each number, with the longest label.
AutonomousSystems(p) ==
    LET usable == Selected(p.indicators, LAMBDA i :
                      Facts[i.val].asn # NoAs
                      /\ (i.type \in {"as", "asn", "autonomous-system"}
                          \/ Facts[i.val].shape = "as"))
        found == MapSeq(usable, LAMBDA i :
                    [number |-> Facts[i.val].asn, uuid |-> {i.uuid} \ {""},
                     val |-> AsLabel([number |-> Facts[i.val].asn, name |-> i.name])])
        Best(n) == LET same == Selected(found, LAMBDA x : x.number = n)
                   IN same[CHOOSE i \in DOMAIN same : \A j \in DOMAIN same :
                              Len(same[j].val) < Len(same[i].val)
                              \/ (Len(same[j].val) = Len(same[i].val) /\ i <= j)]
    IN MapSeq(Distinct(found, LAMBDA x : x.number), LAMBDA x : Best(x.number))

YaraRules(p) ==
    LET rules == Selected(p.indicators, LAMBDA i : i.type = "yara" /\ i.val # "")
    IN MapSeq(Distinct(rules, LAMBDA i : <<i.uuid, i.val>>), LAMBDA i :
           [val |-> FirstText(<<i.name, i.uuid, "yara detection rule">>),
            uuid |-> {i.uuid} \ {""}])

---------------------------------------------------------------------------
(* Records *)

\* The one adversary of the pulse, or NoAdversary.
NoAdversary == ""

SoleAdversary(p) ==
    IF Len(TextsOf(p, "adversary")) = 1 THEN TextsOf(p, "adversary")[1] ELSE NoAdversary

\* Inferred from the observables of a pulse with one adversary.
InferredInfrastructure(p) ==
    LET network == Selected(OtxObservables(p), IsNetworkObservable)
    IN IF SoleAdversary(p) = NoAdversary \/ (network = <<>> /\ AutonomousSystems(p) = <<>>)
       THEN <<>> ELSE <<SoleAdversary(p) \o " OTX observed infrastructure " \o p.id>>

ValuesOf(p, f) ==
    CASE f.takes = "safe" -> Selected(TextsOf(p, f.name), IsSafeText)
      [] f.takes = "inferred" -> InferredInfrastructure(p)
      [] f.takes = "other" -> OtherFamilies(p)
      [] f.takes = "attacks" -> AttackIds(p)
      [] f.takes = "cves" -> CveIds(p)
      [] f.takes = "positions" ->
            Selected(TextsOf(p, f.name), LAMBDA t : Facts[t].shape = "position")
      [] OTHER -> TextsOf(p, f.name)

\* "given" is the other end of the relationship, "targeted" a field named after
\* what it targets, "inference" says why a record is related to infrastructure.
OtxRecord(ent, val, conf) ==
    [ent |-> ent, val |-> val, conf |-> conf, rel |-> "", given |-> <<"", "">>,
     targeted |-> FALSE, obs |-> "", hash |-> FALSE, pattern |-> "", uuid |-> {},
     place |-> ent = "target_position", inference |-> ""]

EntityRecords(p) ==
    LET Given(ent) == IF ent \in ActorAnchored /\ SoleAdversary(p) # NoAdversary
                      THEN <<"intrusion-set", SoleAdversary(p)>> ELSE <<"", "">>
        Of(f) == MapSeq(ValuesOf(p, f), LAMBDA v :
                     [OtxRecord(f.ent, v, f.conf) EXCEPT !.given = Given(f.ent),
                                                         !.targeted = TRUE])
    IN Concat(EntityFields, Of)

InInfrastructure(name, r, rel, inference) ==
    IF name = "" THEN r
    ELSE [r EXCEPT !.rel = rel, !.given = <<"infrastructure", name>>, !.inference = inference]

TechniqueRecord(name, id) ==
    InInfrastructure(name, OtxRecord("attack_pattern", id, 70), "related-to",
                     "otx-infrastructure-ttp")

AsRecord(name, as) ==
    InInfrastructure(name, [OtxRecord("autonomous_system", as.val, 70) EXCEPT
                               !.rel = "related-to", !.uuid = as.uuid],
                     "consists-of", "otx-asn")

ObservableRecord(name, o) ==
    InInfrastructure(IF IsNetworkObservable(o) THEN name ELSE "",
                     [OtxRecord("observable", o.val, 65) EXCEPT
                         !.obs = o.type, !.hash = o.hash # "", !.uuid = o.uuid],
                     "consists-of", "otx-network-observable")

\* The records of a pulse, given the name of its infrastructure.
RecordsAround(p, name) ==
    EntityRecords(p)
    \o (IF name = "" THEN <<>> ELSE MapSeq(AttackIds(p), LAMBDA id : TechniqueRecord(name, id)))
    \o MapSeq(AutonomousSystems(p), LAMBDA as : AsRecord(name, as))
    \o MapSeq(p.tlp, LAMBDA t : OtxRecord("marking", t, 80))
    \o MapSeq(p.references, LAMBDA t : OtxRecord("external_reference", t, 50))
    \o MapSeq(OtxObservables(p), LAMBDA o : ObservableRecord(name, o))
    \o MapSeq(YaraRules(p), LAMBDA r :
          [OtxRecord("detection_rule", r.val, 70) EXCEPT !.pattern = "yara", !.uuid = r.uuid])

OtxRecords(p) == RecordsAround(p, FirstText(InferredInfrastructure(p)))
=============================================================================
