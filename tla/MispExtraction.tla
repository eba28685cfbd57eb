--------------------------- MODULE MispExtraction ---------------------------
(***************************************************************************)
(* What connectors/misp/processor.py extracts from one MISP event:         *)
(* galaxies, vulnerabilities, campaigns, victimology, event reports,       *)
(* sightings, object references, infrastructure and detection rules.       *)
(*                                                                         *)
(* An event has tags, info, clusters (of its galaxies), attributes,        *)
(* objects and reports.  Dates, comments and other properties that are     *)
(* copied along are left out.                                              *)
(***************************************************************************)
EXTENDS FeedTexts

CONSTANT
    Networks        \* the offline ip-asn table: text -> [number, name, uuid]

NoObject ==
    [name |-> "", uuid |-> "", attributes |-> <<>>, clusters |-> <<>>,
     references |-> <<>>, tags |-> <<>>]

---------------------------------------------------------------------------
(* What MISP may hand over *)

ClusterFields ==
    {"type", "words", "val", "uuid", "attack", "cve", "person", "mitigates", "meta"}

\* Entity type -> confidence of what the metadata of a cluster names.
MetaConfidence ==
    Table({
        <<{"target_sector", "target_country", "target_organization"}, 70>>,
        <<{"target_individual", "target_system", "security_platform", "channel",
           "target_region"}, 65>>,
        <<{"narrative", "event", "target_administrative_area", "target_city"}, 62>>,
        <<{"target_position"}, 60>> })

AreClusters(clusters) ==
    /\ IsList(clusters)
    /\ \A c \in ToSet(clusters) :
          /\ c = [f \in ClusterFields |-> c[f]] /\ IsList(c.meta)
          /\ \A said \in ToSet(c.meta) : said.ent \in DOMAIN MetaConfidence

AreAttributes(attributes) ==
    /\ IsList(attributes)
    /\ \A a \in ToSet(attributes) :
          /\ a.val \in DOMAIN Facts /\ IsTextList(a.tags) /\ AreClusters(a.clusters)
          /\ IsList(a.sightings) /\ \A s \in ToSet(a.sightings) : s.conf \in 0 .. 100

IsMispEvent(e) ==
    /\ IsList(e.tags) /\ \A t \in ToSet(e.tags) : t.text \in DOMAIN Facts
    /\ e.info \in DOMAIN Facts /\ IsList(e.reports)
    /\ AreClusters(e.clusters) /\ AreAttributes(e.attributes)
    /\ IsList(e.objects)
    /\ \A o \in ToSet(e.objects) :
          /\ AreAttributes(o.attributes) /\ AreClusters(o.clusters)
          /\ IsList(o.references) /\ IsTextList(o.tags)

---------------------------------------------------------------------------
(* Attributes *)

\* The attributes of the event, then those of its objects.
Sources(e) ==
    [i \in DOMAIN e.attributes |-> [attr |-> e.attributes[i], obj |-> NoObject]]
    \o Concat(e.objects, LAMBDA o :
          [i \in DOMAIN o.attributes |-> [attr |-> o.attributes[i], obj |-> o]])

Uuids(s) == {s.attr.uuid, s.obj.uuid} \ {""}

---------------------------------------------------------------------------
(* Galaxies, vulnerabilities, campaigns, victimology *)

NormalizedCluster(c) == [c EXCEPT !.val = IF @ = "" THEN c.uuid ELSE @]

Galaxies(e) ==
    LET found == e.clusters
                 \o Concat(e.attributes, LAMBDA a : a.clusters)
                 \o Concat(e.objects, LAMBDA o :
                       o.clusters \o Concat(o.attributes, LAMBDA a : a.clusters))
        usable == Selected(MapSeq(found, NormalizedCluster), LAMBDA c : c.val # "")
    IN Distinct(usable, LAMBDA c : <<c.type, c.val, c.uuid>>)

\* Identifiers in the tags, in the title and in every attribute.
Vulnerabilities(e) ==
    LET Found(t, uuids) ==
            MapSeq(Facts[t].cves, LAMBDA id : [val |-> id, uuids |-> uuids])
    IN Distinct(Concat(e.tags, LAMBDA t : Found(t.text, {}))
                \o Found(e.info, {})
                \o Concat(Sources(e), LAMBDA s : Found(s.attr.val, Uuids(s))),
                LAMBDA v : v.val)

CampaignTerms ==
    {"campaign", "campaign-name", "operation", "operation-name", "threat-campaign"}

\* A title is never taken for a campaign: the type or the relation says so, or
\* the object does and the category agrees.
IsCampaignSource(s) ==
    \/ s.attr.type \in CampaignTerms
    \/ s.attr.rel \in CampaignTerms
    \/ s.obj.name \in CampaignTerms /\ s.attr.cat \in {"attribution", "external analysis"}

IsSafeCampaign(t) ==
    Facts[t].shape \notin {"", "url", "tlp", "email", "cve", "attack", "domain", "number"}

Campaigns(e) ==
    LET Campaign(s) ==
            [val |-> FirstText(<<s.attr.val, s.attr.comment, s.attr.uuid>>),
             attribute |-> s.attr.uuid, object |-> s.obj.uuid, uuids |-> Uuids(s)]
        found == MapSeq(Selected(Sources(e), IsCampaignSource), Campaign)
    IN Distinct(Selected(found, LAMBDA c : IsSafeCampaign(c.val)),
                LAMBDA c : <<c.val, c.attribute, c.object>>)

VictimTypes ==
    Table({ <<{"target-org"}, [ent |-> "target_organization", conf |-> 68]>>,
            <<{"target-machine"}, [ent |-> "target_system", conf |-> 65]>>,
            <<{"target-location"}, [ent |-> "target_country", conf |-> 70]>> })

VictimType(a) == IF a.type \in DOMAIN VictimTypes THEN a.type ELSE a.rel

Victimology(e) ==
    LET Victim(s) ==
            [ent |-> VictimTypes[VictimType(s.attr)].ent,
             conf |-> VictimTypes[VictimType(s.attr)].conf,
             val |-> FirstText(<<s.attr.val, s.attr.comment>>),
             attribute |-> s.attr.uuid, object |-> s.obj.uuid, uuids |-> Uuids(s)]
        victims == Selected(Sources(e), LAMBDA s : VictimType(s.attr) \in DOMAIN VictimTypes)
    IN Distinct(Selected(MapSeq(victims, Victim), LAMBDA v : v.val # ""),
                LAMBDA v : <<v.ent, v.val, v.attribute, v.object>>)

---------------------------------------------------------------------------
(* Event reports, sightings, object references *)

EventReports(e) ==
    LET live == Selected(e.reports, LAMBDA r : ~r.deleted)
        titled == MapSeq(live, LAMBDA r :
                     [r EXCEPT !.title = FirstText(<<@, r.uuid, r.content>>)])
    IN Distinct(Selected(titled, LAMBDA r : r.title # ""),
                LAMBDA r : <<r.uuid, r.title, r.content>>)

Sightings(e) ==
    LET Seen(s) ==
            MapSeq(Selected(s.attr.sightings, LAMBDA g : ~g.deleted),
                   LAMBDA g : [val |-> FirstText(<<s.attr.val, g.val, g.uuid>>),
                               uuid |-> g.uuid, positive |-> g.positive,
                               conf |-> g.conf, of |-> s.attr.uuid])
    IN Distinct(Selected(Concat(Sources(e), Seen), LAMBDA g : g.val # ""),
                LAMBDA g : <<g.uuid, g.val>>)

ObjectReferences(e) ==
    LET References(o) ==
            MapSeq(Selected(o.references, LAMBDA r : ~r.deleted),
                   LAMBDA r : [r EXCEPT !.from = FirstText(<<@, o.uuid>>),
                                        !.rel = FirstText(<<@, "related-to">>)])
        found == Concat(e.objects, References)
    IN Distinct(Selected(found, LAMBDA r : "" \notin {r.from, r.to}),
                LAMBDA r : <<r.uuid, r.from, r.rel, r.to>>)

---------------------------------------------------------------------------
(* Infrastructure *)

InfrastructureObjects == {"asn", "domain-ip", "ip-port", "netblock"}

AttributeObjects ==
    "as" :> "asn" @@ "asn" :> "asn" @@ "domain|ip" :> "domain-ip" @@
    "hostname|port" :> "ip-port" @@ "ip-dst|port" :> "ip-port" @@
    "ip-src|port" :> "ip-port"

Observable(type, t, port) == [type |-> type, val |-> t, port |-> port]

\* What a text is observed as, given what its field prefers.
ObservableIn(t, preferred, port) ==
    LET shape == Facts[t].shape
        types == IF shape = "network" THEN <<Facts[t].version>>
                 ELSE IF preferred \in {"ip", "ip-network"}
                 THEN IF shape = "ip" THEN <<Facts[t].version>> ELSE <<>>
                 ELSE IF preferred = "url" \/ shape = "url" THEN <<"url">>
                 ELSE IF preferred = "domain-name" \/ ReadsAsDomain(t) THEN <<"domain-name">>
                 ELSE IF shape = "ip" THEN <<Facts[t].version>> ELSE <<>>
    IN MapSeq(types, LAMBDA type : Observable(type, t, port))

Relation(a) == FirstText(<<a.rel, a.type>>)

FieldPreference(a) ==
    LET kinds == {Relation(a), a.type}
        Is(names) == kinds \intersect names # {}
    IN IF Is({"domain", "hostname"}) \/ Relation(a) \in {"host", "fqdn"} THEN "domain-name"
       ELSE IF Is({"url"}) THEN "url"
       ELSE IF Relation(a) \in {"cidr", "netblock", "subnet", "subnet-announced", "ip-subnet"}
       THEN "ip-network"
       ELSE IF Is({"ip-src", "ip-dst"})
               \/ Relation(a) \in {"ip", "src-ip", "dst-ip", "first-ip", "last-ip"}
       THEN "ip" ELSE ""

ObservablesOf(a) ==
    LET parts == Facts[a.val].parts
        kinds == {a.type, Relation(a), a.type \o "|" \o Relation(a)}
        Pair(names) == Len(parts) >= 2 /\ kinds \intersect names # {}
        found == IF Pair({"domain|ip"})
                 THEN ObservableIn(parts[1], "domain-name", "")
                      \o ObservableIn(parts[2], "ip", "")
                 ELSE IF Pair({"hostname|port"})
                 THEN ObservableIn(parts[1], "domain-name", parts[2])
                 ELSE IF Pair({"ip-src|port", "ip-dst|port"})
                 THEN ObservableIn(parts[1], "ip", parts[2])
                 ELSE ObservableIn(a.val, FieldPreference(a), "")
    IN MapSeq(found, LAMBDA o : [type |-> o.type, val |-> o.val, port |-> o.port,
                                 uuid |-> a.uuid])

NamesAs(a) ==
    Relation(a) \in {"as-name", "asn-name", "description", "name", "org",
                     "organization", "organisation"}

\* A plain number is an AS number only where the field is about one.
NumbersAs(a) ==
    /\ Facts[a.val].asn # NoAs
    /\ \/ Facts[a.val].shape # "number"
       \/ {Relation(a), a.type} \intersect {"as", "asn"} # {}
       \/ Relation(a) \in {"number", "autonomous-system"}

\* The first attribute with an AS number, and the first other one with a name.
AsOf(attributes) ==
    LET numbered == Selected(attributes, NumbersAs)
        named == Selected(attributes, LAMBDA a : NamesAs(a) /\ a # numbered[1])
    IN IF numbered = <<>> THEN [number |-> NoAs, name |-> "", uuid |-> ""]
       ELSE [number |-> Facts[numbered[1].val].asn, uuid |-> numbered[1].uuid,
             name |-> IF named = <<>> THEN "" ELSE named[1].val]

IsAddress(o) == o.type \in {"ipv4-addr", "ipv6-addr"}

\* Named after the first domain or url, else the first observable.
InfrastructureName(o, observables) ==
    LET domains == Selected(observables, LAMBDA x : x.type \in {"domain-name", "url"})
    IN "MISP " \o o.name \o " "
       \o (IF domains # <<>> THEN domains[1].val ELSE observables[1].val)

\* Facts about one object: the infrastructure itself, what it consists of, and
\* the AS its addresses belong to, as told by the object or by the offline
\* table.  An object named "asn" has only its AS.
Fact(o, ent, type, val, rel, conf, anchor) ==
    [ent |-> ent, type |-> type, val |-> val, rel |-> rel, conf |-> conf,
     anchor |-> anchor, number |-> NoAs, obs |-> "", uuids |-> {o.uuid} \ {""}]

AsFact(o, as, rel, conf, anchor) ==
    [Fact(o, "autonomous_system", "autonomous-system", AsLabel(as), rel, conf, anchor)
        EXCEPT !.number = as.number, !.uuids = @ \union ({as.uuid} \ {""})]

ToldAs(o, as, rel, owner, addresses) ==
    IF as.number = NoAs THEN <<>>
    ELSE <<AsFact(o, as, rel, 72, owner)>>
         \o MapSeq(addresses, LAMBDA x :
               AsFact(o, as, "belongs-to", 72, <<"observable", x.val>>))

OfflineAs(o, owner, addresses) ==
    Concat(Selected(addresses, LAMBDA x : x.val \in DOMAIN Networks),
           LAMBDA x : <<AsFact(o, Networks[x.val], "belongs-to", 60, <<"observable", x.val>>)>>
                      \o IF owner = <<"", "">> THEN <<>>
                         ELSE <<AsFact(o, Networks[x.val], "consists-of", 60, owner)>>)

FactsOf(o, observables, as, owner) ==
    LET rel == IF owner = <<"", "">> THEN "related-to" ELSE "consists-of"
        Content(x) == [Fact(o, "observable", "observable", x.val, rel, 70, owner)
                          EXCEPT !.obs = x.type, !.uuids = @ \union ({x.uuid} \ {""})]
        addresses == Selected(observables, IsAddress)
    IN (IF owner = <<"", "">> THEN <<>>
        ELSE <<Fact(o, "infrastructure", "infrastructure", owner[2], "uses", 72, <<"", "">>)>>)
       \o MapSeq(observables, Content)
       \o ToldAs(o, as, rel, owner, addresses) \o OfflineAs(o, owner, addresses)

ObservedFacts(o, observables, as) ==
    FactsOf(o, observables, as,
            IF o.name = "asn" \/ observables = <<>> THEN <<"", "">>
            ELSE <<"infrastructure", InfrastructureName(o, observables)>>)

InfrastructureOf(o) ==
    LET attributes == Selected(o.attributes, LAMBDA a : ~a.deleted /\ a.val # "")
    IN ObservedFacts(o, Distinct(Concat(attributes, ObservablesOf),
                                 LAMBDA x : <<x.type, x.val, x.port>>), AsOf(attributes))

\* Mutant: every object names its AS its own way.
AsWritten(facts) == facts

\* One value for each AS: the longest.
OneNamePerAs(facts) ==
    LET Named(f) == Selected(facts, LAMBDA g : g.number = f.number)
        Longest(s) == s[CHOOSE i \in DOMAIN s : \A j \in DOMAIN s :
                           Len(s[j].val) < Len(s[i].val)
                           \/ (Len(s[j].val) = Len(s[i].val) /\ i <= j)]
    IN MapSeq(facts, LAMBDA f : IF f.number = NoAs THEN f
                                ELSE [f EXCEPT !.val = Longest(Named(f)).val])

\* What the objects of an event, and the attributes that stand for one, say.
InfrastructureFacts(e) ==
    LET pseudo == MapSeq(Selected(e.attributes, LAMBDA a :
                             ~a.deleted /\ a.type \in DOMAIN AttributeObjects),
                         LAMBDA a : [NoObject EXCEPT !.name = AttributeObjects[a.type],
                                                     !.uuid = a.uuid, !.attributes = <<a>>])
        objects == Selected(e.objects, LAMBDA o : o.name \in InfrastructureObjects)
    IN Concat(pseudo \o objects, InfrastructureOf)

Infrastructure(e) ==
    Distinct(OneNamePerAs(InfrastructureFacts(e)), LAMBDA f : <<f.ent, f.val, f.rel, f.anchor>>)

---------------------------------------------------------------------------
(* Detection rules *)

RuleTypes == {"yara", "sigma", "snort", "suricata", "pcre"}

RuleTypeOf(s) ==
    CASE s.attr.rel \in RuleTypes -> s.attr.rel
      [] s.attr.rel \notin RuleTypes /\ s.attr.type \notin RuleTypes -> ""
      [] s.obj.name \in RuleTypes /\ s.attr.rel \notin RuleTypes
         /\ s.attr.type \in RuleTypes -> s.obj.name
      [] OTHER -> s.attr.type

\* A sub-technique stands for its technique too.
NormalizedAttackIds(ids) ==
    LET parents == {SubSeq(ids[i], 1, 5) : i \in {i \in DOMAIN ids : Len(ids[i]) > 5}}
    IN Selected(ids, LAMBDA id : Len(id) > 5 \/ id \notin parents)

\* Techniques are taken from tags and from a Sigma rule's explicit mappings.
RuleAttackIds(type, content, tags) ==
    LET texts == tags \o IF type = "sigma" THEN Facts[content].mapped ELSE <<>>
    IN NormalizedAttackIds(Distinct(Concat(texts, LAMBDA t : Facts[t].attacks),
                                    LAMBDA id : id))

DetectionRules(e) ==
    LET eventTags == MapSeq(e.tags, LAMBDA t : t.text)
        Rule(s) ==
            [type |-> RuleTypeOf(s), content |-> s.attr.val,
             val |-> FirstText(<<s.attr.comment, Facts[s.attr.val].title, "detection rule">>),
             compat |-> RuleTypeOf(s) # "sigma" \/ Facts[s.attr.val].fits,
             attacks |-> RuleAttackIds(RuleTypeOf(s), s.attr.val,
                             s.attr.tags \o s.obj.tags \o eventTags),
             attribute |-> s.attr.uuid, uuids |-> Uuids(s)]
        usable == Selected(Sources(e), LAMBDA s :
                      RuleTypeOf(s) # "" /\ s.attr.val # "" /\ ~s.attr.deleted)
    IN Distinct(MapSeq(usable, Rule), LAMBDA r : <<r.attribute, r.type, r.content>>)
=============================================================================
