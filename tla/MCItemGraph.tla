---------------------------- MODULE MCItemGraph ----------------------------
(* Small instances of ItemGraph: a few events with any choice of actors,    *)
(* campaigns, capabilities, victims and infrastructure, and a few pulses.   *)
EXTENDS ItemGraph

Text == [shape |-> "name", version |-> "", key |-> "other", parts |-> <<>>, cves |-> <<>>,
         attacks |-> <<>>, asn |-> NoAs, title |-> "", tlp |-> "", fits |-> TRUE, mapped |-> <<>>]
Shaped(s) == [Text EXCEPT !.shape = s]
Address == [Shaped("ip") EXCEPT !.version = "ipv4-addr"]
Number(n) == [Shaped("as") EXCEPT !.asn = n]
Bars(a, b) == [Text EXCEPT !.parts = <<a, b>>]

Names == {"lazarus", "bear", "dust storm", "rat", "r4t", "loader", "energy", "power", "acme",
          "server", "rule", "event", "sensor: traffic", "collection", "initial-access",
          "windows", "alert", "plan", "hq", "e1", "title", "u1", "u2", "opsec",
          "corp", "group lazarus", "MISP domain-ip bad.example", "MISP ip-port 1.1.1.1",
          "lazarus OTX observed infrastructure p1", "bear OTX observed infrastructure p1",
          "group lazarus OTX observed infrastructure p1", "channel", "clear", "amber", "red"}
MCFacts ==
    "" :> Shaped("") @@ "bad.example" :> Shaped("domain") @@ "8" :> Shaped("number") @@
    "1.1.1.1" :> Address @@ "AS8" :> Number(8) @@ "AS8 acme" :> Number(8) @@
    "AS8 corp" :> Number(8) @@
    "AS8 acme corp" :> Number(8) @@ "AS9" :> Number(9) @@
    "lazarus" :> [Text EXCEPT !.key = "lazarus"] @@
    "bad.example|1.1.1.1" :> Bars("bad.example", "1.1.1.1") @@
    "1.1.1.1|443" :> Bars("1.1.1.1", "443") @@
    "tlp:red" :> [Shaped("tlp") EXCEPT !.tlp = "red"] @@
    "sensor: traffic" :> Bars("sensor", "traffic") @@
    "CVE-1" :> [Shaped("cve") EXCEPT !.cves = <<"CVE-1">>] @@
    "T1059" :> [Shaped("attack") EXCEPT !.attacks = <<"T1059">>] @@
    "rule { }" :> [Text EXCEPT !.title = "rule"] @@
    "http://x" :> Shaped("url") @@
    [t \in Names |-> Text]
MCAliases == {<<"intrusion_set", "lazarus", "group lazarus">>, <<"malware", "r4t", "rat">>,
              <<"target_sector", "power", "energy">>}
MCNetworks == "1.1.1.1" :> [number |-> 8, name |-> "acme corp", uuid |-> "n1"]
MCTechniques ==
    "T1059" :> [url |-> "http://x", tactics |-> <<"initial-access">>,
                platforms |-> <<"windows">>, sources |-> <<"sensor: traffic">>,
                detection |-> <<"alert">>]

\* Every choice of the elements of a sequence, in their order.
Parts(s) == {SelectSeq(s, LAMBDA x : x \in chosen) : chosen \in SUBSET ToSet(s)}

Cluster(word, val) ==
    [type |-> word, words |-> {word}, val |-> val, uuid |-> "", attack |-> "", cve |-> "",
     person |-> FALSE, mitigates |-> "", meta |-> <<>>]
Meta(ent, val) == [ent |-> ent, val |-> val, targeted |-> TRUE]
Lazarus == [Cluster("intrusion-set", "lazarus") EXCEPT
               !.meta = <<Meta("target_sector", "power"), Meta("channel", "bad.example"),
                         Meta("channel", "channel")>>]
Bear == [Cluster("threat-actor", "bear") EXCEPT !.uuid = "u2"]
Person == [Cluster("threat-actor", "server") EXCEPT !.person = TRUE]
Rat == Cluster("malware", "r4t")
Loader == Cluster("tool", "loader")
Energy == Cluster("sector", "energy")
Shell == [Cluster("attack-pattern", "T1059") EXCEPT !.attack = "T1059"]
Plan == [Cluster("course-of-action", "plan") EXCEPT !.mitigates = "T1059"]

Tag(text, tlp, words, val) == [text |-> text, tlp |-> tlp, words |-> words, val |-> val]
AmberTag == Tag("amber", "amber", {}, "")
RedTag == Tag("tlp:red", "red", {}, "")
BearTag == Tag("opsec", "", {"threat-actor"}, "bear")

Attr(type, val) ==
    [type |-> type, rel |-> "", cat |-> "", val |-> val, comment |-> "", uuid |-> "u1",
     deleted |-> FALSE, tags |-> <<>>, sightings |-> <<>>, clusters |-> <<>>]
Storm == Attr("campaign-name", "dust storm")
Victim == Attr("target-org", "acme")
Machine == Attr("target-machine", "hq")
Pair == Attr("domain|ip", "bad.example|1.1.1.1")
Rule == [Attr("yara", "rule { }") EXCEPT !.tags = <<"T1059">>,
            !.sightings = <<[uuid |-> "g1", val |-> "", deleted |-> FALSE,
                             positive |-> TRUE, conf |-> 60]>>]
Hole == Attr("text", "CVE-1")

AsObject ==
    [NoObject EXCEPT !.name = "asn", !.uuid = "o1",
        !.attributes = <<[Attr("as", "AS8") EXCEPT !.rel = "asn"],
                         [Attr("text", "acme") EXCEPT !.rel = "description"]>>]
CorpObject ==
    [AsObject EXCEPT !.name = "domain-ip", !.uuid = "o3", !.attributes[2].val = "corp",
        !.attributes = Append(@, Attr("domain", "bad.example"))]
PortObject ==
    [NoObject EXCEPT !.name = "ip-port", !.uuid = "o2",
        !.attributes = <<[Attr("ip-dst|port", "1.1.1.1|443") EXCEPT !.rel = "ip-dst|port"]>>,
        !.references = <<[uuid |-> "f1", from |-> "", to |-> "u1", rel |-> "", deleted |-> FALSE],
                         [uuid |-> "f2", from |-> "o2", to |-> "u1", rel |-> "targets",
                          deleted |-> FALSE]>>]

Title == [uuid |-> "e1", title |-> "title", content |-> "", deleted |-> FALSE]

EventsOf(tags, clusters, attributes, objects) ==
    [tags : Parts(tags), info : {"event"}, clusters : Parts(clusters),
     attributes : Parts(attributes), objects : Parts(objects), reports : {<<Title>>}]
MCEvents ==
    EventsOf(<<BearTag, AmberTag, RedTag>>, <<Lazarus, Bear, Rat>>, <<Storm, Victim, Pair>>, <<>>)
    \union EventsOf(<<>>, <<Lazarus, Rat, Energy, Shell, Plan>>, <<Storm, Pair, Rule>>,
                    <<PortObject>>)
    \union EventsOf(<<>>, <<Person, Rat, Loader>>, <<Pair, Machine, Hole>>,
                    <<AsObject, CorpObject, PortObject>>)
NoEvents == {}

MCImpacts ==
    [c \in Categories |-> CASE c = "threat" -> 20 [] c \in {"sector", "location"} -> 10
                            [] c \in {"author", "graph_state"} -> 5 [] OTHER -> 15]
Signal(title, iocs, age) == [title |-> title, tag |-> "", iocs |-> iocs, age |-> age]
MCSignals ==
    {Signal("", 0, NoAge), Signal("", 0, 400), Signal("", 9, 1200), Signal("term", 10, 40),
     Signal("exact", 10, 2000), Signal("exact", 501, 29), Signal("exact", 500, 1200)}

Indicator(type, val, name) == [type |-> type, val |-> val, name |-> name, uuid |-> "i1"]
PulsesOf(adversaries, families) ==
    {[id |-> "p1", cves |-> <<"CVE-1">>, tlp |-> <<"clear">>, references |-> <<"http://x">>,
      indicators |-> ind,
      fields |-> "adversary" :> a @@ "malware_families" :> f @@ "attack_ids" :> <<"T1059">> @@
                 "industries" :> <<"power">> @@ "campaigns" :> <<"dust storm", "bad.example">> @@
                 "tags" :> t @@ "events" :> <<"event">> @@ "siems" :> <<"plan">> @@ "objectives" :> <<"alert">>] :
        a \in adversaries, f \in families, t \in {<<>>, <<"alert", "tlp:red">>},
        ind \in Parts(<<Indicator("as", "AS8", "acme"), Indicator("asn", "AS8", "acme corp"),
                          Indicator("ip", "1.1.1.1", ""), Indicator("yara", "rule { }", "rule")>>)}
MCPulses ==
    PulsesOf(Parts(<<"bear", "server">>), Parts(<<"rat", "bear">>))
AliasPulses == PulsesOf({<<"lazarus">>}, {<<"rat">>})

SafeEnts ==
    {"campaign", "course_of_action", "threat_actor", "intrusion_set", "infrastructure",
     "autonomous_system", "channel", "event", "narrative", "security_platform", "malware",
     "tool", "vulnerability", "observable",
     "attack_pattern", "detection_rule", "event_report", "attack_data_source", "sighting",
     "object_reference", "attack_data_component"} \union Victims
SafeTypes == {Targets[e].type : e \in SafeEnts}
=============================================================================
