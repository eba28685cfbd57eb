--------------------------- MODULE MCGraphLookup ---------------------------
(* Plans of a few actions for GraphLookup: a group with curated names, two  *)
(* malware candidates with anchors, the same name as sector and company,    *)
(* an artifact, an attack pattern, a vulnerability, an AS.                  *)
EXTENDS GraphLookup

Cnd(type, ent, val) ==
    [type |-> type, ent |-> ent, val |-> val, name |-> val, names |-> <<val>>,
     aliased |-> FALSE, id |-> "", std |-> "", code |-> "", relType |-> "uses",
     anchor |-> <<"", "">>]
Coded(type, ent, val, code) == [Cnd(type, ent, val) EXCEPT !.code = code]
Act(n, c) == [key |-> <<c.type, c.val>>, rel |-> <<"action", n>>, cand |-> c]

Lazarus == Cnd("intrusion-set", "intrusion_set", "lazarus")
Rat(src) == [Cnd("malware", "malware", "rat") EXCEPT !.anchor = src]
Energy(ent) == Cnd("identity", ent, "energy")

MCPlans ==
    {<<Act(1, Rat(<<"intrusion-set", "zinc">>)), Act(2, Lazarus),
       Act(3, Rat(<<"threat-actor", "bear">>))>>,
     <<Act(1, [Rat(<<"", "">>) EXCEPT !.names = <<"rat", "r4t">>, !.aliased = TRUE]),
       Act(2, Rat(<<"attack-pattern", "t1">>)), Act(3, [Lazarus EXCEPT !.std = "is--1"])>>,
     <<Act(1, Energy("target_sector")), Act(2, Energy("target_organization")),
       Act(3, Coded("observable", "observable", "h", "artifact")),
       Act(4, Coded("attack-pattern", "attack_pattern", "p", "T1")),
       Act(5, Coded("vulnerability", "vulnerability", "v", "CVE-1")),
       Act(6, Coded("autonomous-system", "autonomous_system", "64500", "AS64500")),
       Act(7, Cnd("threat-actor", "threat_actor_individual", "bear")),
       Act(8, Cnd("note", "note", "n"))>>}
MCCodes == [end \in {<<"attack-pattern", "t1">>} |-> "T1"]

Obj(id, coll, name, terms) ==
    [id |-> id, coll |-> coll, std |-> "", name |-> name, terms |-> terms,
     words |-> terms, mitre |-> ""]
MCObjects ==
    {[Obj("o1", "intrusion-set", "lazarusgroup", {"lazarusgroup", "lazarus"})
        EXCEPT !.std = "is--1"],
     Obj("o2", "intrusion-set", "zinc", {"zinc", "lazarus"}),
     [Obj("o3", "malware", "rat", {"rat"}) EXCEPT !.words = {"rat", "r4t"}],
     Obj("o4", "malware", "loader", {"loader", "r4t", "rat"}),
     Obj("o5", "malware", "dropper", {"dropper", "r4t"}),
     Obj("o6", "sectors", "energy", {"energy"}),
     Obj("o7", "threatActorsGroup", "cub", {"cub", "bear"}),
     [Obj("o8", "attack-pattern", "phish", {"phish"}) EXCEPT !.mitre = "T1"]}
MCEdges == {<<"o3", "uses", "o2">>, <<"o8", "uses", "o3">>}
MCCurated ==
    {[type |-> "intrusion-set", preferred |-> "lazarusgroup",
      terms |-> {"lazarus", "lazarusgroup", "zinc"},
      search |-> <<"lazarus", "lazarusgroup", "zinc">>]}
=============================================================================
