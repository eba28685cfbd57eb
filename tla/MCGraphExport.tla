--------------------------- MODULE MCGraphExport ---------------------------
(* Small instances of GraphExport: two items that share entities. *)
EXTENDS GraphExport

CONSTANTS x, y

MCPlatformPrefix ==
    [t \in {"intrusion-set", "malware", "identity", "infrastructure", "indicator",
            "location", "relationship", "sighting", "tool", "security-platform"} |->
        CASE t = "security-platform" -> "identity"
          [] OTHER -> t]

Rec(i, ent, type, val, rel, anchor) ==
    [source |-> "misp", item |-> i, ent |-> ent, type |-> type, val |-> val,
     rel |-> rel, conf |-> 80, rconf |-> 80, prov |-> TRUE, validate |-> FALSE,
     victim |-> FALSE, anchor |-> anchor, parent |-> {}, number |-> TRUE,
     place |-> FALSE, obs |-> "", hash |-> FALSE,
     pattern |-> "", compat |-> TRUE, wellformed |-> TRUE, described |-> FALSE,
     uuid |-> {}, from |-> "", to |-> "", positive |-> TRUE, existing |-> None]

Actor(i) == [Rec(i, "intrusion_set", "intrusion-set", "apt", "related-to", None)
               EXCEPT !.uuid = {"u1"}]
Malware(i) == [Rec(i, "malware", "malware", "rat", "uses", <<"", "apt">>)
                 EXCEPT !.parent = {"intrusion-set", "malware"}, !.uuid = {"u2"}]
Victim(i) == [Rec(i, "target_sector", "identity", "energy", "targets",
                  <<"infrastructure", "c2">>) EXCEPT !.validate = TRUE]
Weak(i) == [Rec(i, "tool", "tool", "t", "uses", None) EXCEPT !.rconf = 10]
Link(i) == [Rec(i, "misp_object_reference", "relationship", "u1-u2", "uses", None)
              EXCEPT !.from = "u1", !.to = "u2"]
Rule(i) == [Rec(i, "detection_rule", "indicator", "r", "detects", <<"malware", "rat">>)
              EXCEPT !.pattern = "sigma"]
Platform(i) == Rec(i, "security_platform", "security-platform", "edr",
                   "related-to", None)
\* A place the builder can make nothing of.
Nowhere(i) == Rec(i, "target_city", "location", "n", "targets", None)
Seen(i) == [Rec(i, "sighting", "sighting", "r", "sighted", None)
              EXCEPT !.to = "u2"]

EvidenceFull ==
    (x :> <<Actor(x), Malware(x), Victim(x), Link(x), Nowhere(x)>>) @@
    (y :> <<Malware(y), Rule(y), Platform(y), Weak(y), Seen(y)>>)
EvidenceBundled ==
    (x :> <<Actor(x), Malware(x), Link(x)>>) @@
    (y :> <<Malware(y)>>)
MCIndicators == (x :> {"8.8.8.8"}) @@ (y :> {})
Actors == {<<"intrusion-set", "apt">>}
NoKeys == {}

Installed(i, l, f, e) ==
    [index |-> i, lookup |-> l, faults |-> f, edits |-> e]
\* Everything may fail where both sources are asked, and with each alone.
MCDeployments ==
    {Installed(TRUE, TRUE, 2, 1), Installed(TRUE, FALSE, 1, 0), Installed(FALSE, TRUE, 1, 1)}
Uncertain == {Installed(TRUE, TRUE, 1, 0)}

\* The fairness of FairSpec, of the installations whose deliveries are awaited.
MCFairSpec == Spec /\ WF_vars(deployment.lookup /\ ~deployment.index /\ Step)
Victims == {"target_sector", "target_country"}
SafeEnts == {"intrusion_set", "malware", "target_sector", "detection_rule",
             "misp_object_reference", "security_platform", "sighting", "target_city",
             "tool"}
SafeTypes == DOMAIN MCPlatformPrefix
=============================================================================
