---------------------------- MODULE GraphExport ----------------------------
(***************************************************************************)
(* The graph export of one item after the other: what is known (the local  *)
(* index file and, if configured, OpenCTI), the import of the bundle and   *)
(* the native objects (exporters/opencti.py), the descriptions of existing *)
(* objects, and the files written afterwards (connectors/misp/processor.py *)
(* from ingest_candidate on; the OTX processor does the same).             *)
(*                                                                         *)
(* OpenCTI and its analysts are external: nodes[k] is the object OpenCTI   *)
(* has for the entity key k, text[k] who wrote its description, authored   *)
(* the keys whose object it got from us.  An import is an update: a        *)
(* described object that is sent again may get our description.            *)
(* delivered and lost are history: what OpenCTI ever took (sent: what was  *)
(* exportable in an import it confirmed), and whose lookup failed in this  *)
(* export.                                                                 *)
(***************************************************************************)
EXTENDS StixBundle

CONSTANTS
    Items, NoItem,
    Evidence,         \* Evidence[i]: the records of the item, in order
    Indicators,       \* Indicators[i]: the values of its indicators
    Deployments,      \* what an installation may have switched on, records of
                      \*   index   graph_dedup_state_file is configured
                      \*   lookup  opencti_graph_lookup is on
                      \*   faults  bound: failures and crashes
                      \*   edits   bound: what analysts do
    Canonical,        \* entity keys OpenCTI holds from the beginning
    PlatformPrefix,   \* the type of the standard id OpenCTI gives to a type
    KeepsIds          \* OpenCTI keeps the id of an object it is sent

VARIABLES
    deployment,       \* the installation, fixed from the beginning
    pc, item,
    cands,            \* the exportable candidates of the item
    todo,             \* native candidates not handled, then keys to describe
    done,             \* items in the state file
    index,            \* the local index file
    nodes, text, authored, delivered,
    matched, lost,    \* keys OpenCTI was found to have; keys not answered
    read,             \* the object whose description was read as empty
    audited,          \* the objects the audited plan creates
    faults, edits

local == <<pc, item, cands, todo, matched, lost, read, audited>>
files == <<done, index>>
platform == <<nodes, text, authored, delivered>>
bounds == <<faults, edits>>
vars == <<deployment, local, files, platform, bounds>>

Accepts == [i \in Items |-> Accepted(Evidence[i])]
AcceptedOf(i) == Accepts[i]
Fresh == [i \in Items |-> PlanActions(Accepts[i], NothingKnown)]
AllRecords == UNION {ToSet(Evidence[i]) : i \in Items}
Keys == {EntityKey(c) : c \in AllRecords}
TypeOf(key) == key[1]

\* The fields of a record of evidence.
RecordFields ==
    {"source", "item", "ent", "type", "val", "rel", "conf", "rconf", "prov", "validate",
     "victim", "anchor", "parent", "number", "place", "obs", "hash", "pattern", "compat",
     "wellformed", "described", "uuid", "from", "to", "positive", "existing"}

ASSUME ExportAssumption ==
    /\ \A i \in Items : /\ Evidence[i] \in Seq(ToSet(Evidence[i]))
                         /\ \A r \in ToSet(Evidence[i]) : r = [f \in RecordFields |-> r[f]]
    /\ \A d \in Deployments : d.index \in BOOLEAN /\ d.lookup \in BOOLEAN
                              /\ d.faults \in Nat /\ d.edits \in Nat
    /\ KeepsIds \in BOOLEAN
    /\ Canonical \subseteq Keys

\* The reference OpenCTI has for a key: the standard id it computed.
StandardRef(key) == <<PlatformPrefix[TypeOf(key)], <<key[2], "">>, "opencti">>

NoNode == None
Present(key) == nodes[key] # NoNode

Idle ==
    /\ pc = "idle" /\ item = NoItem /\ cands = <<>> /\ todo = {}
    /\ matched = {} /\ lost = {} /\ read = None /\ audited = {}

Init ==
    /\ deployment \in Deployments
    /\ Idle
    /\ done = {} /\ index = EmptyIndex
    /\ nodes = [k \in Keys |-> IF k \in Canonical THEN StandardRef(k) ELSE NoNode]
    /\ text = [k \in Keys |-> "none"] /\ authored = {}
    /\ delivered = [ents |-> {}, rels |-> {}, sent |-> {}]
    /\ faults = 0 /\ edits = 0

Clear ==
    /\ pc' = "idle" /\ item' = NoItem /\ cands' = <<>> /\ todo' = {}
    /\ matched' = {} /\ lost' = {} /\ read' = None /\ audited' = {}

Fault == faults < deployment.faults /\ faults' = faults + 1 /\ UNCHANGED edits

---------------------------------------------------------------------------
(* What is known *)

\* OpenCTI answers with the objects it has, except where the query fails.
Matches(plan, failing) ==
    [key \in {key \in {a.ent : a \in ToSet(plan)} \ failing : Present(key)} |-> nodes[key]]

\* No relationship is ever among what OpenCTI knows: see GraphLookup.
LookedUp(plan, failing) ==
    LET found == Matches(plan, failing)
    IN IF deployment.lookup
       THEN [ents |-> DOMAIN found, rels |-> {}, matches |-> found]
       ELSE NothingKnown

Known(plan, failing) ==
    IF deployment.index THEN Merged(LocallyKnown(index, plan), LookedUp(plan, failing))
    ELSE LookedUp(plan, failing)

PlanOf(i, failing) ==
    PlanActions(AcceptedOf(i), Known(Fresh[i], failing))

\* An item that is not in the state file is found again and exported.
Begin(i) ==
    /\ pc = "idle" /\ i \notin done
    /\ pc' = "import" /\ item' = i
    /\ \E failing \in SUBSET {EntityKey(c) : c \in ToSet(AcceptedOf(i))} :
          /\ lost' = failing
          /\ IF failing = {} THEN UNCHANGED bounds ELSE deployment.lookup /\ Fault
          /\ \E known \in {Known(Fresh[i], failing)} :
             \E plan \in {PlanActions(AcceptedOf(i), known)} :
                cands' = Exportable(AcceptedOf(i), plan, known)
          /\ matched' =
                IF deployment.lookup
                THEN {EntityKey(c) : c \in {c \in ToSet(AcceptedOf(i)) :
                        Present(EntityKey(c)) /\ EntityKey(c) \notin failing}}
                ELSE {}
    /\ UNCHANGED <<todo, read, audited, files, platform>>

---------------------------------------------------------------------------
(* The bundle *)

BundleOf == Bundle(cands, Indicators[item])

\* Our description in the place of what was there.
Describe(over) == [k \in Keys |-> IF k \in over THEN "connector" ELSE text[k]]

\* What a part of the bundle leaves behind: the objects it carries for the
\* candidates taken, new ones with our author and description, and the
\* relationships whose candidate gave an edge.  Whether the description of an
\* object that is there gives way to ours is up to OpenCTI.
Takes(taken, whole) ==
    LET sent == taken \intersect Carried(cands)
        ents == {EntityKey(cands[j]) : j \in sent}
        new == {k \in ents : ~Present(k)}
        described == {EntityKey(cands[j]) : j \in {j \in sent : HasText(cands[j])}}
        rels == {RelationshipKey(cands[j]) : j \in
                   {j \in taken :
                      CandidateEdges(cands[j], cands, Indicators[item]) # {}}}
        RefFor(k) == IF KeepsIds
                     THEN ObjectRef(cands[CHOOSE j \in Carried(cands) :
                                             EntityKey(cands[j]) = k])
                     ELSE StandardRef(k)
    IN /\ nodes' = [k \in Keys |-> IF k \in new THEN RefFor(k) ELSE nodes[k]]
       /\ authored' = authored \union new
       /\ \E replaced \in SUBSET (described \ new) :
             text' = Describe(replaced \union (described \intersect new))
       /\ delivered' = [ents |-> delivered.ents \union ents,
                        rels |-> delivered.rels \union rels,
                        sent |-> IF whole
                                 THEN delivered.sent \union
                                      {RelationshipKey(c) : c \in ToSet(cands)}
                                 ELSE delivered.sent]

NativeKind(c) ==
    CASE c.type = "security-platform" /\ c.ent = "security_platform" -> "platform"
      [] c.type = "threat-actor" /\ c.ent = "threat_actor_individual" -> "individual"
      [] c.type = "indicator" /\ c.ent = "detection_rule"
         /\ c.compat /\ c.pattern = "sigma" -> "rule"
      [] OTHER -> "none"

\* OpenCTI takes a relationship only between objects it has by then.
RefsStand ==
    \A c \in ToSet(cands) : ExistingRef(c) # None => Present(EntityKey(c))

Import ==
    /\ pc = "import" /\ RefsStand
    /\ Takes(DOMAIN cands, TRUE)
    /\ pc' = "native"
    /\ todo' = {c \in ToSet(cands) : NativeKind(c) # "none"}
    /\ UNCHANGED <<item, cands, matched, lost, read, audited, files, bounds>>

\* OpenCTI takes a part of the bundle and reports or records errors for the
\* rest: send_bundle raises, and the item stays unprocessed.
Reject ==
    /\ pc = "import"
    /\ IF RefsStand THEN Fault ELSE UNCHANGED bounds
    /\ \E taken \in SUBSET (DOMAIN cands) : Takes(taken, FALSE)
    /\ Clear
    /\ UNCHANGED files

---------------------------------------------------------------------------
(* Native objects and descriptions *)

\* The object was found by the plan or is found now: it is linked to the
\* report.
LinkNative(c) ==
    Present(EntityKey(c)) /\ UNCHANGED <<nodes, text, authored, bounds>>

\* Of what is created only rules are given an author, if it can be found.
AddNative(c) ==
    LET k == EntityKey(c) IN
    /\ c.existing = None /\ ~Present(k)
    /\ nodes' = [nodes EXCEPT ![k] = StandardRef(k)]
    /\ text' = Describe({k})
    /\ \/ /\ authored' = authored \union (IF NativeKind(c) = "rule" THEN {k} ELSE {})
          /\ UNCHANGED bounds
       \/ UNCHANGED authored /\ Fault

\* The search fails, and what is there is added again as an update.
AddAgain(c) ==
    /\ c.existing = None /\ Present(EntityKey(c)) /\ Fault
    /\ text' = Describe({EntityKey(c)})
    /\ UNCHANGED <<nodes, authored>>

\* An answer without object and an exception are passed over, and so is what
\* was found and is gone.
PassOver(c) ==
    /\ (c.existing # None /\ ~Present(EntityKey(c)) /\ UNCHANGED bounds) \/ Fault
    /\ UNCHANGED <<nodes, text, authored, delivered>>

CreateNative ==
    /\ pc = "native"
    /\ \E c \in todo :
          /\ todo' = todo \ {c}
          /\ \/ /\ LinkNative(c) \/ AddNative(c) \/ AddAgain(c)
                /\ delivered' = [delivered EXCEPT
                                    !.ents = @ \union {EntityKey(c)},
                                    !.rels = @ \union {RelationshipKey(c)}]
             \/ PassOver(c)
    /\ UNCHANGED <<pc, item, cands, matched, lost, read, audited, files>>

\* Then the descriptions of what was found.
ToDescribe ==
    {k \in matched : \E c \in ToSet(cands) :
        EntityKey(c) = k /\ ExistingRef(c) # None /\ Builds(c) /\ HasText(c)}

EndNative ==
    /\ pc = "native" /\ todo = {}
    /\ pc' = "describe" /\ todo' = ToDescribe
    /\ UNCHANGED <<item, cands, matched, lost, read, audited, files, platform, bounds>>

\* Its id is the one we compute, or its author is ours.
Ours(k) ==
    k \in authored \/ \E c \in ToSet(cands) : EntityKey(c) = k /\ Hydrates(c)

\* Mutant: whoever the object belongs to.
ReadAnyText ==
    /\ pc = "describe"
    /\ \E k \in todo :
          /\ todo' = todo \ {k}
          /\ IF Present(k) /\ text[k] = "none"
             THEN pc' = "patch" /\ read' = k ELSE UNCHANGED <<pc, read>>
    /\ UNCHANGED <<item, cands, matched, lost, audited, files, platform, bounds>>

ReadText ==
    /\ pc = "describe"
    /\ \E k \in todo :
          /\ todo' = todo \ {k}
          /\ IF Present(k) /\ text[k] = "none" /\ Ours(k)
             THEN pc' = "patch" /\ read' = k ELSE UNCHANGED <<pc, read>>
    /\ UNCHANGED <<item, cands, matched, lost, audited, files, platform, bounds>>

\* Whatever was written or deleted since it was read.
PatchText ==
    /\ pc = "patch"
    /\ text' = IF Present(read) THEN Describe({read}) ELSE text
    /\ pc' = "describe" /\ read' = None
    /\ UNCHANGED <<item, cands, todo, matched, lost, audited, files, nodes, authored,
                   delivered, bounds>>

EndDescribe ==
    /\ pc = "describe" /\ todo = {}
    /\ pc' = "save"
    /\ UNCHANGED <<item, cands, todo, matched, lost, read, audited, files, platform, bounds>>

---------------------------------------------------------------------------
(* After the export *)

SaveState ==
    /\ pc = "save"
    /\ done' = done \union {item} /\ pc' = "audit"
    /\ UNCHANGED <<item, cands, todo, matched, lost, read, audited, index, platform, bounds>>

NewEnts(plan) == {a.ent : a \in {a \in ToSet(plan) :
                                    a.action = "exported" /\ ~a.entDuplicate}}

\* record_decision computes a plan of its own, from what is known by now.
Audit ==
    /\ pc = "audit"
    /\ audited' = NewEnts(PlanOf(item, {})) /\ pc' = "mark"
    /\ UNCHANGED <<item, cands, todo, matched, lost, read, files, platform, bounds>>

\* Mutant: everything the policy accepts is marked.
MarkIndexAccepted ==
    /\ pc = "mark"
    /\ index' = Marked(index, PlanActions(AcceptedOf(item), NothingKnown))
    /\ Clear
    /\ UNCHANGED <<done, platform, bounds>>

\* The plan of what was exported enters the index, computed without it.
MarkIndex ==
    /\ pc = "mark"
    /\ index' = IF deployment.index THEN Marked(index, PlanActions(cands, NothingKnown))
                ELSE index
    /\ Clear
    /\ UNCHANGED <<done, platform, bounds>>

MarkFails == pc = "mark" /\ Fault /\ Clear /\ UNCHANGED <<files, platform>>

Crash == pc # "idle" /\ Fault /\ Clear /\ UNCHANGED <<files, platform>>

\* A state file that cannot be read starts again from nothing.
LoseState ==
    /\ pc = "idle" /\ done # {} /\ Fault
    /\ done' = {}
    /\ UNCHANGED <<local, index, platform>>

\* Analysts write or empty a description and delete objects at any time.
Edit ==
    /\ edits < deployment.edits /\ edits' = edits + 1
    /\ \E k \in Keys :
          /\ Present(k)
          /\ \/ /\ \E t \in {"none", "analyst"} : text' = [text EXCEPT ![k] = t]
                /\ UNCHANGED <<nodes, authored>>
             \/ /\ nodes' = [nodes EXCEPT ![k] = NoNode]
                /\ text' = [text EXCEPT ![k] = "none"]
                /\ authored' = authored \ {k}
    /\ UNCHANGED <<local, files, delivered, faults>>

Step ==
    /\ \/ \E i \in Items : Begin(i)
       \/ Import \/ (Reject /\ UNCHANGED bounds)
       \/ CreateNative \/ EndNative
       \/ ReadText \/ PatchText \/ EndDescribe
       \/ SaveState \/ Audit \/ MarkIndex
    /\ UNCHANGED deployment

Disturb ==
    /\ Reject \/ MarkFails \/ Crash \/ LoseState \/ Edit
    /\ UNCHANGED deployment

Next == Step \/ Disturb

Spec == Init /\ [][Next]_vars

\* The connector goes on; faults and analysts owe nothing.
FairSpec == Spec /\ WF_vars(Step)

---------------------------------------------------------------------------
(* Properties *)

\* What OpenCTI may have for a key: nothing, its own object, or one of ours.
PossibleRefs ==
    [k \in Keys |-> {NoNode, StandardRef(k)} \union
                     {ObjectRef(r) : r \in {r \in AllRecords : EntityKey(r) = k /\ Builds(r)}}]

\* TypeOK: the types of the variables.
TypeOK ==
    /\ pc \in {"idle", "import", "native", "describe", "patch", "save", "audit", "mark"}
    /\ item \in Items \union {NoItem}
    /\ done \subseteq Items
    /\ index.ents \subseteq Keys
    /\ DOMAIN nodes = Keys /\ \A k \in Keys : nodes[k] \in PossibleRefs[k]
    /\ text \in [Keys -> {"none", "connector", "analyst"}]
    /\ authored \subseteq Keys
    /\ delivered.ents \subseteq Keys
    /\ matched \subseteq Keys /\ lost \subseteq Keys
    /\ faults \in 0 .. deployment.faults /\ edits \in 0 .. deployment.edits

\* A bundle is closed: whatever was left out of it by the policy, by what is
\* known or by the builder, no relationship and no report names an object
\* that is neither in it nor one OpenCTI was found to have.
BundleIsClosed ==
    pc = "import" =>
        LET b == BundleOf
            ends == b.objects \union {Author, Report}
                    \union ({ExistingRef(c) : c \in ToSet(cands)} \ {None})
        IN /\ b.refs \subseteq ends
           /\ \A e \in b.edges : e.src \in ends /\ e.tgt \in ends /\ e.src # e.tgt

\* An entity that OpenCTI was found to have is referenced, never built again
\* under an id of our own: an object is the one that is there, or stands for
\* an entity OpenCTI was not found to have.  Not so the parts of ATT&CK whose
\* prefix in OpenCTI the plan takes and the builder does not.
Renamed == {"x-mitre-data-component", "x-mitre-data-source"}

ExistingIsReused ==
    pc = "import" =>
        \A o \in Objects(cands) : \E c \in ToSet(cands) :
            \/ o = ExistingRef(c)
            \/ o = ObjectRef(c) /\ (EntityKey(c) \notin matched \/ c.type \in Renamed)

\* The local index never runs ahead of the imports: it holds only what was
\* exportable in an import OpenCTI confirmed, through rejected imports,
\* crashes and lost files.
IndexedIsSent == index.rels \subseteq delivered.sent

\* What the index holds is not sent again when the state file is lost.
IndexedIsNotResent ==
    pc = "import" =>
        {RelationshipKey(c) : c \in ToSet(cands)} \intersect index.rels = {}

\* Nothing the policy holds back reaches OpenCTI, by itself, as the anchor of
\* another candidate or in a second export: what is delivered is the
\* relationship of a record that is sure enough and waits for no validation
\* it has not got.
HeldIsNotDelivered ==
    \A key \in delivered.rels : \E r \in AllRecords :
        LET c == Candidate(r) IN
        /\ RelationshipKey(c) = key
        /\ c.validate => AllowVictimology /\ c.victim
        /\ ~(c.conf < MinEntityConfidence \/ c.rconf < MinRelationshipConfidence)

\* A lookup that fails does not discard intelligence: a relationship that is
\* not known and whose entity was not answered for is exported.
UncertainReadKeeps ==
    pc = "import" =>
        \A c \in ToSet(AcceptedOf(item)) :
            EntityKey(c) \in lost /\ RelationshipKey(c) \notin index.rels =>
                \E d \in ToSet(cands) : RelationshipKey(d) = RelationshipKey(c)

\* The object of another author that OpenCTI was found to have keeps its
\* description through the whole export, whether it is empty or not: bundle,
\* native objects and hydration all go by the answer of the lookup.  Where no
\* lookup found it our description is sent onto it, and so it is with the
\* parts of ATT&CK the builder does not recognise.
FoundTextIsKept ==
    [][\A k \in matched :
          (/\ Present(k) /\ k \notin authored
           /\ \A c \in ToSet(cands) : EntityKey(c) = k => c.type \notin Renamed
           /\ edits' = edits)
          => text'[k] = text[k]]_vars

\* With OpenCTI's answers and without a local index everything accepted is
\* delivered in the end, whatever was exported before and whatever was known:
\* a failed lookup, a rejected import, a crash or an object deleted between
\* the lookup and the import cost time only.  Native objects are tried once, and what
\* the builder has no object or no ends for is left out.
BundledRels ==
    UNION {{RelationshipKey(c) : c \in {c \in ToSet(Accepts[i]) :
                /\ NativeKind(c) = "none"
                /\ \/ Builds(c)
                   \/ ReferenceEdges(c, Accepts[i]) # {}
                   \/ SightingEdges(c, Accepts[i], Indicators[i]) # {}}} : i \in Items}

AcceptedIsDelivered ==
    deployment.lookup /\ ~deployment.index => <>(BundledRels \subseteq delivered.rels)
=============================================================================
