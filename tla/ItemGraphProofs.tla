-------------------------- MODULE ItemGraphProofs --------------------------
(***************************************************************************)
(* What holds of every item, whatever the feeds hand over.                 *)
(***************************************************************************)
EXTENDS ItemGraph, ContextualScoringProofs, ListProofs

---------------------------------------------------------------------------
(* The score *)

\* The base score is one, whatever scoring.py finds.
LEMMA BaseIsScore ==
    ASSUME NEW c
    PROVE  BaseScore(c) \in 0 .. 100
<1>1. SourcePoints \in Int
    BY ScoringAssumption DEF SourcePoints
<1>2. \A match : Matched(match, 15, 10) \in Int /\ Matched(match, 10, 5) \in Int
    BY DEF Matched
<1>3. VolumePoints(c.iocs) \in Int
    BY DEF VolumePoints
<1>4. AgePoints(c.age) \in Int
    BY DEF AgePoints
<1> QED
    BY <1>1, <1>2, <1>3, <1>4, ClampedIsScore DEF BaseScore

LEMMA FiniteImage ==
    ASSUME NEW S, IsFiniteSet(S), NEW f
    PROVE  IsFiniteSet({f[x] : x \in S})
<1> DEFINE g == [x \in S |-> f[x]]
           T == {f[x] : x \in S}
<1>1. g \in Surjection(S, T)
    BY DEF Surjection
<1> QED
    BY <1>1, FS_Surjection

\* What accepted candidates add is between nothing and the maximum, and is
\* nothing without them.
LEMMA ImpactIsBounded ==
    ASSUME NEW cands, IsFiniteSet(DOMAIN cands)
    PROVE  Impact(cands) \in 0 .. 100 /\ (cands = <<>> => Impact(cands) = 0)
<1> DEFINE Entities(category) == {k \in Context(cands) : k[1] = category}
           Points(category) == Impacts[category] * Cardinality(Entities(category))
           raw == Points("threat") + Points("toolbox") + Points("ttp") + Points("sector")
                  + Points("location") + Points("vulnerability") + Points("author")
                  + Points("graph_state")
<1>1. IsFiniteSet(Context(cands))
  <2> DEFINE said == {c \in ToSet(cands) : c.ent \in DOMAIN CategoryOf}
             told == [c \in said |-> <<CategoryOf[c.ent], c.ent, c.val>>]
  <2>1. IsFiniteSet({cands[i] : i \in DOMAIN cands})
      BY FiniteImage
  <2>2. IsFiniteSet(said)
      BY <2>1, FS_Subset DEF ToSet
  <2>3. Context(cands) = {told[c] : c \in said}
      BY DEF Context
  <2> HIDE DEF said, told
  <2> QED
      BY <2>2, <2>3, FiniteImage
<1>2. \A category : Cardinality(Entities(category)) \in Nat
    BY <1>1, FS_Subset, FS_CardinalityType
<1>3. \A m, n \in Nat : m * n \in Nat
    OBVIOUS
<1>4. \A category \in Categories : Impacts[category] \in Nat
    BY ScoringAssumption
<1>5. \A category \in Categories : Points(category) \in Nat
    BY <1>2, <1>3, <1>4
<1>6. Impact(cands) = IF raw > MaxImpact THEN MaxImpact ELSE raw
    BY DEF Impact
<1>7. cands = <<>> => \A category \in Categories : Points(category) = 0
  <2> SUFFICES ASSUME cands = <<>>, NEW category \in Categories
               PROVE  Points(category) = 0
      OBVIOUS
  <2>1. Context(cands) = {}
      BY DEF Context, ToSet
  <2>2. Entities(category) = {}
      BY <2>1
  <2> HIDE DEF Entities
  <2>3. Cardinality(Entities(category)) = 0
      BY <2>2, FS_EmptySet
  <2> QED
      BY <2>3, <1>4
<1> HIDE DEF Points
<1>8. raw \in Nat /\ (cands = <<>> => raw = 0)
    BY <1>5, <1>7, SMTT(60) DEF Categories
<1>9. MaxImpact \in 0 .. 100
    BY ScoringAssumption
<1> HIDE DEF raw
<1>10. Impact(cands) \in Nat /\ Impact(cands) <= MaxImpact
    BY <1>6, <1>8, <1>9
<1> QED
    BY <1>6, <1>8, <1>9, <1>10

---------------------------------------------------------------------------
(* One record *)

\* How sure a record of a canonical name is at least.
NamedFloor(ent) ==
    IF ent = "target_sector" THEN 60 ELSE IF ent \in {"intrusion_set", "malware"} THEN 70 ELSE 0

\* How sure a feed is at least of what context is related to.
StatedFloor(ent, src) ==
    IF src \notin {"misp", "misp-galaxy", "misp-attribute", "misp-object"} THEN 0
    ELSE IF ent = "campaign" THEN 70 ELSE IF ent = "infrastructure" THEN 60 ELSE 0

IsGiven(text) == text # ""

\* It may be said to carry what a record may carry.
Full(r) == r = [f \in DOMAIN r |-> r[f]] /\ DOMAIN Plain \subseteq DOMAIN r

\* What every record says.
RecordFields ==
    {"source", "item", "ent", "val", "src", "conf", "rconf", "prov", "anchor", "existing"}

\* No object is known for it, and the type of its other end is the one given.
Unmatched(r) == r.existing = NoEnd /\ r.anchor = <<r.given[1], r.anchor[2]>>

\* A record as any source or inference makes it.
Made(item, r) ==
    /\ Full(r) /\ RecordFields \subseteq DOMAIN r
    /\ r.source = item.source /\ r.ent \in DOMAIN Targets
    /\ IsGiven(r.val) /\ IsGiven(r.type) /\ IsGiven(r.rel) /\ AliasesOf(r.ent, r.val) = {}
    /\ r.conf \in 0 .. 100 /\ r.rconf = r.conf /\ r.prov = TRUE /\ Unmatched(r)

\* A record that says what the item says.
Stated(item, r) ==
    /\ Made(item, r)
    /\ r.src # "misp-context" /\ r.validate = FALSE
    /\ r.norm = TRUE => r.conf >= NamedFloor(r.ent)
    /\ r.conf >= StatedFloor(r.ent, r.src)

\* What an item says of adversaries: its source, the actors it names, and the
\* ends a record may be given because the item names no other.
Sole(S) == {x \in S : S = {x}}
ToldBy(d) ==
    IF d.source = "misp"
    THEN [source |-> "misp", actors |-> ActorsNamed(d.body), anchors |-> Sole(AnchorsNamed(d.body))]
    ELSE [source |-> "otx", actors |-> {},
          anchors |-> {<<"intrusion-set", x>> : x \in Sole(ToSet(TextsOf(d.body, "adversary")))}]

AdversaryLinks == {"campaign-adversary", "infrastructure-adversary"}

\* The other end is no anchor, the only one of the item, or the cluster the
\* record comes from.
Gives(told, given, parentVal) ==
    given[1] \in AnchorTypes =>
        given \in told.anchors \/ (told.source = "misp" /\ parentVal = given[2])

\* No adversary is inferred, given or named but what the item says of it.
Backed(told, r) ==
    /\ r.inference \notin AdversaryLinks /\ Gives(told, r.given, r.parentVal)
    /\ IsMisp(r) /\ r.ent \in Adversaries => <<r.ent, r.val>> \in told.actors

StatedList(item, told, s) ==
    IsList(s) /\ \A r \in ToSet(s) : Stated(item, r) /\ Backed(told, r)

\* What a source may say: an entity type of the table, as sure as its kind is,
\* and an actor only where there are clusters or fields for it.
MayState(ent, src, conf) ==
    /\ src # "misp-context" /\ conf \in 0 .. 100
    /\ IsGiven(ent) => ent \in DOMAIN Targets /\ conf >= StatedFloor(ent, src)
    /\ ent \in Adversaries => src \notin {"misp", "misp-attribute", "misp-object"}

\* A cluster may name only the actors of the item.
MayName(told, ent, val, src) ==
    src = "misp-galaxy" /\ ent \in Adversaries =>
        <<ent, CanonicalValue(ent, val)>> \in told.actors

\* What a source sets of a record.
Unmarked(told, a) ==
    /\ Full(a) /\ a.norm = FALSE /\ a.validate = FALSE
    /\ a.inference \notin AdversaryLinks /\ Gives(told, a.given, a.parentVal)

\* Every entity type has a STIX type and a relationship.
LEMMA TargetsAreGiven ==
    \A ent \in DOMAIN Targets : Targets[ent].type # "" /\ Targets[ent].rel # ""
<1> SUFFICES ASSUME NEW ent \in DOMAIN Targets
             PROVE  Targets[ent].type # "" /\ Targets[ent].rel # ""
    OBVIOUS
<1> DEFINE HasBoth(row) == row[2].type # "" /\ row[2].rel # ""
<1>1. \A ents, type, rel : type # "" /\ rel # "" => HasBoth(Row(ents, type, rel))
    BY DEF Row
<1> HIDE DEF HasBoth
<1>2. \A row \in TargetRows : HasBoth(row)
    BY <1>1, ZenonT(400) DEF TargetRows
<1> USE DEF HasBoth
<1>3. PICK row \in TargetRows : Targets[ent] = row[2]
    BY TableRows DEF Targets
<1> QED
    BY <1>2, <1>3

Either(a, b) == IF a # "" THEN a ELSE IF b # "" THEN b ELSE ""

LEMMA FirstOfTwo ==
    ASSUME NEW a, NEW b
    PROVE  FirstText(<<a, b>>) = Either(a, b)
<1> DEFINE s == <<a, b>>
           given == {i \in DOMAIN s : s[i] # ""}
<1>a. DOMAIN s = {1, 2}
  <2>1. DOMAIN s = 1 .. 2
      OBVIOUS
  <2> QED
      BY <2>1
<1>b. \A i \in given : i = 1 \/ i = 2
  <2> HIDE DEF s, Either
  <2> QED
      BY <1>a
<1>1. given \subseteq Nat /\ \A i \in given : i \in {1, 2}
  <2> HIDE DEF given
  <2> QED
      BY <1>b
<1>2. given # {} => \E i \in given : FirstOf(s, given) = s[i] /\ \A j \in given : i <= j
    BY <1>1, FirstIsOne
<1>3. /\ a # "" <=> 1 \in given
      /\ b # "" <=> 2 \in given
    BY <1>a
<1>4. s[1] = a /\ s[2] = b
    OBVIOUS
<1>5. FirstText(s) = IF given = {} THEN "" ELSE FirstOf(s, given)
    BY DEF FirstText
<1>6. ~(2 <= 1)
    OBVIOUS
<1> HIDE DEF given, s
<1>7. given = {} \/ 1 \in given \/ (1 \notin given /\ 2 \in given)
    BY <1>1
<1>8. CASE given = {}
    BY <1>3, <1>5, <1>8 DEF s, Either
<1>9. CASE 1 \in given
  <2>1. FirstOf(s, given) = s[1]
      BY <1>1, <1>2, <1>6, <1>9
  <2> QED
      BY <2>1, <1>3, <1>4, <1>5, <1>9 DEF s, Either
<1>10. CASE 1 \notin given /\ 2 \in given
  <2>1. FirstOf(s, given) = s[2]
      BY <1>1, <1>2, <1>10
  <2> QED
      BY <2>1, <1>3, <1>4, <1>5, <1>10 DEF s, Either
<1> QED
    BY <1>7, <1>8, <1>9, <1>10

\* The canonical value of a value is canonical.
LEMMA CanonicalIsFixed ==
    ASSUME NEW ent, NEW val, IsGiven(val)
    PROVE  /\ IsGiven(CanonicalValue(ent, val))
           /\ AliasesOf(ent, CanonicalValue(ent, val)) = {}
           /\ AliasesOf(ent, val) = {} => CanonicalValue(ent, val) = val
<1>1. CASE AliasesOf(ent, val) = {}
    BY <1>1 DEF CanonicalValue, IsGiven
<1>2. CASE AliasesOf(ent, val) # {}
  <2> DEFINE a == CHOOSE a \in AliasesOf(ent, val) : TRUE
  <2>1. a \in AliasesOf(ent, val) /\ CanonicalValue(ent, val) = a[3]
      BY <1>2 DEF CanonicalValue, IsGiven
  <2>2. a \in Aliases /\ a[1] = ent
      BY <2>1 DEF AliasesOf
  <2> HIDE DEF a
  <2> QED
      BY <1>2, <2>1, <2>2, AliasesAssumption DEF IsGiven
<1> QED
    BY <1>1, <1>2

LEMMA ConfidenceBounds ==
    ASSUME NEW ent, NEW conf \in 0 .. 100, NEW src, NEW a
    PROVE  /\ Confidence(ent, conf, src, a) \in conf .. 100
           /\ a.norm = TRUE => Confidence(ent, conf, src, a) >= NamedFloor(ent)
<1>1. \A floor \in 0 .. 100 : AtLeast(conf, floor) \in conf .. 100 /\ AtLeast(conf, floor) >= floor
    BY DEF AtLeast
<1>2. /\ ent \in Locations => ent # "target_sector" /\ ent \notin {"intrusion_set", "malware"}
      /\ ent = "target_sector" => ent \notin {"intrusion_set", "malware"}
    BY DEF Locations
<1> QED
    BY <1>1, <1>2 DEF Confidence, NamedFloor

\* What is set of a record once its name is the canonical one.
LEMMA RenamedIsSet ==
    ASSUME NEW a, Full(a), NEW val
    PROVE  /\ Renamed(a, val).norm = TRUE /\ Renamed(a, val).validate = a.validate
           /\ Renamed(a, val).type = a.type /\ Renamed(a, val).rel = a.rel
           /\ Renamed(a, val).inference = a.inference /\ Renamed(a, val).given = a.given
           /\ Renamed(a, val).parentVal = a.parentVal
<1>1. {"norm", "alias", "validate", "type", "rel", "inference", "given", "parentVal"}
          \subseteq DOMAIN a
    BY DEF Plain, Full
<1> QED
    BY <1>1 DEF Renamed, Full

LEMMA FloorsAreNumbers ==
    \A ent, src : NamedFloor(ent) \in 0 .. 100 /\ StatedFloor(ent, src) \in 0 .. 100
<1>1. \A ent : NamedFloor(ent) \in 0 .. 100
    BY DEF NamedFloor
<1>2. \A ent, src : StatedFloor(ent, src) \in 0 .. 100
    BY DEF StatedFloor
<1> QED
    BY <1>1, <1>2

LEMMA SureIsScore ==
    ASSUME NEW ent, NEW conf \in 0 .. 100, NEW src, NEW a
    PROVE  Confidence(ent, conf, src, a) \in 0 .. 100
<1>1. Confidence(ent, conf, src, a) \in conf .. 100
    BY ConfidenceBounds
<1>2. \A x \in conf .. 100 : x \in 0 .. 100
    OBVIOUS
<1> QED
    BY <1>1, <1>2

LEMMA TargetedIsFull ==
    ASSUME NEW item, NEW ent, NEW val, NEW src, NEW sure, NEW a, NEW target,
           NEW r, r = TargetedRecord(item, ent, val, src, sure, a, target)
    PROVE  Full(r) /\ RecordFields \subseteq DOMAIN r /\ r.prov = TRUE
<1>1. r = [f \in DOMAIN r |-> r[f]] /\ DOMAIN Plain \subseteq DOMAIN r
    BY DEF TargetedRecord, Plain
<1>2. RecordFields \subseteq DOMAIN r
    BY DEF TargetedRecord, RecordFields
<1> QED
    BY <1>1, <1>2 DEF TargetedRecord, Full

\* The type and the relationship are those of the target unless they are set.
LEMMA TargetedDefaults ==
    ASSUME NEW item, NEW ent, NEW val, NEW src, NEW sure, NEW a, NEW target,
           NEW r, r = TargetedRecord(item, ent, val, src, sure, a, target)
    PROVE  r.type = Either(a.type, target.type) /\ r.rel = Either(a.rel, target.rel)
<1>1. /\ r.type = FirstText(<<a.type, target.type>>)
      /\ r.rel = FirstText(<<a.rel, target.rel>>)
    BY Zenon DEF TargetedRecord
<1>2. \A x, y : FirstText(<<x, y>>) = Either(x, y)
    BY FirstOfTwo
<1> QED
    BY <1>1, <1>2, Zenon

LEMMA TargetedFields ==
    ASSUME NEW item, NEW ent, NEW val, NEW src, NEW sure, NEW a, NEW target,
           NEW r, r = TargetedRecord(item, ent, val, src, sure, a, target)
    PROVE  /\ r.source = item.source /\ r.ent = ent /\ r.val = val /\ r.src = src
           /\ r.conf = sure /\ r.rconf = sure
           /\ r.given = a.given /\ r.norm = a.norm /\ r.inference = a.inference
           /\ r.validate = a.validate /\ r.parentVal = a.parentVal
BY DEF TargetedRecord

LEMMA TargetedIsUnmatched ==
    ASSUME NEW item, NEW ent, NEW val, NEW src, NEW sure, NEW a, NEW target,
           NEW r, r = TargetedRecord(item, ent, val, src, sure, a, target)
    PROVE  Unmatched(r)
<1>1. r.existing = NoEnd
    BY Zenon DEF TargetedRecord
<1>3. r.given = a.given
    BY TargetedFields
<1>2. r.anchor = <<a.given[1], FirstText(<<a.given[2], a.alias, a.parentVal>>)>>
    BY Zenon DEF TargetedRecord
<1>4. \A d, x, y : d = <<x, y>> => d = <<x, d[2]>>
    OBVIOUS
<1>5. r.anchor = <<a.given[1], r.anchor[2]>>
    BY <1>2, <1>4, Zenon
<1>6. r.anchor = <<r.given[1], r.anchor[2]>>
    BY <1>3, <1>5, Zenon
<1> QED
    BY <1>1, <1>6 DEF Unmatched

\* A record that says of a value what is set of it.
Says(item, ent, val, src, sure, a, r) ==
    /\ Made(item, r)
    /\ r.ent = ent /\ r.val = val /\ r.src = src /\ r.norm = a.norm
    /\ r.validate = a.validate /\ r.conf = sure
    /\ r.given = a.given /\ r.inference = a.inference /\ r.parentVal = a.parentVal
    /\ IsGiven(a.type) => r.type = a.type
    /\ IsGiven(a.rel) => r.rel = a.rel

LEMMA MadeRecord ==
    ASSUME NEW item, NEW ent \in DOMAIN Targets, NEW val, IsGiven(val), AliasesOf(ent, val) = {},
           NEW src, NEW conf \in 0 .. 100, NEW a,
           NEW sure, sure = Confidence(ent, conf, src, a), NEW target, target = Targets[ent],
           NEW r, r = TargetedRecord(item, ent, val, src, sure, a, target)
    PROVE  Says(item, ent, val, src, sure, a, r)
<1>2. sure \in 0 .. 100
    BY SureIsScore
<1>3. IsGiven(target.type) /\ IsGiven(target.rel)
    BY TargetsAreGiven DEF IsGiven
<1>4. Full(r) /\ RecordFields \subseteq DOMAIN r /\ r.prov = TRUE
    BY TargetedIsFull
<1>5. r.type = Either(a.type, target.type) /\ r.rel = Either(a.rel, target.rel)
    BY TargetedDefaults
<1>6. /\ r.source = item.source /\ r.ent = ent /\ r.val = val /\ r.src = src
      /\ r.conf = sure /\ r.rconf = sure
      /\ r.given = a.given /\ r.norm = a.norm /\ r.inference = a.inference
      /\ r.validate = a.validate /\ r.parentVal = a.parentVal
    BY TargetedFields
<1>7. \A x, y : IsGiven(y) => IsGiven(Either(x, y)) /\ (IsGiven(x) => Either(x, y) = x)
    BY DEF Either, IsGiven
<1>8. /\ IsGiven(r.type) /\ (IsGiven(a.type) => r.type = a.type)
      /\ IsGiven(r.rel) /\ (IsGiven(a.rel) => r.rel = a.rel)
    BY <1>3, <1>5, <1>7
<1>9. Unmatched(r)
    BY TargetedIsUnmatched
<1> QED
    BY <1>2, <1>4, <1>6, <1>8, <1>9 DEF Made, Says

\* What a source says of a value is a record that states it, or none.
LEMMA RecordIsStated ==
    ASSUME NEW item, NEW told, NEW ent, NEW val, NEW src, NEW conf, MayState(ent, src, conf),
           MayName(told, ent, val, src), NEW a, Unmarked(told, a)
    PROVE  StatedList(item, told, Record(item, ent, val, src, conf, a))
<1>1. CASE "" \in {ent, val}
    BY <1>1, ShortLists DEF Record, StatedList
<1>2. CASE "" \notin {ent, val}
  <2> DEFINE canonical == CanonicalValue(ent, val)
             b == IF canonical = val THEN a ELSE Renamed(a, val)
             sure == Confidence(ent, conf, src, b)
             r == TargetedRecord(item, ent, canonical, src, sure, b, Targets[ent])
  <2>1. Record(item, ent, val, src, conf, a) = <<r>>
      BY <1>2 DEF Record, NamedRecord, SureRecord
  <2>2. IsGiven(ent) /\ IsGiven(val)
      BY <1>2 DEF IsGiven
  <2>3. /\ ent \in DOMAIN Targets /\ src # "misp-context"
        /\ conf \in 0 .. 100 /\ conf >= StatedFloor(ent, src)
      BY <2>2 DEF MayState
  <2>4. IsGiven(canonical) /\ AliasesOf(ent, canonical) = {}
      BY <2>2, CanonicalIsFixed
  <2>5. /\ b.validate = FALSE /\ b.inference \notin AdversaryLinks
        /\ Gives(told, b.given, b.parentVal)
    <3>1. /\ a.validate = FALSE /\ a.inference \notin AdversaryLinks
          /\ Gives(told, a.given, a.parentVal)
        BY DEF Unmarked
    <3>3. Full(a)
        BY DEF Unmarked
    <3>2. /\ Renamed(a, val).validate = a.validate /\ Renamed(a, val).given = a.given
          /\ Renamed(a, val).inference = a.inference
          /\ Renamed(a, val).parentVal = a.parentVal
        BY <3>3, RenamedIsSet, Zenon
    <3>4. CASE canonical = val
        BY <3>1, <3>4
    <3>5. CASE canonical # val
      <4>1. b = Renamed(a, val)
          BY <3>5
      <4> QED
          BY <3>1, <3>2, <4>1
    <3> QED
        BY <3>4, <3>5
  <2>11. src \in {"misp", "misp-galaxy", "misp-attribute", "misp-object", "misp-context"}
             /\ ent \in Adversaries => <<ent, canonical>> \in told.actors
      BY DEF MayState, MayName
  <2>6. sure \in conf .. 100 /\ (b.norm = TRUE => sure >= NamedFloor(ent))
      BY <2>3, ConfidenceBounds
  <2> HIDE DEF canonical, b, r
  <2>7. /\ Made(item, r) /\ r.ent = ent /\ r.src = src /\ r.norm = b.norm
        /\ r.validate = b.validate /\ r.conf = sure /\ r.val = canonical
        /\ r.given = b.given /\ r.inference = b.inference /\ r.parentVal = b.parentVal
    <3> DEFINE target == Targets[ent]
    <3>1. sure = Confidence(ent, conf, src, b) /\ target = Targets[ent]
          /\ r = TargetedRecord(item, ent, canonical, src, sure, b, target)
        BY DEF r
    <3>2. conf \in 0 .. 100 /\ ent \in DOMAIN Targets
        BY <2>3
    <3> HIDE DEF sure, target
    <3>3. Says(item, ent, canonical, src, sure, b, r)
        BY <3>1, <3>2, <2>4, MadeRecord, Zenon
    <3> QED
        BY <3>3 DEF Says
  <2> HIDE DEF sure
  <2>8. StatedFloor(ent, src) \in 0 .. 100
      BY FloorsAreNumbers
  <2>9. r.conf >= StatedFloor(ent, src)
      BY <2>3, <2>6, <2>7, <2>8
  <2>10. Stated(item, r)
      BY <2>3, <2>5, <2>6, <2>7, <2>9 DEF Stated
  <2>12. Backed(told, r)
      BY <2>5, <2>7, <2>11 DEF Backed, IsMisp
  <2> QED
      BY <2>1, <2>10, <2>12, ShortLists DEF StatedList
<1> QED
    BY <1>1, <1>2

\* The entity types the sources state are in the table.
KnownTypes ==
    Victims
    \union {"campaign", "course_of_action", "threat_actor", "threat_actor_individual",
            "intrusion_set", "infrastructure", "autonomous_system", "channel", "event",
            "malware", "narrative", "security_platform", "tool", "vulnerability"}
    \union {"observable", "attack_pattern", "attack_tactic", "source_identity", "collector",
            "tag", "marking", "external_reference", "detection_rule", "attack_platform",
            "attack_data_source", "attack_data_component", "detection_guidance",
            "event_report", "sighting", "object_reference"}

LEMMA KnownTypesAreTargets ==
    KnownTypes \subseteq DOMAIN Targets
<1> DEFINE InTable(ents) == \E row \in TargetRows : row[1] = ents
<1>1. \A ents : InTable(ents) => ents \subseteq DOMAIN Targets
    BY TableRows DEF Targets
<1>2. \A ents, type, rel : Row(ents, type, rel) \in TargetRows => InTable(ents)
    BY DEF Row
<1> HIDE DEF InTable
<1>3. /\ InTable({"campaign"}) /\ InTable({"course_of_action"})
      /\ InTable({"threat_actor", "threat_actor_individual"}) /\ InTable({"intrusion_set"})
      /\ InTable({"infrastructure"}) /\ InTable({"autonomous_system"}) /\ InTable({"channel"})
      /\ InTable({"event"}) /\ InTable({"malware"}) /\ InTable({"narrative"})
    BY <1>2, SMTT(60) DEF TargetRows
<1>4. /\ InTable({"security_platform"}) /\ InTable({"tool"}) /\ InTable({"vulnerability"})
      /\ InTable({"observable"}) /\ InTable({"attack_pattern"}) /\ InTable({"attack_tactic"})
      /\ InTable({"source_identity"}) /\ InTable({"collector"}) /\ InTable({"tag"})
      /\ InTable({"marking"})
    BY <1>2, SMTT(60) DEF TargetRows
<1>6. InTable(Victims \ Locations) /\ InTable(Locations)
  <2>1. /\ Row(Victims \ Locations, "identity", "targets") \in TargetRows
        /\ Row(Locations, "location", "targets") \in TargetRows
      BY Zenon DEF TargetRows
  <2> QED
      BY <1>2, <2>1
<1>5. /\ InTable({"external_reference"}) /\ InTable({"detection_rule"})
      /\ InTable({"attack_platform"}) /\ InTable({"attack_data_source"})
      /\ InTable({"attack_data_component"}) /\ InTable({"detection_guidance", "event_report"})
      /\ InTable({"sighting"}) /\ InTable({"object_reference"})
    BY <1>2, SMTT(60) DEF TargetRows
<1> QED
    BY <1>1, <1>3, <1>4, <1>5, <1>6 DEF KnownTypes

LEMMA MayStateKnown ==
    ASSUME NEW ent, NEW src, src # "misp-context", NEW conf \in 0 .. 100,
           IsGiven(ent) => ent \in DOMAIN Targets,
           \/ ent \notin {"campaign", "infrastructure"}
           \/ src \in {"otx", "mitre-attack"}
           \/ ent = "campaign" /\ conf >= 70
           \/ ent = "infrastructure" /\ conf >= 60,
           ent \in Adversaries => src \notin {"misp", "misp-attribute", "misp-object"}
    PROVE  MayState(ent, src, conf)
BY DEF MayState, StatedFloor

---------------------------------------------------------------------------
(* Lists of records *)

LEMMA NothingStated ==
    ASSUME NEW item, NEW told
    PROVE  StatedList(item, told, <<>>)
BY ShortLists DEF StatedList

LEMMA JoinedStated ==
    ASSUME NEW item, NEW told, NEW s, StatedList(item, told, s), NEW t, StatedList(item, told, t)
    PROVE  StatedList(item, told, s \o t)
BY JoinedList DEF StatedList

LEMMA FlatStated ==
    ASSUME NEW item, NEW told, NEW s, IsList(s), NEW ss, ss = [i \in DOMAIN s |-> ss[i]],
           \A i \in DOMAIN s : StatedList(item, told, ss[i])
    PROVE  StatedList(item, told, FlattenSeq(ss))
<1>1. \A i \in DOMAIN s : IsList(ss[i])
    BY DEF StatedList
<1>2. /\ IsList(FlattenSeq(ss))
      /\ \A x \in ToSet(FlattenSeq(ss)) : \E i \in DOMAIN s : x \in ToSet(ss[i])
    BY <1>1, MappedFlat
<1> QED
    BY <1>2 DEF StatedList

LEMMA ListIsFinite ==
    ASSUME NEW s, IsList(s)
    PROVE  IsFiniteSet(ToSet(s))
<1>1. IsFiniteSet({s[i] : i \in DOMAIN s})
    BY ListLength, FiniteImage
<1> QED
    BY <1>1 DEF ToSet

---------------------------------------------------------------------------
(* What an event says *)

\* An attribute and its object, as the event has them.
IsAttribute(a) ==
    /\ a.val \in DOMAIN Facts /\ IsTextList(a.tags) /\ AreClusters(a.clusters)
    /\ IsList(a.sightings) /\ \A s \in ToSet(a.sightings) : s.conf \in 0 .. 100
IsSource(s) == IsAttribute(s.attr) /\ IsTextList(s.obj.tags)

LEMMA JoinedClusters ==
    ASSUME NEW s, AreClusters(s), NEW t, AreClusters(t)
    PROVE  AreClusters(s \o t)
BY JoinedList DEF AreClusters

LEMMA FlatClusters ==
    ASSUME NEW s, IsList(s), NEW ss, ss = [i \in DOMAIN s |-> ss[i]],
           \A i \in DOMAIN s : AreClusters(ss[i])
    PROVE  AreClusters(FlattenSeq(ss))
<1>1. \A i \in DOMAIN s : IsList(ss[i])
    BY DEF AreClusters
<1>2. /\ IsList(FlattenSeq(ss))
      /\ \A x \in ToSet(FlattenSeq(ss)) : \E i \in DOMAIN s : x \in ToSet(ss[i])
    BY <1>1, MappedFlat
<1> QED
    BY <1>2 DEF AreClusters

LEMMA EventIsListed ==
    ASSUME NEW e, IsMispEvent(e)
    PROVE  /\ IsList(e.tags) /\ \A t \in ToSet(e.tags) : t.text \in DOMAIN Facts
           /\ e.info \in DOMAIN Facts /\ IsList(e.reports) /\ AreClusters(e.clusters)
           /\ IsList(e.attributes) /\ \A a \in ToSet(e.attributes) : IsAttribute(a)
           /\ IsList(e.objects)
           /\ \A o \in ToSet(e.objects) :
                 /\ IsList(o.attributes) /\ \A a \in ToSet(o.attributes) : IsAttribute(a)
                 /\ AreClusters(o.clusters) /\ IsList(o.references) /\ IsTextList(o.tags)
BY DEF IsMispEvent, AreAttributes, IsAttribute

LEMMA SourcesAreListed ==
    ASSUME NEW e, IsMispEvent(e)
    PROVE  IsList(Sources(e)) /\ \A s \in ToSet(Sources(e)) : IsSource(s)
<1> DEFINE own == [i \in DOMAIN e.attributes |-> [attr |-> e.attributes[i], obj |-> NoObject]]
           Of(o) == [i \in DOMAIN o.attributes |-> [attr |-> o.attributes[i], obj |-> o]]
           parts == [i \in DOMAIN e.objects |-> Of(e.objects[i])]
<1>1. Sources(e) = own \o FlattenSeq(parts)
    BY DEF Sources, Concat
<1>2. IsList(own) /\ \A s \in ToSet(own) : IsSource(s)
  <2>1. IsList(e.attributes) /\ \A i \in DOMAIN e.attributes : IsAttribute(e.attributes[i])
      BY EventIsListed, ListLength
  <2>2. IsTextList(NoObject.tags)
      BY ShortLists DEF NoObject, IsTextList
  <2>3. \A i \in DOMAIN e.attributes : IsSource(own[i])
      BY <2>1, <2>2 DEF IsSource
  <2>4. IsList(own) /\ \A s \in ToSet(own) : \E i \in DOMAIN e.attributes : s = own[i]
      BY <2>1, MappedList
  <2> HIDE DEF own
  <2> QED
      BY <2>3, <2>4
<1>3. \A o \in ToSet(e.objects) : IsList(Of(o)) /\ \A s \in ToSet(Of(o)) : IsSource(s)
  <2> SUFFICES ASSUME NEW o \in ToSet(e.objects)
               PROVE  IsList(Of(o)) /\ \A s \in ToSet(Of(o)) : IsSource(s)
      OBVIOUS
  <2>1. /\ IsList(o.attributes) /\ \A i \in DOMAIN o.attributes : IsAttribute(o.attributes[i])
        /\ IsTextList(o.tags)
      BY EventIsListed, ListLength
  <2>2. \A i \in DOMAIN o.attributes : IsSource(Of(o)[i])
      BY <2>1 DEF IsSource
  <2>3. IsList(Of(o)) /\ \A s \in ToSet(Of(o)) : \E i \in DOMAIN o.attributes : s = Of(o)[i]
      BY <2>1, MappedList
  <2> HIDE DEF Of
  <2> QED
      BY <2>2, <2>3
<1> HIDE DEF own, Of
<1>4. /\ IsList(e.objects)
      /\ \A i \in DOMAIN e.objects :
            IsList(Of(e.objects[i])) /\ \A s \in ToSet(Of(e.objects[i])) : IsSource(s)
    BY <1>3, EventIsListed, ListLength
<1>5. /\ IsList(FlattenSeq(parts))
      /\ \A s \in ToSet(FlattenSeq(parts)) : \E i \in DOMAIN e.objects : s \in ToSet(parts[i])
    BY <1>4, MappedFlat
<1>6. \A s \in ToSet(FlattenSeq(parts)) : IsSource(s)
    BY <1>4, <1>5
<1> QED
    BY <1>1, <1>2, <1>5, <1>6, JoinedList

LEMMA GalaxiesAreListed ==
    ASSUME NEW e, IsMispEvent(e)
    PROVE  AreClusters(Galaxies(e)) /\ \A c \in ToSet(Galaxies(e)) : IsGiven(c.val)
<1> DEFINE OfObject(o) == o.clusters \o Concat(o.attributes, LAMBDA a : a.clusters)
           OfAttributes == Concat(e.attributes, LAMBDA a : a.clusters)
           OfObjects == Concat(e.objects, OfObject)
           found == e.clusters \o OfAttributes \o OfObjects
           named == MapSeq(found, NormalizedCluster)
           usable == Selected(named, LAMBDA c : c.val # "")
<1>1. \A s : IsList(s) /\ (\A a \in ToSet(s) : IsAttribute(a))
             => AreClusters(Concat(s, LAMBDA a : a.clusters))
    BY FlatClusters, ListLength DEF Concat, IsAttribute
<1>2. AreClusters(OfAttributes)
    BY <1>1, EventIsListed
<1>3. \A o \in ToSet(e.objects) : AreClusters(OfObject(o))
    BY <1>1, EventIsListed, JoinedClusters
<1>4. AreClusters(OfObjects)
  <2> HIDE DEF OfObject
  <2>1. IsList(e.objects) /\ \A i \in DOMAIN e.objects : AreClusters(OfObject(e.objects[i]))
      BY <1>3, EventIsListed, ListLength
  <2> QED
      BY <2>1, FlatClusters DEF Concat
<1> HIDE DEF OfAttributes, OfObjects
<1>5. AreClusters(found)
    BY <1>2, <1>4, EventIsListed, JoinedClusters
<1> HIDE DEF found
<1>6. AreClusters(named)
  <2>1. IsList(named) /\ \A c \in ToSet(named) : \E d \in ToSet(found) : c = NormalizedCluster(d)
      BY <1>5, MappedList, ListLength DEF MapSeq, AreClusters
  <2>2. \A d \in ToSet(found) :
            /\ NormalizedCluster(d) = [f \in ClusterFields |-> NormalizedCluster(d)[f]]
            /\ NormalizedCluster(d).meta = d.meta
      BY <1>5 DEF AreClusters, NormalizedCluster, ClusterFields
  <2>3. \A d \in ToSet(found) : IsList(d.meta)
                                  /\ \A said \in ToSet(d.meta) : said.ent \in DOMAIN MetaConfidence
      BY <1>5 DEF AreClusters
  <2> DEFINE IsCluster(c) ==
                 /\ c = [f \in ClusterFields |-> c[f]] /\ IsList(c.meta)
                 /\ \A said \in ToSet(c.meta) : said.ent \in DOMAIN MetaConfidence
  <2>4. \A d \in ToSet(found) : IsCluster(NormalizedCluster(d))
      BY <2>2, <2>3
  <2> HIDE DEF IsCluster
  <2>5. \A c \in ToSet(named) : IsCluster(c)
      BY <2>1, <2>4
  <2> QED
      BY <2>1, <2>5 DEF AreClusters, IsCluster
<1> HIDE DEF named
<1>7. IsList(usable) /\ \A c \in ToSet(usable) : c \in ToSet(named) /\ IsGiven(c.val)
  <2> DEFINE S == {i \in DOMAIN named : named[i].val # ""}
  <2>1. usable = Picked(named, S) /\ S \subseteq DOMAIN named /\ IsList(named)
      BY <1>6 DEF Selected, AreClusters
  <2>2. \A i \in S : IsGiven(named[i].val)
      BY DEF IsGiven
  <2> HIDE DEF S, usable
  <2> QED
      BY <2>1, <2>2, PickedFrom
<1> HIDE DEF usable
<1>8. /\ IsList(Galaxies(e)) /\ \A c \in ToSet(Galaxies(e)) : c \in ToSet(usable)
  <2>1. Galaxies(e) = Distinct(usable, LAMBDA c : <<c.type, c.val, c.uuid>>)
      BY DEF Galaxies, usable, named, found, OfAttributes, OfObjects
  <2> QED
      BY <1>7, <2>1, PickedFrom DEF Distinct
<1> QED
    BY <1>6, <1>7, <1>8 DEF AreClusters

LEMMA VulnerabilitiesAreListed ==
    ASSUME NEW e, IsMispEvent(e)
    PROVE  IsList(Vulnerabilities(e))
<1> DEFINE Found(t, uuids) == MapSeq(Facts[t].cves, LAMBDA id : [val |-> id, uuids |-> uuids])
           tagged == Concat(e.tags, LAMBDA t : Found(t.text, {}))
           attributed == Concat(Sources(e), LAMBDA s : Found(s.attr.val, Uuids(s)))
           found == tagged \o Found(e.info, {}) \o attributed
<1>1. \A t \in DOMAIN Facts : \A uuids : IsList(Found(t, uuids))
    BY FactsAssumption, MappedList DEF MapSeq
<1> HIDE DEF Found
<1>2. IsList(tagged)
    BY <1>1, EventIsListed, MappedFlat, ListLength, ZenonT(60) DEF Concat
<1>3. IsList(attributed)
    BY <1>1, SourcesAreListed, MappedFlat, ListLength DEF Concat, IsSource, IsAttribute
<1> HIDE DEF tagged, attributed
<1>4. IsList(Found(e.info, {}))
    BY <1>1, EventIsListed
<1>5. IsList(found)
    BY <1>2, <1>3, <1>4, JoinedList
<1>6. Vulnerabilities(e) = Distinct(found, LAMBDA v : v.val)
    BY DEF Vulnerabilities, found, tagged, attributed, Found
<1> HIDE DEF found
<1> QED
    BY <1>5, <1>6, PickedFrom DEF Distinct

LEMMA CampaignsAreListed ==
    ASSUME NEW e, IsMispEvent(e)
    PROVE  IsList(Campaigns(e))
<1> DEFINE Campaign(s) ==
               [val |-> FirstText(<<s.attr.val, s.attr.comment, s.attr.uuid>>),
                attribute |-> s.attr.uuid, object |-> s.obj.uuid, uuids |-> Uuids(s)]
           chosen == Selected(Sources(e), IsCampaignSource)
           found == MapSeq(chosen, Campaign)
           safe == Selected(found, LAMBDA c : IsSafeCampaign(c.val))
<1>1. IsList(chosen)
    BY SourcesAreListed, PickedFrom DEF Selected
<1> HIDE DEF chosen, Campaign
<1>2. IsList(found)
    BY <1>1, MappedList DEF MapSeq
<1> HIDE DEF found
<1>3. IsList(safe)
    BY <1>2, PickedFrom DEF Selected
<1>4. Campaigns(e) = Distinct(safe, LAMBDA c : <<c.val, c.attribute, c.object>>)
    BY DEF Campaigns, safe, found, chosen, Campaign
<1> HIDE DEF safe
<1> QED
    BY <1>3, <1>4, PickedFrom DEF Distinct

\* A victim is of one of the kinds an attribute may name.
LEMMA VictimsAreListed ==
    ASSUME NEW e, IsMispEvent(e)
    PROVE  /\ IsList(Victimology(e))
           /\ \A v \in ToSet(Victimology(e)) : MayState(v.ent, "misp-attribute", v.conf)
<1> DEFINE Victim(s) ==
               [ent |-> VictimTypes[VictimType(s.attr)].ent,
                conf |-> VictimTypes[VictimType(s.attr)].conf,
                val |-> FirstText(<<s.attr.val, s.attr.comment>>),
                attribute |-> s.attr.uuid, object |-> s.obj.uuid, uuids |-> Uuids(s)]
           victims == Selected(Sources(e), LAMBDA s : VictimType(s.attr) \in DOMAIN VictimTypes)
           found == MapSeq(victims, Victim)
           given == Selected(found, LAMBDA v : v.val # "")
           Fits(v) == MayState(v.ent, "misp-attribute", v.conf)
<1>1. \A t \in DOMAIN VictimTypes : Fits(VictimTypes[t])
  <2>1. {"target_organization", "target_system", "target_country"} \subseteq DOMAIN Targets
      BY KnownTypesAreTargets DEF KnownTypes, Victims, Locations
  <2>2. /\ Fits([ent |-> "target_organization", conf |-> 68])
        /\ Fits([ent |-> "target_system", conf |-> 65])
        /\ Fits([ent |-> "target_country", conf |-> 70])
      BY <2>1, MayStateKnown DEF Adversaries
  <2> HIDE DEF Fits
  <2> QED
      BY <2>2, TableRows DEF VictimTypes
<1>2. /\ IsList(victims)
      /\ \A s \in ToSet(victims) : VictimType(s.attr) \in DOMAIN VictimTypes
    BY SourcesAreListed, PickedFrom DEF Selected
<1>3. \A s \in ToSet(victims) : Fits(Victim(s))
    BY <1>1, <1>2
<1> HIDE DEF victims, Fits, Victim
<1>4. IsList(found) /\ \A v \in ToSet(found) : \E s \in ToSet(victims) : v = Victim(s)
    BY <1>2, MappedList, ListLength DEF MapSeq
<1>5. \A v \in ToSet(found) : Fits(v)
    BY <1>3, <1>4
<1> HIDE DEF found
<1>6. IsList(given) /\ \A v \in ToSet(given) : Fits(v)
    BY <1>4, <1>5, PickedFrom DEF Selected
<1>7. Victimology(e) = Distinct(given, LAMBDA v : <<v.ent, v.val, v.attribute, v.object>>)
    BY DEF Victimology, given, found, victims, Victim
<1> HIDE DEF given
<1> QED
    BY <1>6, <1>7, PickedFrom DEF Distinct, Fits

LEMMA ReportsAreListed ==
    ASSUME NEW e, IsMispEvent(e)
    PROVE  IsList(EventReports(e))
<1> DEFINE live == Selected(e.reports, LAMBDA r : ~r.deleted)
           titled == MapSeq(live, LAMBDA r :
                         [r EXCEPT !.title = FirstText(<<@, r.uuid, r.content>>)])
           given == Selected(titled, LAMBDA r : r.title # "")
<1>1. IsList(live)
    BY EventIsListed, PickedFrom DEF Selected
<1> HIDE DEF live
<1>2. IsList(titled)
    BY <1>1, MappedList DEF MapSeq
<1> HIDE DEF titled
<1>3. IsList(given)
    BY <1>2, PickedFrom DEF Selected
<1>4. EventReports(e) = Distinct(given, LAMBDA r : <<r.uuid, r.title, r.content>>)
    BY DEF EventReports, given, titled, live
<1> HIDE DEF given
<1> QED
    BY <1>3, <1>4, PickedFrom DEF Distinct

LEMMA SightingsAreListed ==
    ASSUME NEW e, IsMispEvent(e)
    PROVE  /\ IsList(Sightings(e))
           /\ \A g \in ToSet(Sightings(e)) : g.conf \in 0 .. 100
<1> DEFINE Live(s) == Selected(s.attr.sightings, LAMBDA g : ~g.deleted)
           Told(s, g) == [val |-> FirstText(<<s.attr.val, g.val, g.uuid>>), uuid |-> g.uuid,
                          positive |-> g.positive, conf |-> g.conf, of |-> s.attr.uuid]
           Seen(s) == MapSeq(Live(s), LAMBDA g : Told(s, g))
           found == Concat(Sources(e), Seen)
           given == Selected(found, LAMBDA g : g.val # "")
<1>1. \A s : IsSource(s) => IsList(Live(s)) /\ \A g \in ToSet(Live(s)) : g.conf \in 0 .. 100
    BY PickedFrom DEF Selected, IsSource, IsAttribute
<1>2. \A s : IsSource(s) => IsList(Seen(s)) /\ \A x \in ToSet(Seen(s)) : x.conf \in 0 .. 100
  <2> SUFFICES ASSUME NEW s, IsSource(s)
               PROVE  IsList(Seen(s)) /\ \A x \in ToSet(Seen(s)) : x.conf \in 0 .. 100
      OBVIOUS
  <2>1. IsList(Live(s)) /\ \A g \in ToSet(Live(s)) : g.conf \in 0 .. 100
      BY <1>1
  <2>2. \A g : Told(s, g).conf = g.conf
      OBVIOUS
  <2> HIDE DEF Live, Told
  <2>3. IsList(Seen(s)) /\ \A x \in ToSet(Seen(s)) : \E g \in ToSet(Live(s)) : x = Told(s, g)
      BY <2>1, MappedList, ListLength DEF MapSeq
  <2> QED
      BY <2>1, <2>2, <2>3
<1> HIDE DEF Seen
<1>3. IsList(found) /\ \A x \in ToSet(found) : x.conf \in 0 .. 100
  <2>1. /\ IsList(Sources(e)) /\ \A i \in DOMAIN Sources(e) : IsList(Seen(Sources(e)[i]))
        /\ \A i \in DOMAIN Sources(e) : \A x \in ToSet(Seen(Sources(e)[i])) : x.conf \in 0 .. 100
      BY <1>2, SourcesAreListed, ListLength
  <2>2. /\ IsList(found)
        /\ \A x \in ToSet(found) : \E i \in DOMAIN Sources(e) : x \in ToSet(Seen(Sources(e)[i]))
      BY <2>1, MappedFlat DEF Concat
  <2> QED
      BY <2>1, <2>2
<1>4. Sightings(e) = Distinct(given, LAMBDA g : <<g.uuid, g.val>>)
    BY DEF Sightings, Seen
<1> HIDE DEF found
<1>5. IsList(given) /\ \A x \in ToSet(given) : x.conf \in 0 .. 100
    BY <1>3, PickedFrom DEF Selected
<1> HIDE DEF given
<1>6. IsList(Sightings(e)) /\ \A x \in ToSet(Sightings(e)) : x \in ToSet(given)
    BY <1>4, <1>5, PickedFrom DEF Distinct
<1> QED
    BY <1>5, <1>6

LEMMA ReferencesAreListed ==
    ASSUME NEW e, IsMispEvent(e)
    PROVE  IsList(ObjectReferences(e))
<1> DEFINE Live(o) == Selected(o.references, LAMBDA r : ~r.deleted)
           References(o) ==
               MapSeq(Live(o), LAMBDA r : [r EXCEPT !.from = FirstText(<<@, o.uuid>>),
                                                    !.rel = FirstText(<<@, "related-to">>)])
           found == Concat(e.objects, References)
           given == Selected(found, LAMBDA r : "" \notin {r.from, r.to})
<1>1. \A o \in ToSet(e.objects) : IsList(Live(o))
    BY EventIsListed, PickedFrom DEF Selected
<1>2. \A o \in ToSet(e.objects) : IsList(References(o))
  <2> HIDE DEF Live
  <2> QED
      BY <1>1, MappedList DEF MapSeq
<1>3. ObjectReferences(e) = Distinct(given, LAMBDA r : <<r.uuid, r.from, r.rel, r.to>>)
    BY DEF ObjectReferences
<1> HIDE DEF References
<1>4. IsList(found)
    BY <1>2, EventIsListed, MappedFlat, ListLength DEF Concat
<1> HIDE DEF found
<1>5. IsList(given)
    BY <1>4, PickedFrom DEF Selected
<1> HIDE DEF given
<1> QED
    BY <1>3, <1>5, PickedFrom DEF Distinct

LEMMA AttackIdsAreListed ==
    ASSUME NEW s, IsTextList(s)
    PROVE  IsList(Distinct(Concat(s, LAMBDA t : Facts[t].attacks), LAMBDA id : id))
<1> DEFINE found == Concat(s, LAMBDA t : Facts[t].attacks)
<1>1. IsList(found)
    BY FactsAssumption, MappedFlat, ListLength, SMTT(60) DEF Concat, IsTextList
<1> HIDE DEF found
<1>2. IsList(Distinct(found, LAMBDA id : id))
    BY <1>1, PickedFrom DEF Distinct
<1> QED
    BY <1>2 DEF found

LEMMA JoinedTexts ==
    ASSUME NEW s, IsTextList(s), NEW t, IsTextList(t)
    PROVE  IsTextList(s \o t)
BY JoinedList DEF IsTextList

LEMMA RulesAreListed ==
    ASSUME NEW e, IsMispEvent(e)
    PROVE  /\ IsList(DetectionRules(e))
           /\ \A r \in ToSet(DetectionRules(e)) : IsList(r.attacks)
<1> DEFINE eventTags == MapSeq(e.tags, LAMBDA t : t.text)
           Tags(s) == s.attr.tags \o s.obj.tags \o eventTags
           Rule(s) ==
               [type |-> RuleTypeOf(s), content |-> s.attr.val,
                val |-> FirstText(<<s.attr.comment, Facts[s.attr.val].title, "detection rule">>),
                compat |-> RuleTypeOf(s) # "sigma" \/ Facts[s.attr.val].fits,
                attacks |-> RuleAttackIds(RuleTypeOf(s), s.attr.val, Tags(s)),
                attribute |-> s.attr.uuid, uuids |-> Uuids(s)]
           usable == Selected(Sources(e), LAMBDA s :
                         RuleTypeOf(s) # "" /\ s.attr.val # "" /\ ~s.attr.deleted)
           found == MapSeq(usable, Rule)
<1>1. IsTextList(eventTags)
  <2>1. IsList(e.tags) /\ \A i \in DOMAIN e.tags : e.tags[i].text \in DOMAIN Facts
      BY EventIsListed, ListLength
  <2>2. eventTags = [i \in DOMAIN e.tags |-> e.tags[i].text]
      BY DEF MapSeq
  <2> HIDE DEF eventTags
  <2>3. \A i \in DOMAIN e.tags : eventTags[i] \in DOMAIN Facts
      BY <2>1, <2>2
  <2>4. IsList(eventTags) /\ \A x \in ToSet(eventTags) : \E i \in DOMAIN e.tags : x = eventTags[i]
      BY <2>1, <2>2, MappedList
  <2> QED
      BY <2>3, <2>4 DEF IsTextList
<1> HIDE DEF eventTags
<1>2. \A s : IsSource(s) => IsTextList(Tags(s)) /\ s.attr.val \in DOMAIN Facts
    BY <1>1, JoinedTexts DEF IsSource, IsAttribute
<1>3. \A type, tags : \A val \in DOMAIN Facts :
          IsTextList(tags) => IsList(RuleAttackIds(type, val, tags))
  <2> SUFFICES ASSUME NEW type, NEW tags, NEW val \in DOMAIN Facts, IsTextList(tags)
               PROVE  IsList(RuleAttackIds(type, val, tags))
      OBVIOUS
  <2> DEFINE mapped == IF type = "sigma" THEN Facts[val].mapped ELSE <<>>
             texts == tags \o mapped
             ids == Distinct(Concat(texts, LAMBDA t : Facts[t].attacks), LAMBDA id : id)
  <2>1. IsTextList(mapped)
      BY FactsAssumption, ShortLists DEF IsTextList
  <2>2. RuleAttackIds(type, val, tags) = NormalizedAttackIds(ids)
      BY DEF RuleAttackIds
  <2> HIDE DEF mapped
  <2>3. IsTextList(texts)
      BY <2>1, JoinedTexts
  <2> HIDE DEF texts
  <2>4. IsList(ids)
      BY <2>3, AttackIdsAreListed
  <2> HIDE DEF ids
  <2>5. IsList(NormalizedAttackIds(ids))
      BY <2>4, PickedFrom DEF NormalizedAttackIds, Selected
  <2> QED
      BY <2>2, <2>5
<1>4. \A s : IsSource(s) => IsList(Rule(s).attacks)
    BY <1>2, <1>3
<1>5. DetectionRules(e) = Distinct(found, LAMBDA r : <<r.attribute, r.type, r.content>>)
    BY DEF DetectionRules, eventTags
<1>6. IsList(usable) /\ \A s \in ToSet(usable) : IsSource(s)
    BY SourcesAreListed, PickedFrom DEF Selected
<1> HIDE DEF usable, Rule
<1>7. IsList(found) /\ \A r \in ToSet(found) : \E s \in ToSet(usable) : r = Rule(s)
    BY <1>6, MappedList, ListLength DEF MapSeq
<1>8. \A r \in ToSet(found) : IsList(r.attacks)
    BY <1>4, <1>6, <1>7
<1> HIDE DEF found
<1> QED
    BY <1>5, <1>7, <1>8, PickedFrom DEF Distinct

---------------------------------------------------------------------------
(* The infrastructure of an event *)

\* A fact of an object of an event, and many of them: it is of the object or of
\* what is observed in it, never of an actor or a campaign.
IsFact(f) ==
    /\ {"ent", "conf", "val", "anchor"} \subseteq DOMAIN f
    /\ MayState(f.ent, "misp-object", f.conf) /\ f.anchor[1] \notin AnchorTypes
FactList(s) == IsList(s) /\ \A f \in ToSet(s) : IsFact(f)

LEMMA JoinedFacts ==
    ASSUME NEW s, FactList(s), NEW t, FactList(t)
    PROVE  FactList(s \o t)
BY JoinedList DEF FactList

LEMMA FlatFacts ==
    ASSUME NEW s, IsList(s), NEW ss, ss = [i \in DOMAIN s |-> ss[i]],
           \A i \in DOMAIN s : FactList(ss[i])
    PROVE  FactList(FlattenSeq(ss))
<1>1. \A i \in DOMAIN s : IsList(ss[i])
    BY DEF FactList
<1>2. /\ IsList(FlattenSeq(ss))
      /\ \A x \in ToSet(FlattenSeq(ss)) : \E i \in DOMAIN s : x \in ToSet(ss[i])
    BY <1>1, MappedFlat
<1> QED
    BY <1>2 DEF FactList

LEMMA ShortFacts ==
    /\ FactList(<<>>)
    /\ \A f : IsFact(f) => FactList(<<f>>)
BY ShortLists DEF FactList

LEMMA MappedFacts ==
    ASSUME NEW s, IsList(s), NEW t, t = [i \in DOMAIN s |-> t[i]],
           \A i \in DOMAIN s : IsFact(t[i])
    PROVE  FactList(t)
BY MappedList DEF FactList

\* A text is observed as one thing, or as nothing.
LEMMA ObservableIsListed ==
    ASSUME NEW t, NEW preferred, NEW port
    PROVE  IsList(ObservableIn(t, preferred, port))
<1> DEFINE shape == Facts[t].shape
           types == IF shape = "network" THEN <<Facts[t].version>>
                    ELSE IF preferred \in {"ip", "ip-network"}
                    THEN IF shape = "ip" THEN <<Facts[t].version>> ELSE <<>>
                    ELSE IF preferred = "url" \/ shape = "url" THEN <<"url">>
                    ELSE IF preferred = "domain-name" \/ ReadsAsDomain(t) THEN <<"domain-name">>
                    ELSE IF shape = "ip" THEN <<Facts[t].version>> ELSE <<>>
<1>1. IsList(types)
    BY ShortLists
<1>2. ObservableIn(t, preferred, port) = MapSeq(types, LAMBDA type : Observable(type, t, port))
    BY DEF ObservableIn
<1> HIDE DEF types
<1> QED
    BY <1>1, <1>2, MappedList DEF MapSeq

LEMMA ObservablesAreListed ==
    ASSUME NEW a
    PROVE  IsList(ObservablesOf(a))
<1> DEFINE parts == Facts[a.val].parts
           kinds == {a.type, Relation(a), a.type \o "|" \o Relation(a)}
           Pair(names) == Len(parts) >= 2 /\ kinds \intersect names # {}
           found == IF Pair({"domain|ip"})
                    THEN ObservableIn(parts[1], "domain-name", "")
                         \o ObservableIn(parts[2], "ip", "")
                    ELSE IF Pair({"hostname|port"})
                    THEN ObservableIn(parts[1], "domain-name", parts[2])
                    ELSE IF Pair({"ip-src|port", "ip-dst|port"})
                    THEN ObservableIn(parts[1], "ip", parts[2])
                    ELSE ObservableIn(a.val, FieldPreference(a), "")
           Told(o) == [type |-> o.type, val |-> o.val, port |-> o.port, uuid |-> a.uuid]
<1>1. ObservablesOf(a) = MapSeq(found, Told)
    BY DEF ObservablesOf
<1> HIDE DEF Pair, Told
<1>2. IsList(found)
    BY ObservableIsListed, JoinedList
<1> HIDE DEF found
<1> QED
    BY <1>1, <1>2, MappedList DEF MapSeq

\* What a fact of an object may be about.
LEMMA FactMayBe ==
    ASSUME NEW ent \in {"infrastructure", "observable", "autonomous_system"},
           NEW conf \in {60, 70, 72}
    PROVE  MayState(ent, "misp-object", conf)
BY KnownTypesAreTargets, MayStateKnown DEF KnownTypes, Adversaries

LEMMA FactIsFact ==
    ASSUME NEW o, NEW ent \in {"infrastructure", "observable", "autonomous_system"},
           NEW type, NEW val, NEW rel, NEW conf \in {60, 70, 72},
           NEW anchor, anchor[1] \notin AnchorTypes
    PROVE  /\ IsFact(Fact(o, ent, type, val, rel, conf, anchor))
           /\ \A obs, uuids :
                 IsFact([Fact(o, ent, type, val, rel, conf, anchor)
                            EXCEPT !.obs = obs, !.uuids = uuids])
BY FactMayBe DEF Fact, IsFact

LEMMA AsFactIsFact ==
    ASSUME NEW o, NEW as, NEW rel, NEW conf \in {60, 70, 72},
           NEW anchor, anchor[1] \notin AnchorTypes
    PROVE  IsFact(AsFact(o, as, rel, conf, anchor))
<1>1. MayState("autonomous_system", "misp-object", conf)
    BY FactMayBe
<1> QED
    BY <1>1 DEF AsFact, Fact, IsFact

LEMMA ObservedFactsAreFacts ==
    ASSUME NEW o, NEW observables, IsList(observables), NEW as,
           NEW owner, owner[1] \notin AnchorTypes
    PROVE  FactList(FactsOf(o, observables, as, owner))
<1> DEFINE rel == IF owner = <<"", "">> THEN "related-to" ELSE "consists-of"
           Content(x) == [Fact(o, "observable", "observable", x.val, rel, 70, owner)
                             EXCEPT !.obs = x.type, !.uuids = @ \union ({x.uuid} \ {""})]
           addresses == Selected(observables, IsAddress)
           itself == IF owner = <<"", "">> THEN <<>>
                     ELSE <<Fact(o, "infrastructure", "infrastructure", owner[2], "uses", 72,
                                 <<"", "">>)>>
           content == MapSeq(observables, Content)
<1>1. IsList(addresses)
    BY PickedFrom DEF Selected
<1>7. /\ <<"", "">>[1] \notin AnchorTypes
      /\ \A val : <<"observable", val>>[1] \notin AnchorTypes
    BY DEF AnchorTypes
<1>2. FactList(itself)
    BY <1>7, FactIsFact, ShortFacts, ZenonT(60)
<1>3. FactList(content)
  <2>1. \A x : IsFact(Content(x))
    <3>1. MayState("observable", "misp-object", 70)
        BY FactMayBe
    <3> QED
        BY <3>1 DEF Fact, IsFact
  <2> HIDE DEF Content
  <2> QED
      BY <2>1, MappedFacts DEF MapSeq
<1> HIDE DEF addresses
<1>4. FactList(ToldAs(o, as, rel, owner, addresses))
  <2> HIDE DEF rel
  <2> DEFINE told == MapSeq(addresses, LAMBDA x :
                         AsFact(o, as, "belongs-to", 72, <<"observable", x.val>>))
  <2>1. FactList(told)
      BY <1>1, <1>7, AsFactIsFact, MappedFacts, ZenonT(60) DEF MapSeq
  <2>2. FactList(<<AsFact(o, as, rel, 72, owner)>>)
      BY AsFactIsFact, ShortFacts
  <2>3. ToldAs(o, as, rel, owner, addresses) =
            IF as.number = NoAs THEN <<>> ELSE <<AsFact(o, as, rel, 72, owner)>> \o told
      BY DEF ToldAs
  <2> HIDE DEF told
  <2> QED
      BY <2>1, <2>2, <2>3, JoinedFacts, ShortFacts
<1>5. FactList(OfflineAs(o, owner, addresses))
  <2> DEFINE known == Selected(addresses, LAMBDA x : x.val \in DOMAIN Networks)
             Owned(x) == IF owner = <<"", "">> THEN <<>>
                         ELSE <<AsFact(o, Networks[x.val], "consists-of", 60, owner)>>
             AsNamed(x) == <<AsFact(o, Networks[x.val], "belongs-to", 60, <<"observable", x.val>>)>>
  <2>1. IsList(known)
      BY <1>1, PickedFrom DEF Selected
  <2>2. \A x : FactList(AsNamed(x)) /\ FactList(Owned(x))
      BY <1>7, AsFactIsFact, ShortFacts, ZenonT(60)
  <2>3. OfflineAs(o, owner, addresses) = Concat(known, LAMBDA x : AsNamed(x) \o Owned(x))
      BY DEF OfflineAs
  <2> HIDE DEF known, AsNamed, Owned
  <2>4. \A x : FactList(AsNamed(x) \o Owned(x))
      BY <2>2, JoinedFacts
  <2> QED
      BY <2>1, <2>3, <2>4, FlatFacts DEF Concat
<1>6. FactsOf(o, observables, as, owner) =
          itself \o content \o ToldAs(o, as, rel, owner, addresses)
          \o OfflineAs(o, owner, addresses)
    BY DEF FactsOf, addresses
<1> HIDE DEF itself, content, rel
<1> QED
    BY <1>2, <1>3, <1>4, <1>5, <1>6, JoinedFacts

LEMMA ObjectsAreFacts ==
    ASSUME NEW o, IsList(o.attributes)
    PROVE  FactList(InfrastructureOf(o))
<1> DEFINE attributes == Selected(o.attributes, LAMBDA a : ~a.deleted /\ a.val # "")
           observed == Concat(attributes, ObservablesOf)
           observables == Distinct(observed, LAMBDA x : <<x.type, x.val, x.port>>)
<1>1. IsList(attributes)
    BY PickedFrom DEF Selected
<1>2. InfrastructureOf(o) = ObservedFacts(o, observables, AsOf(attributes))
    BY DEF InfrastructureOf
<1> HIDE DEF attributes
<1>3. IsList(observed)
    BY <1>1, ObservablesAreListed, MappedFlat DEF Concat
<1> HIDE DEF observed
<1>4. IsList(observables)
    BY <1>3, PickedFrom DEF Distinct
<1> HIDE DEF observables
<1> QED
  <2> DEFINE owner == IF o.name = "asn" \/ observables = <<>> THEN <<"", "">>
                      ELSE <<"infrastructure", InfrastructureName(o, observables)>>
  <2>1. owner[1] \notin AnchorTypes
      BY DEF AnchorTypes
  <2>2. ObservedFacts(o, observables, AsOf(attributes))
        = FactsOf(o, observables, AsOf(attributes), owner)
      BY DEF ObservedFacts
  <2> HIDE DEF owner
  <2> QED
      BY <1>2, <1>4, <2>1, <2>2, ObservedFactsAreFacts

\* One name for an AS changes no more of a fact than its value.
LEMMA RenamedFacts ==
    ASSUME NEW s, FactList(s)
    PROVE  FactList(OneNamePerAs(s))
<1> DEFINE AsNamed(f) == Selected(s, LAMBDA g : g.number = f.number)
           Longest(n) == n[CHOOSE i \in DOMAIN n : \A j \in DOMAIN n :
                              Len(n[j].val) < Len(n[i].val)
                              \/ (Len(n[j].val) = Len(n[i].val) /\ i <= j)]
           Renaming(f) == IF f.number = NoAs THEN f ELSE [f EXCEPT !.val = Longest(AsNamed(f)).val]
<1>1. OneNamePerAs(s) = MapSeq(s, Renaming)
    BY DEF OneNamePerAs
<1> HIDE DEF AsNamed, Longest
<1>2. \A f \in ToSet(s) : IsFact(Renaming(f))
  <2> SUFFICES ASSUME NEW f \in ToSet(s), NEW x PROVE IsFact([f EXCEPT !.val = x])
      BY DEF FactList
  <2>1. /\ {"ent", "conf", "val", "anchor"} \subseteq DOMAIN f
        /\ MayState(f.ent, "misp-object", f.conf) /\ f.anchor[1] \notin AnchorTypes
      BY DEF FactList, IsFact
  <2>2. /\ DOMAIN [f EXCEPT !.val = x] = DOMAIN f
        /\ [f EXCEPT !.val = x].ent = f.ent /\ [f EXCEPT !.val = x].conf = f.conf
        /\ [f EXCEPT !.val = x].anchor = f.anchor
      BY <2>1
  <2> QED
      BY <2>1, <2>2 DEF IsFact
<1> HIDE DEF Renaming
<1> QED
    BY <1>1, <1>2, MappedFacts, ListLength DEF MapSeq, FactList

LEMMA InfrastructureIsListed ==
    ASSUME NEW e, IsMispEvent(e)
    PROVE  /\ IsList(Infrastructure(e))
           /\ \A f \in ToSet(Infrastructure(e)) : IsFact(f)
<1> DEFINE alone == Selected(e.attributes, LAMBDA a :
                        ~a.deleted /\ a.type \in DOMAIN AttributeObjects)
           Pseudo(a) == [NoObject EXCEPT !.name = AttributeObjects[a.type],
                                         !.uuid = a.uuid, !.attributes = <<a>>]
           pseudo == MapSeq(alone, Pseudo)
           objects == Selected(e.objects, LAMBDA o : o.name \in InfrastructureObjects)
           all == pseudo \o objects
           found == Concat(all, InfrastructureOf)
           named == OneNamePerAs(found)
<1>1. IsList(alone) /\ IsList(objects) /\ \A o \in ToSet(objects) : IsList(o.attributes)
    BY EventIsListed, PickedFrom DEF Selected
<1>2. \A a : IsList(Pseudo(a).attributes)
  <2>1. \A a : Pseudo(a).attributes = <<a>>
      BY DEF NoObject
  <2> QED
      BY <2>1, ShortLists
<1>3. Infrastructure(e) = Distinct(named, LAMBDA f : <<f.ent, f.val, f.rel, f.anchor>>)
    BY DEF Infrastructure, InfrastructureFacts
<1> HIDE DEF alone, objects, Pseudo
<1>4. IsList(pseudo) /\ \A o \in ToSet(pseudo) : \E a \in ToSet(alone) : o = Pseudo(a)
    BY <1>1, MappedList, ListLength DEF MapSeq
<1>5. \A o \in ToSet(pseudo) : IsList(o.attributes)
    BY <1>2, <1>4
<1> HIDE DEF pseudo
<1>6. IsList(all) /\ \A o \in ToSet(all) : IsList(o.attributes)
    BY <1>1, <1>4, <1>5, JoinedList
<1> HIDE DEF all
<1>7. FactList(found)
    BY <1>6, ObjectsAreFacts, FlatFacts, ListLength DEF Concat
<1> HIDE DEF found
<1>8. FactList(named)
    BY <1>7, RenamedFacts
<1> HIDE DEF named
<1>9. IsList(Infrastructure(e)) /\ \A f \in ToSet(Infrastructure(e)) : f \in ToSet(named)
    BY <1>3, <1>8, PickedFrom DEF Distinct, FactList
<1> QED
    BY <1>8, <1>9 DEF FactList

---------------------------------------------------------------------------
(* What a pulse says *)

\* A record of a pulse, and many of them: it is given nothing, an
\* infrastructure or the one adversary.
IsOtxRecord(told, r) ==
    /\ {"ent", "val", "conf", "given", "inference", "rel"} \subseteq DOMAIN r
    /\ r.ent \in KnownTypes /\ r.conf \in 0 .. 100
    /\ r.inference \notin AdversaryLinks /\ Gives(told, r.given, "")
OtxList(told, s) == IsList(s) /\ \A r \in ToSet(s) : IsOtxRecord(told, r)

AdversaryIsTold(told, p) ==
    SoleAdversary(p) # NoAdversary => <<"intrusion-set", SoleAdversary(p)>> \in told.anchors

LEMMA GivesNoAnchor ==
    ASSUME NEW told, NEW given, NEW parentVal
    PROVE  /\ given[1] \notin AnchorTypes => Gives(told, given, parentVal)
           /\ given \in told.anchors => Gives(told, given, parentVal)
           /\ Gives(told, NoEnd, parentVal) /\ Gives(told, <<"", "">>, parentVal)
           /\ \A val : /\ Gives(told, <<"attack-pattern", val>>, parentVal)
                      /\ Gives(told, <<"infrastructure", val>>, parentVal)
           /\ "" \notin AdversaryLinks
BY DEF Gives, NoEnd, AnchorTypes, AdversaryLinks

LEMMA JoinedOtx ==
    ASSUME NEW told, NEW s, OtxList(told, s), NEW t, OtxList(told, t)
    PROVE  OtxList(told, s \o t)
BY JoinedList DEF OtxList

LEMMA MappedOtx ==
    ASSUME NEW told, NEW s, IsList(s), NEW t, t = [i \in DOMAIN s |-> t[i]],
           \A i \in DOMAIN s : IsOtxRecord(told, t[i])
    PROVE  OtxList(told, t)
BY MappedList DEF OtxList

LEMMA FieldsAreKnown ==
    /\ IsList(EntityFields)
    /\ \A f \in ToSet(EntityFields) : f.ent \in KnownTypes /\ f.conf \in 0 .. 100
<1> DEFINE IsKind(f) == f.ent \in KnownTypes /\ f.conf \in 0 .. 100
<1>1. \A name, takes, conf, ent :
          ent \in KnownTypes /\ conf \in 0 .. 100 => IsKind(Field(name, ent, conf, takes))
    BY DEF Field
<1>2. {"intrusion_set", "campaign", "infrastructure", "channel", "malware", "narrative",
       "event", "security_platform", "attack_pattern", "vulnerability", "target_sector",
       "target_region", "target_administrative_area", "target_city", "target_country",
       "target_position", "target_system", "tag"} \subseteq KnownTypes
    BY DEF KnownTypes, Victims, Locations
<1> HIDE DEF IsKind
<1>3. DOMAIN EntityFields = 1 .. 31 /\ EntityFields = [i \in 1 .. 31 |-> EntityFields[i]]
    BY DEF EntityFields
<1>4. \A i \in 1 .. 31 : IsKind(EntityFields[i])
    BY <1>1, <1>2, SMTT(60) DEF EntityFields
<1>5. IsList(EntityFields) /\ \A f \in ToSet(EntityFields) : IsKind(f)
    BY <1>3, <1>4, ListFromLength DEF ToSet
<1> QED
    BY <1>5 DEF IsKind

LEMMA TextsAreListed ==
    ASSUME NEW p, IsPulse(p), NEW name
    PROVE  IsTextList(TextsOf(p, name))
<1> DEFINE texts == IF name \in DOMAIN p.fields THEN p.fields[name] ELSE <<>>
           given == Selected(texts, LAMBDA t : t # "")
<1>1. IsTextList(texts)
    BY ShortLists DEF IsPulse, IsTextList
<1>2. TextsOf(p, name) = Distinct(given, LAMBDA t : t)
    BY DEF TextsOf
<1> HIDE DEF texts
<1>3. IsTextList(given)
    BY <1>1, PickedFrom DEF Selected, IsTextList
<1> HIDE DEF given
<1> QED
    BY <1>2, <1>3, PickedFrom DEF Distinct, IsTextList

LEMMA PulseAttacksAreListed ==
    ASSUME NEW p, IsPulse(p)
    PROVE  IsList(AttackIds(p))
BY TextsAreListed, AttackIdsAreListed DEF AttackIds

LEMMA PulseCvesAreListed ==
    ASSUME NEW p, IsPulse(p)
    PROVE  IsList(CveIds(p))
<1> DEFINE named == Selected(p.indicators, LAMBDA i : i.type \in {"cve", "vulnerability"})
           values == MapSeq(named, LAMBDA i : i.val)
           texts == p.cves \o TextsOf(p, "tags") \o p.references \o values
           found == Concat(texts, LAMBDA t : Facts[t].cves)
<1>1. IsList(named) /\ \A i \in ToSet(named) : i.val \in DOMAIN Facts
    BY PickedFrom DEF Selected, IsPulse
<1> HIDE DEF named
<1>2. IsTextList(values)
  <2>1. values = [j \in DOMAIN named |-> named[j].val]
      BY DEF MapSeq
  <2>2. \A j \in DOMAIN named : named[j].val \in DOMAIN Facts
      BY <1>1, ListLength
  <2> HIDE DEF values
  <2>3. IsList(values) /\ \A x \in ToSet(values) : \E j \in DOMAIN named : x = values[j]
      BY <1>1, <2>1, MappedList
  <2>4. \A j \in DOMAIN named : values[j] \in DOMAIN Facts
      BY <2>1, <2>2
  <2> QED
      BY <2>3, <2>4 DEF IsTextList
<1>3. CveIds(p) = Distinct(found, LAMBDA id : id)
    BY DEF CveIds, named
<1> HIDE DEF values
<1>4. IsTextList(p.cves) /\ IsTextList(p.references) /\ IsTextList(TextsOf(p, "tags"))
    BY TextsAreListed DEF IsPulse
<1>5. IsTextList(texts)
    BY <1>2, <1>4, JoinedTexts
<1> HIDE DEF texts
<1>6. IsList(found)
    BY <1>5, FactsAssumption, MappedFlat, ListLength, ZenonT(60) DEF Concat, IsTextList
<1> HIDE DEF found
<1> QED
    BY <1>3, <1>6, PickedFrom DEF Distinct

LEMMA PulseObservablesAreListed ==
    ASSUME NEW p, IsPulse(p)
    PROVE  IsList(OtxObservables(p))
<1> DEFINE usable == Selected(p.indicators, LAMBDA i :
                         i.type \in DOMAIN ObservableTypes /\ i.val # "")
           Hash(i) == IF ObservableTypes[i.type] = "file" THEN i.type ELSE ""
           found == MapSeq(usable, LAMBDA i : [type |-> ObservedType(i), val |-> i.val,
                                               hash |-> Hash(i), uuid |-> {i.uuid} \ {""}])
<1>1. IsList(usable)
    BY PickedFrom DEF Selected, IsPulse
<1>2. OtxObservables(p) = Distinct(found, LAMBDA o : <<o.type, o.hash, o.val>>)
    BY DEF OtxObservables
<1> HIDE DEF usable, Hash
<1>3. IsList(found)
    BY <1>1, MappedList DEF MapSeq
<1> HIDE DEF found
<1> QED
    BY <1>2, <1>3, PickedFrom DEF Distinct

LEMMA PulseSystemsAreListed ==
    ASSUME NEW p, IsPulse(p)
    PROVE  IsList(AutonomousSystems(p))
<1> DEFINE usable == Selected(p.indicators, LAMBDA i :
                         Facts[i.val].asn # NoAs
                         /\ (i.type \in {"as", "asn", "autonomous-system"}
                             \/ Facts[i.val].shape = "as"))
           Numbered(i) == [number |-> Facts[i.val].asn, uuid |-> {i.uuid} \ {""},
                        val |-> AsLabel([number |-> Facts[i.val].asn, name |-> i.name])]
           found == MapSeq(usable, Numbered)
           Best(n) == LET same == Selected(found, LAMBDA x : x.number = n)
                      IN same[CHOOSE i \in DOMAIN same : \A j \in DOMAIN same :
                                 Len(same[j].val) < Len(same[i].val)
                                 \/ (Len(same[j].val) = Len(same[i].val) /\ i <= j)]
           once == Distinct(found, LAMBDA x : x.number)
<1>1. IsList(usable)
    BY PickedFrom DEF Selected, IsPulse
<1>2. AutonomousSystems(p) = MapSeq(once, LAMBDA x : Best(x.number))
    BY DEF AutonomousSystems
<1> HIDE DEF usable, Numbered, Best
<1>3. IsList(found)
    BY <1>1, MappedList DEF MapSeq
<1> HIDE DEF found
<1>4. IsList(once)
    BY <1>3, PickedFrom DEF Distinct
<1> HIDE DEF once
<1> QED
    BY <1>2, <1>4, MappedList DEF MapSeq

LEMMA YaraRulesAreListed ==
    ASSUME NEW p, IsPulse(p)
    PROVE  IsList(YaraRules(p))
<1> DEFINE rules == Selected(p.indicators, LAMBDA i : i.type = "yara" /\ i.val # "")
           once == Distinct(rules, LAMBDA i : <<i.uuid, i.val>>)
<1>1. IsList(rules)
    BY PickedFrom DEF Selected, IsPulse
<1>2. YaraRules(p) = MapSeq(once, LAMBDA i :
           [val |-> FirstText(<<i.name, i.uuid, "yara detection rule">>),
            uuid |-> {i.uuid} \ {""}])
    BY DEF YaraRules
<1> HIDE DEF rules
<1>3. IsList(once)
    BY <1>1, PickedFrom DEF Distinct
<1> HIDE DEF once
<1> QED
    BY <1>2, <1>3, MappedList DEF MapSeq

LEMMA ValuesAreListed ==
    ASSUME NEW p, IsPulse(p), NEW f
    PROVE  IsList(ValuesOf(p, f))
<1>1. \A name : IsList(TextsOf(p, name))
    BY TextsAreListed DEF IsTextList
<1>2. IsList(OtherFamilies(p))
    BY <1>1, PickedFrom DEF OtherFamilies, Selected
<1>3. IsList(InferredInfrastructure(p))
    BY ShortLists DEF InferredInfrastructure
<1>4. IsList(Selected(TextsOf(p, f.name), IsSafeText))
    BY <1>1, PickedFrom DEF Selected
<1>5. IsList(Selected(TextsOf(p, f.name), LAMBDA t : Facts[t].shape = "position"))
    BY <1>1, PickedFrom DEF Selected
<1> QED
    BY <1>1, <1>2, <1>3, <1>4, <1>5, PulseAttacksAreListed, PulseCvesAreListed DEF ValuesOf

LEMMA OtxRecordIsRecord ==
    ASSUME NEW told, NEW ent \in KnownTypes, NEW conf \in 0 .. 100
    PROVE  \A val : IsOtxRecord(told, OtxRecord(ent, val, conf))
BY GivesNoAnchor DEF OtxRecord, IsOtxRecord

\* Marking a record with what it is changes none of that.
LEMMA MarkedOtxRecord ==
    ASSUME NEW told, NEW r, IsOtxRecord(told, r), NEW s, DOMAIN s = DOMAIN r,
           s.ent = r.ent, s.conf = r.conf, s.given = r.given, s.inference = r.inference
    PROVE  IsOtxRecord(told, s)
BY DEF IsOtxRecord

LEMMA StaysOtxRecord ==
    ASSUME NEW told, NEW r, IsOtxRecord(told, r), NEW name, NEW rel,
           NEW inference, inference \notin AdversaryLinks
    PROVE  IsOtxRecord(told, InInfrastructure(name, r, rel, inference))
<1>1. CASE name = ""
    BY <1>1 DEF InInfrastructure
<1>2. CASE name # ""
  <2> DEFINE given == <<"infrastructure", name>>
             s == [r EXCEPT !.rel = rel, !.given = given, !.inference = inference]
  <2>1. InInfrastructure(name, r, rel, inference) = s
      BY <1>2 DEF InInfrastructure
  <2>2. Gives(told, given, "")
      BY GivesNoAnchor
  <2> HIDE DEF given
  <2>3. /\ DOMAIN s = DOMAIN r /\ s.given = given /\ s.inference = inference
        /\ s.ent = r.ent /\ s.conf = r.conf
      BY DEF IsOtxRecord
  <2> HIDE DEF s
  <2> QED
      BY <2>1, <2>2, <2>3 DEF IsOtxRecord
<1> QED
    BY <1>1, <1>2

LEMMA EntitiesAreListed ==
    ASSUME NEW told, NEW p, IsPulse(p), AdversaryIsTold(told, p)
    PROVE  OtxList(told, EntityRecords(p))
<1> DEFINE Given(ent) == IF ent \in ActorAnchored /\ SoleAdversary(p) # NoAdversary
                         THEN <<"intrusion-set", SoleAdversary(p)>> ELSE <<"", "">>
           Told(f, v) == [OtxRecord(f.ent, v, f.conf) EXCEPT !.given = Given(f.ent),
                                                             !.targeted = TRUE]
           Of(f) == MapSeq(ValuesOf(p, f), LAMBDA v : Told(f, v))
           parts == [i \in DOMAIN EntityFields |-> Of(EntityFields[i])]
<1>1. EntityRecords(p) = FlattenSeq(parts)
    BY DEF EntityRecords, Concat
<1>5. \A ent : Gives(told, Given(ent), "")
    BY GivesNoAnchor DEF AdversaryIsTold
<1> HIDE DEF Given
<1>2. \A f \in ToSet(EntityFields) : OtxList(told, Of(f))
  <2> SUFFICES ASSUME NEW f \in ToSet(EntityFields) PROVE OtxList(told, Of(f))
      OBVIOUS
  <2>1. \A v : IsOtxRecord(told, Told(f, v))
    <3> SUFFICES ASSUME NEW v PROVE IsOtxRecord(told, Told(f, v))
        OBVIOUS
    <3>1. f.ent \in KnownTypes /\ f.conf \in 0 .. 100
        BY FieldsAreKnown
    <3>2. /\ Told(f, v).ent = f.ent /\ Told(f, v).conf = f.conf
          /\ Told(f, v).given = Given(f.ent) /\ Told(f, v).inference = ""
          /\ {"ent", "val", "conf", "given", "inference", "rel"} \subseteq DOMAIN Told(f, v)
        BY DEF OtxRecord
    <3> QED
        BY <1>5, <3>1, <3>2, GivesNoAnchor DEF IsOtxRecord
  <2> HIDE DEF Told
  <2>2. IsList(ValuesOf(p, f))
      BY ValuesAreListed
  <2> QED
      BY <2>1, <2>2, MappedOtx DEF MapSeq
<1> HIDE DEF Of
<1>3. \A i \in DOMAIN EntityFields : OtxList(told, parts[i])
    BY <1>2, FieldsAreKnown, ListLength
<1>4. /\ IsList(FlattenSeq(parts))
      /\ \A x \in ToSet(FlattenSeq(parts)) : \E i \in DOMAIN EntityFields : x \in ToSet(parts[i])
    BY <1>3, FieldsAreKnown, MappedFlat DEF OtxList
<1> QED
    BY <1>1, <1>3, <1>4 DEF OtxList

LEMMA PulseIsListed ==
    ASSUME NEW told, NEW p, IsPulse(p), AdversaryIsTold(told, p)
    PROVE  OtxList(told, OtxRecords(p))
<1> DEFINE name == FirstText(InferredInfrastructure(p))
           attacks == MapSeq(AttackIds(p), LAMBDA id : TechniqueRecord(name, id))
           systems == MapSeq(AutonomousSystems(p), LAMBDA as : AsRecord(name, as))
           markings == MapSeq(p.tlp, LAMBDA t : OtxRecord("marking", t, 80))
           texts == MapSeq(p.references, LAMBDA t : OtxRecord("external_reference", t, 50))
           observables == MapSeq(OtxObservables(p), LAMBDA o : ObservableRecord(name, o))
           Rule(r) == [OtxRecord("detection_rule", r.val, 70)
                          EXCEPT !.pattern = "yara", !.uuid = r.uuid]
           rules == MapSeq(YaraRules(p), LAMBDA r : Rule(r))
           techniques == IF name = "" THEN <<>> ELSE attacks
<1>1. OtxRecords(p) = EntityRecords(p) \o techniques \o systems \o markings \o texts
                      \o observables \o rules
    BY DEF OtxRecords, RecordsAround
<1> HIDE DEF name
<1>2. {"attack_pattern", "autonomous_system", "marking", "external_reference", "observable",
       "detection_rule"} \subseteq KnownTypes
    BY DEF KnownTypes
<1>15. \A ent \in {"attack_pattern", "autonomous_system", "marking", "external_reference",
                    "observable", "detection_rule"} :
       \A conf \in {50, 65, 70, 80} : \A val : IsOtxRecord(told, OtxRecord(ent, val, conf))
  <2> SUFFICES ASSUME NEW ent \in {"attack_pattern", "autonomous_system", "marking",
                                   "external_reference", "observable", "detection_rule"},
                      NEW conf \in {50, 65, 70, 80}
               PROVE  \A val : IsOtxRecord(told, OtxRecord(ent, val, conf))
      OBVIOUS
  <2>1. ent \in KnownTypes
      BY <1>2
  <2>2. conf \in 0 .. 100
      OBVIOUS
  <2> QED
      BY <2>1, <2>2, OtxRecordIsRecord
<1>14. {"otx-infrastructure-ttp", "otx-asn", "otx-network-observable"}
           \intersect AdversaryLinks = {}
    BY DEF AdversaryLinks
<1>3. \A id : IsOtxRecord(told, TechniqueRecord(name, id))
  <2>1. \A id : IsOtxRecord(told, OtxRecord("attack_pattern", id, 70))
      BY <1>15
  <2> QED
      BY <1>14, <2>1, StaysOtxRecord DEF TechniqueRecord
<1>4. \A as : IsOtxRecord(told, AsRecord(name, as))
  <2>1. \A as : IsOtxRecord(told, [OtxRecord("autonomous_system", as.val, 70)
                                EXCEPT !.rel = "related-to", !.uuid = as.uuid])
    <3> SUFFICES ASSUME NEW as
                 PROVE  IsOtxRecord(told, [OtxRecord("autonomous_system", as.val, 70)
                                              EXCEPT !.rel = "related-to", !.uuid = as.uuid])
        OBVIOUS
    <3> DEFINE r == OtxRecord("autonomous_system", as.val, 70)
               s == [r EXCEPT !.rel = "related-to", !.uuid = as.uuid]
    <3>1. IsOtxRecord(told, r)
        BY <1>15
    <3>2. /\ DOMAIN s = DOMAIN r /\ s.ent = r.ent /\ s.conf = r.conf /\ s.given = r.given
          /\ s.inference = r.inference
        BY DEF OtxRecord
    <3> HIDE DEF r, s
    <3>3. IsOtxRecord(told, s)
        BY <3>1, <3>2, MarkedOtxRecord
    <3> QED
        BY <3>3 DEF s, r
  <2> QED
      BY <1>14, <2>1, StaysOtxRecord DEF AsRecord
<1>5. \A o : IsOtxRecord(told, ObservableRecord(name, o))
  <2>1. \A o : IsOtxRecord(told, [OtxRecord("observable", o.val, 65) EXCEPT
                               !.obs = o.type, !.hash = o.hash # "", !.uuid = o.uuid])
    <3> SUFFICES ASSUME NEW o
                 PROVE  IsOtxRecord(told, [OtxRecord("observable", o.val, 65) EXCEPT
                                              !.obs = o.type, !.hash = o.hash # "",
                                              !.uuid = o.uuid])
        OBVIOUS
    <3> DEFINE r == OtxRecord("observable", o.val, 65)
               s == [r EXCEPT !.obs = o.type, !.hash = o.hash # "", !.uuid = o.uuid]
    <3>1. IsOtxRecord(told, r)
        BY <1>15
    <3>2. /\ DOMAIN s = DOMAIN r /\ s.ent = r.ent /\ s.conf = r.conf /\ s.given = r.given
          /\ s.inference = r.inference
        BY DEF OtxRecord
    <3> HIDE DEF r, s
    <3>3. IsOtxRecord(told, s)
        BY <3>1, <3>2, MarkedOtxRecord
    <3> QED
        BY <3>3 DEF s, r
  <2> SUFFICES ASSUME NEW o PROVE IsOtxRecord(told, ObservableRecord(name, o))
      OBVIOUS
  <2> DEFINE r == [OtxRecord("observable", o.val, 65) EXCEPT
                      !.obs = o.type, !.hash = o.hash # "", !.uuid = o.uuid]
             around == IF IsNetworkObservable(o) THEN name ELSE ""
  <2>2. ObservableRecord(name, o)
            = InInfrastructure(around, r, "consists-of", "otx-network-observable")
      BY DEF ObservableRecord
  <2>3. IsOtxRecord(told, r)
      BY <2>1
  <2>4. "otx-network-observable" \notin AdversaryLinks
      BY <1>14
  <2> HIDE DEF r, around
  <2> QED
      BY <2>2, <2>3, <2>4, StaysOtxRecord
<1>6. \A r : IsOtxRecord(told, Rule(r))
  <2> SUFFICES ASSUME NEW r PROVE IsOtxRecord(told, Rule(r))
      OBVIOUS
  <2> DEFINE s == OtxRecord("detection_rule", r.val, 70)
             t == Rule(r)
  <2>1. IsOtxRecord(told, s)
      BY <1>15
  <2>2. /\ DOMAIN t = DOMAIN s /\ t.ent = s.ent /\ t.conf = s.conf /\ t.given = s.given
        /\ t.inference = s.inference
      BY DEF OtxRecord
  <2> HIDE DEF s, t, Rule
  <2>3. IsOtxRecord(told, t)
      BY <2>1, <2>2, MarkedOtxRecord
  <2> QED
      BY <2>3 DEF t
<1> HIDE DEF Rule
<1>7. /\ IsList(p.tlp) /\ IsList(p.references) /\ IsList(AttackIds(p))
      /\ IsList(AutonomousSystems(p)) /\ IsList(OtxObservables(p)) /\ IsList(YaraRules(p))
    BY PulseAttacksAreListed, PulseSystemsAreListed, PulseObservablesAreListed, YaraRulesAreListed
       DEF IsPulse, IsTextList
<1>8. OtxList(told, attacks)
    BY <1>3, <1>7, MappedOtx DEF MapSeq
<1>9. OtxList(told, systems)
    BY <1>4, <1>7, MappedOtx DEF MapSeq
<1>10. OtxList(told, markings) /\ OtxList(told, texts)
  <2>1. \A t : IsOtxRecord(told, OtxRecord("marking", t, 80))
      BY <1>15
  <2>2. \A t : IsOtxRecord(told, OtxRecord("external_reference", t, 50))
      BY <1>15
  <2> QED
      BY <1>7, <2>1, <2>2, MappedOtx DEF MapSeq
<1>11. OtxList(told, observables)
    BY <1>5, <1>7, MappedOtx DEF MapSeq
<1>12. OtxList(told, rules)
    BY <1>6, <1>7, MappedOtx DEF MapSeq
<1> HIDE DEF attacks
<1>13. OtxList(told, techniques)
    BY <1>8, ShortLists DEF OtxList
<1> HIDE DEF systems, markings, texts, observables, rules, techniques
<1> QED
    BY <1>1, <1>9, <1>10, <1>11, <1>12, <1>13, EntitiesAreListed, JoinedOtx

LEMMA OtxIsStated ==
    ASSUME NEW item, NEW told, NEW p, IsPulse(p), AdversaryIsTold(told, p)
    PROVE  StatedList(item, told, OtxEvidence(item, p))
<1> DEFINE Said(f) == [Plain EXCEPT !.rel = f.rel, !.given = f.given, !.targeted = f.targeted,
                                    !.obs = f.obs, !.hash = f.hash, !.pattern = f.pattern,
                                    !.uuid = f.uuid, !.place = f.place,
                                    !.inference = f.inference]
           Of(f) == Record(item, f.ent, f.val, "otx", f.conf, Said(f))
           found == OtxRecords(p)
           parts == [i \in DOMAIN found |-> Of(found[i])]
<1>1. OtxEvidence(item, p) = FlattenSeq(parts)
    BY DEF OtxEvidence, Concat
<1>2. \A f : IsOtxRecord(told, f) => Unmarked(told, Said(f))
  <2> SUFFICES ASSUME NEW f, IsOtxRecord(told, f) PROVE Unmarked(told, Said(f))
      OBVIOUS
  <2>5. f.inference \notin AdversaryLinks /\ Gives(told, f.given, "")
      BY DEF IsOtxRecord
  <2> DEFINE a == [Plain EXCEPT !.rel = f.rel, !.given = f.given, !.targeted = f.targeted]
             b == [a EXCEPT !.obs = f.obs, !.hash = f.hash, !.pattern = f.pattern]
             c == [b EXCEPT !.uuid = f.uuid, !.place = f.place, !.inference = f.inference]
  <2>1. Said(f) = c
      BY DEF Plain
  <2>2. /\ Full(a) /\ a.norm = FALSE /\ a.validate = FALSE /\ a.inference = ""
        /\ a.given = f.given /\ a.parentVal = ""
      BY ZenonT(60) DEF Plain, Full
  <2> HIDE DEF Said, a
  <2>6. Unmarked(told, a) /\ a.parentVal = ""
      BY <2>2, <2>5, GivesNoAnchor DEF Unmarked
  <2>3. Unmarked(told, b)
      BY <2>6 DEF Plain, Unmarked, Full
  <2> HIDE DEF b
  <2>4. Unmarked(told, c)
    <3>1. /\ Full(c) /\ c.norm = b.norm /\ c.validate = b.validate
          /\ c.inference = f.inference /\ c.given = b.given /\ c.parentVal = b.parentVal
        BY <2>3 DEF Plain, Unmarked, Full
    <3> HIDE DEF c
    <3> QED
        BY <2>3, <2>5, <3>1 DEF Unmarked
  <2> QED
      BY <2>1, <2>4
<1> HIDE DEF Said
<1>3. IsList(found) /\ \A i \in DOMAIN found : IsOtxRecord(told, found[i])
    BY PulseIsListed, ListLength DEF OtxList
<1> HIDE DEF found
<1>4. \A f : IsOtxRecord(told, f) => MayState(f.ent, "otx", f.conf)
    BY KnownTypesAreTargets, MayStateKnown DEF IsOtxRecord
<1>6. \A ent, val : MayName(told, ent, val, "otx")
    BY DEF MayName
<1>5. \A i \in DOMAIN found : StatedList(item, told, parts[i])
    BY <1>2, <1>3, <1>4, <1>6, RecordIsStated
<1> QED
    BY <1>1, <1>3, <1>5, FlatStated

\* What a source says of nothing but values, with one other end.
LEMMA ValuesAreStated ==
    ASSUME NEW item, NEW told, NEW ent, NEW src, NEW conf, MayState(ent, src, conf),
           \A val : MayName(told, ent, val, src),
           NEW a, Unmarked(told, a), NEW values, IsList(values), NEW parts,
           parts = [i \in DOMAIN values |-> Record(item, ent, values[i], src, conf, a)]
    PROVE  StatedList(item, told, FlattenSeq(parts))
<1>1. \A v : StatedList(item, told, Record(item, ent, v, src, conf, a))
    BY RecordIsStated
<1>2. \A i \in DOMAIN values : StatedList(item, told, parts[i])
    BY <1>1
<1>3. parts = [i \in DOMAIN values |-> parts[i]]
    OBVIOUS
<1> QED
    BY <1>2, <1>3, FlatStated

LEMMA PlainIsUnmarked ==
    ASSUME NEW told
    PROVE  /\ Unmarked(told, Plain)
           /\ \A given : Gives(told, given, "") => Unmarked(told, [Plain EXCEPT !.given = given])
           /\ \A uuid : Unmarked(told, [Plain EXCEPT !.uuid = uuid])
           /\ Unmarked(told, [Plain EXCEPT !.described = TRUE])
<1>1. "" \notin AdversaryLinks /\ Gives(told, NoEnd, "")
    BY DEF AdversaryLinks, Gives, NoEnd, AnchorTypes
<1>2. Full(Plain) /\ Plain.norm = FALSE /\ Plain.validate = FALSE /\ Plain.inference = ""
      /\ Plain.given = NoEnd /\ Plain.parentVal = ""
    BY DEF Plain, Full
<1>3. \A given : LET a == [Plain EXCEPT !.given = given]
                 IN /\ Full(a) /\ a.norm = FALSE /\ a.validate = FALSE /\ a.inference = ""
                    /\ a.given = given /\ a.parentVal = ""
    BY ZenonT(60) DEF Plain, Full
<1>4. \A uuid : LET a == [Plain EXCEPT !.uuid = uuid]
                IN /\ Full(a) /\ a.norm = FALSE /\ a.validate = FALSE /\ a.inference = ""
                   /\ a.given = NoEnd /\ a.parentVal = ""
    BY ZenonT(60) DEF Plain, Full
<1>5. LET a == [Plain EXCEPT !.described = TRUE]
      IN /\ Full(a) /\ a.norm = FALSE /\ a.validate = FALSE /\ a.inference = ""
         /\ a.given = NoEnd /\ a.parentVal = ""
    BY DEF Plain, Full
<1> QED
    BY <1>1, <1>2, <1>3, <1>4, <1>5 DEF Unmarked

LEMMA AttackIsStated ==
    ASSUME NEW item, NEW told, NEW ids, IsList(ids)
    PROVE  StatedList(item, told, AttackEvidence(item, ids))
<1> DEFINE TechniqueSays(id, ent, conf, values) ==
               Concat(values, LAMBDA v :
                   Record(item, ent, v, "mitre-attack", conf,
                          [Plain EXCEPT !.given = <<"attack-pattern", id>>]))
           components(id) == Selected(Techniques[id].sources, LAMBDA s : Len(Facts[s].parts) = 2)
           Parts(id) == MapSeq(components(id), LAMBDA s : Facts[s].parts[2])
           Of(id) ==
               Record(item, "attack_pattern", id, "mitre-attack", 90,
                      [Plain EXCEPT !.described = TRUE])
               \o Record(item, "external_reference", Techniques[id].url, "mitre-attack", 90, Plain)
               \o TechniqueSays(id, "attack_tactic", 85, Techniques[id].tactics)
               \o TechniqueSays(id, "attack_platform", 75, Techniques[id].platforms)
               \o TechniqueSays(id, "attack_data_source", 80, Techniques[id].sources)
               \o TechniqueSays(id, "attack_data_component", 78, Parts(id))
               \o TechniqueSays(id, "detection_guidance", 70, Techniques[id].detection)
           known == Selected(ids, LAMBDA id : id \in DOMAIN Techniques)
           parts == [i \in DOMAIN known |-> Of(known[i])]
<1>1. AttackEvidence(item, ids) = FlattenSeq(parts)
    BY DEF AttackEvidence, Concat
<1>2. IsList(known) /\ \A id \in ToSet(known) : id \in DOMAIN Techniques
    BY PickedFrom DEF Selected
<1> HIDE DEF known
<1>3. \A id \in DOMAIN Techniques : StatedList(item, told, Of(id))
  <2> SUFFICES ASSUME NEW id \in DOMAIN Techniques PROVE StatedList(item, told, Of(id))
      OBVIOUS
  <2>1. \A ent, conf : ent \in KnownTypes /\ conf \in 0 .. 100 => MayState(ent, "mitre-attack", conf)
      BY KnownTypesAreTargets, MayStateKnown
  <2>2. /\ IsList(Techniques[id].tactics) /\ IsList(Techniques[id].platforms)
        /\ IsList(Techniques[id].sources) /\ IsList(Techniques[id].detection)
      BY TechniquesAssumption
  <2>3. IsList(Parts(id))
    <3>1. IsList(components(id))
        BY <2>2, PickedFrom DEF Selected
    <3> HIDE DEF components
    <3> QED
        BY <3>1, MappedList DEF MapSeq
  <2> HIDE DEF Parts
  <2>4. \A ent \in KnownTypes : \A conf \in 0 .. 100 : \A values :
            IsList(values) => StatedList(item, told, TechniqueSays(id, ent, conf, values))
    <3> SUFFICES ASSUME NEW ent \in KnownTypes, NEW conf \in 0 .. 100, NEW values, IsList(values)
                 PROVE  StatedList(item, told, TechniqueSays(id, ent, conf, values))
        OBVIOUS
    <3> DEFINE a == [Plain EXCEPT !.given = <<"attack-pattern", id>>]
    <3>1. Unmarked(told, a)
        BY PlainIsUnmarked, GivesNoAnchor
    <3>2. MayState(ent, "mitre-attack", conf) /\ \A val : MayName(told, ent, val, "mitre-attack")
        BY <2>1 DEF MayName
    <3>3. TechniqueSays(id, ent, conf, values)
          = FlattenSeq([i \in DOMAIN values |-> Record(item, ent, values[i], "mitre-attack", conf, a)])
        BY DEF Concat
    <3> HIDE DEF a, TechniqueSays
    <3> QED
        BY <3>1, <3>2, <3>3, ValuesAreStated
  <2> HIDE DEF TechniqueSays
  <2>5. {"attack_pattern", "external_reference", "attack_tactic", "attack_platform",
         "attack_data_source", "attack_data_component", "detection_guidance"}
            \subseteq KnownTypes
      BY DEF KnownTypes
  <2>6. \A ent \in KnownTypes : \A conf \in 0 .. 100 : \A val, a :
            Unmarked(told, a) => StatedList(item, told, Record(item, ent, val, "mitre-attack", conf, a))
      BY <2>1, RecordIsStated DEF MayName
  <2>7. /\ StatedList(item, told, Record(item, "attack_pattern", id, "mitre-attack", 90,
                                   [Plain EXCEPT !.described = TRUE]))
        /\ StatedList(item, told, Record(item, "external_reference", Techniques[id].url,
                                   "mitre-attack", 90, Plain))
    <3>1. Unmarked(told, Plain) /\ Unmarked(told, [Plain EXCEPT !.described = TRUE])
        BY PlainIsUnmarked
    <3>2. "attack_pattern" \in KnownTypes /\ "external_reference" \in KnownTypes
          /\ 90 \in 0 .. 100
        BY <2>5
    <3> QED
        BY <2>6, <3>1, <3>2, Zenon
  <2>8. /\ StatedList(item, told, TechniqueSays(id, "attack_tactic", 85, Techniques[id].tactics))
        /\ StatedList(item, told, TechniqueSays(id, "attack_platform", 75, Techniques[id].platforms))
        /\ StatedList(item, told, TechniqueSays(id, "attack_data_source", 80, Techniques[id].sources))
        /\ StatedList(item, told, TechniqueSays(id, "attack_data_component", 78, Parts(id)))
        /\ StatedList(item, told, TechniqueSays(id, "detection_guidance", 70, Techniques[id].detection))
      BY <2>2, <2>3, <2>4, <2>5
  <2> QED
      BY <2>7, <2>8, JoinedStated
<1> HIDE DEF Of
<1>4. \A i \in DOMAIN known : StatedList(item, told, parts[i])
    BY <1>2, <1>3, ListLength
<1> QED
    BY <1>1, <1>2, <1>4, FlatStated

\* What a pulse states.
LEMMA PulseIsStated ==
    ASSUME NEW item, NEW told, NEW p, IsPulse(p), AdversaryIsTold(told, p)
    PROVE  StatedList(item, told, PulseEvidence(item, p))
BY OtxIsStated, AttackIsStated, PulseAttacksAreListed, JoinedStated DEF PulseEvidence

---------------------------------------------------------------------------
(* What an event states *)

LEMMA TagClustersAreListed ==
    ASSUME NEW tags, IsList(tags)
    PROVE  /\ AreClusters(TagClusters(tags))
           /\ \A c \in ToSet(TagClusters(tags)) : IsGiven(c.val)
<1> DEFINE named == Selected(tags, LAMBDA t : t.words # {} /\ t.val # "")
           Cluster(t) == [type |-> t.text, words |-> t.words, val |-> t.val, uuid |-> "",
                          attack |-> FirstText(Facts[t.text].attacks),
                          cve |-> FirstText(Facts[t.text].cves), person |-> FALSE,
                          mitigates |-> "", meta |-> <<>>]
           clusters == MapSeq(named, Cluster)
           IsCluster(c) == c = [f \in ClusterFields |-> c[f]] /\ c.meta = <<>>
<1>1. IsList(named) /\ \A t \in ToSet(named) : IsGiven(t.val)
  <2> DEFINE S == {i \in DOMAIN tags : tags[i].words # {} /\ tags[i].val # ""}
  <2>1. named = Picked(tags, S) /\ S \subseteq DOMAIN tags
      BY DEF Selected
  <2>2. \A i \in S : IsGiven(tags[i].val)
      BY DEF IsGiven
  <2> HIDE DEF S, named
  <2> QED
      BY <2>1, <2>2, PickedFrom
<1>2. \A t : IsCluster(Cluster(t)) /\ Cluster(t).val = t.val
    BY DEF ClusterFields
<1>3. TagClusters(tags) = clusters
    BY DEF TagClusters
<1> HIDE DEF named, Cluster, IsCluster
<1>4. clusters = [i \in DOMAIN named |-> Cluster(named[i])]
    BY DEF MapSeq
<1> HIDE DEF clusters
<1>6. IsList(clusters) /\ \A c \in ToSet(clusters) : \E i \in DOMAIN named : c = clusters[i]
    BY <1>1, <1>4, MappedList
<1>5. \A c \in ToSet(clusters) : IsCluster(c) /\ IsGiven(c.val)
  <2>1. \A i \in DOMAIN named : IsGiven(named[i].val)
      BY <1>1, ListLength
  <2> QED
      BY <1>2, <1>4, <1>6, <2>1
<1> QED
    BY <1>3, <1>5, <1>6, ShortLists DEF IsCluster, AreClusters

\* A cluster is of one of the classes, or of none.
LEMMA ClassesAreKnown ==
    ASSUME NEW c
    PROVE  MayState(ClassOf(c).ent, "misp-galaxy", ClassOf(c).conf)
<1> DEFINE words == c.words \union IF c.person THEN {"person"} ELSE {}
           fits == {i \in DOMAIN GalaxyClasses : GalaxyClasses[i][1] \intersect words # {}}
           first == FirstOf(GalaxyClasses, fits)
           IsClass(row) == MayState(row[2], "misp-galaxy", row[3])
<1>1. DOMAIN GalaxyClasses = 1 .. 12
    BY DEF GalaxyClasses
<1>2. \A i \in 1 .. 12 : IsClass(GalaxyClasses[i])
  <2>1. {"attack_pattern", "intrusion_set", "vulnerability", "campaign", "course_of_action",
         "threat_actor_individual", "threat_actor", "malware", "tool", "target_sector",
         "target_country", "target_region"} \subseteq DOMAIN Targets
      BY KnownTypesAreTargets DEF KnownTypes, Victims, Locations
  <2>2. \A words_, ent, conf :
            ent \in DOMAIN Targets /\ ent # "infrastructure" /\ conf \in 0 .. 100
            /\ (ent = "campaign" => conf >= 70)
            => IsClass(<<words_, ent, conf>>)
      BY MayStateKnown
  <2> HIDE DEF IsClass
  <2> QED
      BY <2>1, <2>2, SMTT(60) DEF GalaxyClasses
<1>3. fits # {} => \E i \in 1 .. 12 : first = GalaxyClasses[i]
  <2>1. fits \subseteq Nat /\ fits \subseteq 1 .. 12
      BY <1>1
  <2> QED
      BY <2>1, FirstIsOne
<1>4. ClassOf(c) = IF words = {} \/ fits = {} THEN [ent |-> "", conf |-> 0]
                   ELSE [ent |-> first[2], conf |-> first[3]]
    BY DEF ClassOf
<1> HIDE DEF words, fits, first
<1>5. CASE words = {} \/ fits = {}
  <2>1. ClassOf(c) = [ent |-> "", conf |-> 0] /\ 0 \in 0 .. 100
    <3>1. 0 \in 0 .. 100
        OBVIOUS
    <3> QED
        BY <1>4, <1>5, <3>1, Zenon
  <2>3. \A r, x, y : r = [ent |-> x, conf |-> y] => r.ent = x /\ r.conf = y
      OBVIOUS
  <2>4. ClassOf(c).ent = "" /\ ClassOf(c).conf \in 0 .. 100
      BY <2>1, <2>3, Zenon
  <2>2. ~IsGiven(ClassOf(c).ent) /\ "misp-galaxy" # "misp-context"
      BY <2>4, Zenon DEF IsGiven
  <2>5. "misp-galaxy" \notin {"misp", "misp-attribute", "misp-object"}
      OBVIOUS
  <2> QED
      BY <2>2, <2>4, <2>5, Zenon DEF MayState
<1>6. CASE ~(words = {} \/ fits = {})
  <2>1. IsClass(first)
      BY <1>2, <1>3, <1>6
  <2>2. ClassOf(c).ent = first[2] /\ ClassOf(c).conf = first[3]
      BY <1>4, <1>6
  <2> QED
      BY <2>1, <2>2
<1> QED
    BY <1>5, <1>6

\* What the metadata of a cluster names.
LEMMA MetaIsKnown ==
    \A ent \in DOMAIN MetaConfidence :
        MayState(ent, "misp-galaxy", MetaConfidence[ent]) /\ ent \notin Adversaries
<1> DEFINE rows == { <<{"target_sector", "target_country", "target_organization"}, 70>>,
                     <<{"target_individual", "target_system", "security_platform", "channel",
                        "target_region"}, 65>>,
                     <<{"narrative", "event", "target_administrative_area", "target_city"}, 62>>,
                     <<{"target_position"}, 60>> }
           MayBe(ents) == ents \subseteq DOMAIN Targets
                          /\ ents \intersect ({"campaign", "infrastructure"}
                                               \union Adversaries) = {}
           Fits(row) == MayBe(row[1]) /\ row[2] \in 0 .. 100
<1>1. /\ MayBe({"target_sector", "target_country", "target_organization"})
      /\ MayBe({"target_individual", "target_system", "security_platform", "channel",
                "target_region"})
      /\ MayBe({"narrative", "event", "target_administrative_area", "target_city"})
      /\ MayBe({"target_position"})
    BY KnownTypesAreTargets DEF KnownTypes, Victims, Locations, Adversaries
<1> HIDE DEF MayBe
<1>2. \A ents, conf : MayBe(ents) /\ conf \in 0 .. 100 => Fits(<<ents, conf>>)
    OBVIOUS
<1>3. {70, 65, 62, 60} \subseteq 0 .. 100
    OBVIOUS
<1> HIDE DEF Fits
<1>4. \A row \in rows : Fits(row)
    BY <1>1, <1>2, <1>3
<1> HIDE DEF rows
<1>5. \A ent \in DOMAIN MetaConfidence :
          \E row \in rows : ent \in row[1] /\ MetaConfidence[ent] = row[2]
    BY TableRows DEF MetaConfidence, rows
<1>6. ASSUME NEW ent, NEW row, Fits(row), ent \in row[1]
      PROVE  MayState(ent, "misp-galaxy", row[2]) /\ ent \notin Adversaries
  <2>1. /\ ent \in DOMAIN Targets /\ ent \notin {"campaign", "infrastructure"}
        /\ row[2] \in 0 .. 100 /\ ent \notin Adversaries
      BY <1>6 DEF Fits, MayBe
  <2> QED
      BY <2>1, MayStateKnown
<1> QED
    BY <1>4, <1>5, <1>6

\* An end an item may give its records, and clusters it may name.
MayGive(told, anchor) == anchor[1] \in AnchorTypes => anchor \in told.anchors
MayNameAll(told, clusters) ==
    \A c \in ToSet(clusters) : MayName(told, ClassOf(c).ent, ValueOf(c), "misp-galaxy")

\* A record that names the cluster.
NamedBy(c, r) ==
    /\ r.src = "misp-galaxy" /\ r.ent = ClassOf(c).ent
    /\ r.val = CanonicalValue(ClassOf(c).ent, ValueOf(c))
NamedIn(clusters, rs) ==
    \A c \in ToSet(clusters) :
        IsGiven(ClassOf(c).ent) /\ IsGiven(ValueOf(c)) => \E r \in ToSet(rs) : NamedBy(c, r)

LEMMA RecordNames ==
    ASSUME NEW item, NEW ent, IsGiven(ent), NEW val, IsGiven(val), NEW src, NEW conf, NEW a
    PROVE  \E r : /\ Record(item, ent, val, src, conf, a) = <<r>>
                  /\ r.src = src /\ r.ent = ent /\ r.val = CanonicalValue(ent, val)
<1> DEFINE canonical == CanonicalValue(ent, val)
           b == IF canonical = val THEN a ELSE Renamed(a, val)
           sure == Confidence(ent, conf, src, b)
           r == TargetedRecord(item, ent, canonical, src, sure, b, Targets[ent])
<1>1. Record(item, ent, val, src, conf, a) = <<r>>
    BY DEF Record, NamedRecord, SureRecord, IsGiven
<1> HIDE DEF canonical, b, sure
<1>2. r.src = src /\ r.ent = ent /\ r.val = canonical
    BY TargetedFields
<1> HIDE DEF r
<1> QED
    BY <1>1, <1>2 DEF canonical

LEMMA MayBeGiven ==
    ASSUME NEW told, NEW anchor, MayGive(told, anchor)
    PROVE  \A parentVal : Gives(told, anchor, parentVal)
BY DEF MayGive, Gives

\* A campaign or an actor is the anchor of its own metadata.
LEMMA OwnAnchor ==
    ASSUME NEW c, AnchorOf(c) # NoEnd
    PROVE  AnchorOf(c)[2] = c.val
<1>1. ClassOf(c).ent \in {"campaign", "intrusion_set", "threat_actor"}
  <2>1. ClassOf(c).ent \in DOMAIN TypeOfAnchor
      BY DEF AnchorOf
  <2>2. DOMAIN TypeOfAnchor \subseteq {"campaign", "intrusion_set", "threat_actor"}
      BY TableRows DEF TypeOfAnchor
  <2> QED
      BY <2>1, <2>2
<1>2. ValueOf(c) = c.val
    BY <1>1 DEF ValueOf
<1>3. AnchorOf(c) = <<TypeOfAnchor[ClassOf(c).ent], ValueOf(c)>>
    BY DEF AnchorOf
<1> HIDE DEF AnchorOf
<1> QED
    BY <1>2, <1>3

LEMMA MetaIsStated ==
    ASSUME NEW item, NEW told, told.source = "misp", NEW c, IsList(c.meta),
           \A said \in ToSet(c.meta) : said.ent \in DOMAIN MetaConfidence,
           NEW anchor, MayGive(told, anchor)
    PROVE  StatedList(item, told, MetaEvidence(item, c, anchor))
<1> DEFINE source == IF AnchorOf(c) # NoEnd THEN AnchorOf(c) ELSE anchor
           safe == Selected(c.meta, LAMBDA m :
                       m.val # "" /\ IsSafeValue(m.ent, CanonicalValue(m.ent, m.val)))
           fields == Distinct(safe, LAMBDA m : <<m.ent, CanonicalValue(m.ent, m.val)>>)
           Said(m) == [Plain EXCEPT !.given = IF m.ent \in Victims THEN source ELSE NoEnd,
                                    !.parent = c.words, !.parentVal = c.val,
                                    !.targeted = m.targeted]
           parts == [i \in DOMAIN fields |->
                        Record(item, fields[i].ent, fields[i].val, "misp-galaxy",
                               MetaConfidence[fields[i].ent], Said(fields[i]))]
<1>1. MetaEvidence(item, c, anchor) = FlattenSeq(parts)
    BY DEF MetaEvidence, Concat
<1>2. \A m : Unmarked(told, Said(m))
  <2>5. Gives(told, source, c.val)
    <3>1. CASE AnchorOf(c) # NoEnd
        BY <3>1, OwnAnchor DEF Gives
    <3>2. CASE AnchorOf(c) = NoEnd
        BY <3>2, MayBeGiven
    <3> QED
        BY <3>1, <3>2
  <2> HIDE DEF source
  <2> SUFFICES ASSUME NEW m PROVE Unmarked(told, Said(m))
      OBVIOUS
  <2> DEFINE given == IF m.ent \in Victims THEN source ELSE NoEnd
             a == [Plain EXCEPT !.parent = c.words, !.parentVal = c.val, !.targeted = m.targeted]
             b == [a EXCEPT !.given = given]
  <2>6. Gives(told, given, c.val)
      BY <2>5, GivesNoAnchor
  <2> HIDE DEF given
  <2>1. Said(m) = b
    <3>1. Said(m) = [Plain EXCEPT !.given = given, !.parent = c.words, !.parentVal = c.val,
                                  !.targeted = m.targeted]
        BY DEF given
    <3> HIDE DEF Said
    <3> QED
        BY <3>1, ZenonT(60) DEF Plain
  <2> HIDE DEF Said, given
  <2>2. /\ Full(a) /\ a.norm = FALSE /\ a.validate = FALSE /\ a.inference = ""
        /\ a.parentVal = c.val
      BY ZenonT(60) DEF Plain, Full
  <2> HIDE DEF a
  <2>3. /\ Full(b) /\ b.norm = FALSE /\ b.validate = FALSE /\ b.inference = ""
        /\ b.parentVal = c.val /\ b.given = given
      BY <2>2 DEF Plain, Full
  <2> HIDE DEF b
  <2> QED
      BY <2>1, <2>3, <2>6, GivesNoAnchor DEF Unmarked
<1> HIDE DEF Said
<1>3. IsList(safe) /\ \A m \in ToSet(safe) : m.ent \in DOMAIN MetaConfidence
    BY PickedFrom DEF Selected
<1> HIDE DEF safe
<1>4. IsList(fields) /\ \A m \in ToSet(fields) : m.ent \in DOMAIN MetaConfidence
    BY <1>3, PickedFrom DEF Distinct
<1> HIDE DEF fields
<1>5. \A i \in DOMAIN fields : StatedList(item, told, parts[i])
  <2> SUFFICES ASSUME NEW i \in DOMAIN fields PROVE StatedList(item, told, parts[i])
      OBVIOUS
  <2>1. /\ MayState(fields[i].ent, "misp-galaxy", MetaConfidence[fields[i].ent])
        /\ MayName(told, fields[i].ent, fields[i].val, "misp-galaxy")
      BY <1>4, MetaIsKnown, ListLength DEF MayName
  <2> QED
      BY <1>2, <2>1, RecordIsStated
<1> QED
    BY <1>1, <1>4, <1>5, FlatStated

LEMMA GalaxiesAreStated ==
    ASSUME NEW item, NEW told, told.source = "misp", NEW clusters, AreClusters(clusters),
           MayNameAll(told, clusters), NEW anchor, MayGive(told, anchor)
    PROVE  /\ StatedList(item, told, GalaxyEvidence(item, clusters, anchor))
           /\ NamedIn(clusters, GalaxyEvidence(item, clusters, anchor))
<1> DEFINE Mitigates(c) == ClassOf(c).ent = "course_of_action" /\ c.mitigates # ""
           Given(c) == IF Mitigates(c) THEN <<"attack-pattern", c.mitigates>>
                       ELSE IF ClassOf(c).ent \in AnchoredByContext THEN anchor ELSE NoEnd
           Said(c) == [Plain EXCEPT !.given = Given(c), !.uuid = {c.uuid} \ {""},
                                    !.rel = IF Mitigates(c) THEN "mitigates" ELSE ""]
           Itself(c) == Record(item, ClassOf(c).ent, ValueOf(c), "misp-galaxy",
                               ClassOf(c).conf, Said(c))
           Of(c) == Itself(c) \o MetaEvidence(item, c, anchor)
           classed == Selected(clusters, LAMBDA c : ClassOf(c).ent # "")
           parts == [i \in DOMAIN classed |-> Of(classed[i])]
<1>1. GalaxyEvidence(item, clusters, anchor) = FlattenSeq(parts)
    BY DEF GalaxyEvidence, Concat
<1>2. \A c : Unmarked(told, Said(c))
  <2>4. \A c : Gives(told, Given(c), "")
      BY MayBeGiven, GivesNoAnchor
  <2> HIDE DEF Given, Mitigates
  <2> SUFFICES ASSUME NEW c PROVE Unmarked(told, Said(c))
      OBVIOUS
  <2> DEFINE a == [Plain EXCEPT !.given = Given(c)]
             b == [a EXCEPT !.uuid = {c.uuid} \ {""},
                            !.rel = IF Mitigates(c) THEN "mitigates" ELSE ""]
  <2>1. Said(c) = b
      BY DEF Plain
  <2>2. Unmarked(told, a)
      BY <2>4, PlainIsUnmarked
  <2> HIDE DEF Said, a
  <2>3. Unmarked(told, b)
      BY <2>2 DEF Plain, Unmarked, Full
  <2> QED
      BY <2>1, <2>3
<1> HIDE DEF Said
<1>3. IsList(classed) /\ \A c \in ToSet(classed) : c \in ToSet(clusters)
    BY PickedFrom DEF Selected, AreClusters
<1>7. \A c \in ToSet(clusters) : IsGiven(ClassOf(c).ent) => \E i \in DOMAIN classed : classed[i] = c
  <2> DEFINE S == {i \in DOMAIN clusters : ClassOf(clusters[i]).ent # ""}
  <2>1. ToSet(classed) = {clusters[i] : i \in S}
      BY PickedList DEF Selected, AreClusters
  <2>2. \A c \in ToSet(clusters) : IsGiven(ClassOf(c).ent) => c \in ToSet(classed)
      BY <2>1 DEF ToSet, IsGiven
  <2> QED
      BY <2>2, Zenon DEF ToSet
<1> HIDE DEF classed
<1>8. \A c : IsGiven(ClassOf(c).ent) /\ IsGiven(ValueOf(c)) =>
          \E r : Itself(c) = <<r>> /\ NamedBy(c, r)
    BY RecordNames DEF NamedBy
<1>4. \A c \in ToSet(clusters) : StatedList(item, told, Itself(c))
    BY <1>2, ClassesAreKnown, RecordIsStated DEF MayNameAll
<1> HIDE DEF Itself
<1>5. \A c \in ToSet(clusters) : StatedList(item, told, MetaEvidence(item, c, anchor))
    BY MetaIsStated DEF AreClusters
<1>6. \A i \in DOMAIN classed : StatedList(item, told, parts[i])
    BY <1>3, <1>4, <1>5, JoinedStated, ListLength
<1>9. ASSUME NEW c \in ToSet(clusters), IsGiven(ClassOf(c).ent), IsGiven(ValueOf(c))
      PROVE  \E r \in ToSet(FlattenSeq(parts)) : NamedBy(c, r)
  <2>1. PICK i \in DOMAIN classed : classed[i] = c
      BY <1>7, <1>9
  <2>2. PICK r : Itself(c) = <<r>> /\ NamedBy(c, r)
      BY <1>8, <1>9
  <2>3. IsList(Itself(c)) /\ IsList(MetaEvidence(item, c, anchor))
      BY <1>4, <1>5, <1>9 DEF StatedList
  <2>4. r \in ToSet(Itself(c))
      BY <2>2, ShortLists
  <2>5. r \in ToSet(Of(c))
      BY <2>3, <2>4, JoinedList
  <2>6. parts[i] = Of(c) /\ DOMAIN parts = DOMAIN classed
      BY <2>1
  <2> HIDE DEF Of, parts
  <2>7. IsList(parts) /\ \A j \in DOMAIN parts : IsList(parts[j])
    <3>1. IsList(parts)
        BY <1>3, MappedList DEF parts
    <3> QED
        BY <1>6, <2>6, <3>1 DEF StatedList
  <2>8. r \in ToSet(FlattenSeq(parts))
      BY <2>1, <2>5, <2>6, <2>7, Flattened
  <2> QED
      BY <2>2, <2>8
<1> QED
    BY <1>1, <1>3, <1>6, <1>9, FlatStated DEF NamedIn

\* The metadata of an event is what was extracted from it.
IsMeta(m) ==
    /\ IsList(m.tags) /\ AreClusters(m.galaxies)
    /\ IsList(m.vulnerabilities) /\ IsList(m.campaigns)
    /\ IsList(m.victims)
    /\ \A v \in ToSet(m.victims) : MayState(v.ent, "misp-attribute", v.conf)
    /\ IsList(m.reports) /\ IsList(m.references)
    /\ IsList(m.sightings) /\ \A g \in ToSet(m.sightings) : g.conf \in 0 .. 100
    /\ IsList(m.infrastructure)
    /\ \A f \in ToSet(m.infrastructure) : IsFact(f)
    /\ IsList(m.rules) /\ \A r \in ToSet(m.rules) : IsList(r.attacks)

LEMMA MetadataIsListed ==
    ASSUME NEW e, IsMispEvent(e), NEW m, m = Metadata(e)
    PROVE  IsMeta(m)
<1>1. /\ m.tags = e.tags /\ m.galaxies = Galaxies(e) /\ m.vulnerabilities = Vulnerabilities(e)
      /\ m.campaigns = Campaigns(e) /\ m.victims = Victimology(e)
      /\ m.reports = EventReports(e) /\ m.sightings = Sightings(e)
      /\ m.references = ObjectReferences(e) /\ m.infrastructure = Infrastructure(e)
      /\ m.rules = DetectionRules(e)
    BY DEF Metadata
<1>2. IsList(m.tags) /\ AreClusters(m.galaxies)
    BY <1>1, EventIsListed, GalaxiesAreListed
<1>3. IsList(m.vulnerabilities) /\ IsList(m.campaigns)
    BY <1>1, VulnerabilitiesAreListed, CampaignsAreListed
<1>4. /\ IsList(m.victims)
      /\ \A v \in ToSet(m.victims) : MayState(v.ent, "misp-attribute", v.conf)
  <2>1. /\ IsList(Victimology(e))
        /\ \A v \in ToSet(Victimology(e)) : MayState(v.ent, "misp-attribute", v.conf)
      BY VictimsAreListed
  <2> QED
      BY <1>1, <2>1, Zenon
<1>5. /\ IsList(m.reports) /\ IsList(m.references)
      /\ IsList(m.sightings) /\ \A g \in ToSet(m.sightings) : g.conf \in 0 .. 100
    BY <1>1, ReportsAreListed, ReferencesAreListed, SightingsAreListed
<1>6. /\ IsList(m.infrastructure)
      /\ \A f \in ToSet(m.infrastructure) : IsFact(f)
  <2>1. /\ IsList(Infrastructure(e))
        /\ \A f \in ToSet(Infrastructure(e)) : IsFact(f)
      BY InfrastructureIsListed
  <2> QED
      BY <1>1, <2>1, Zenon
<1>7. IsList(m.rules) /\ \A r \in ToSet(m.rules) : IsList(r.attacks)
    BY <1>1, RulesAreListed
<1> QED
    BY <1>2, <1>3, <1>4, <1>5, <1>6, <1>7, Zenon DEF IsMeta

\* MISP itself may state any of the kinds it states with this certainty.
LEMMA MispMayState ==
    /\ \A told, ent, val : MayName(told, ent, val, "misp")
    /\ MayState("collector", "misp", 80) /\ MayState("source_identity", "misp", 70)
    /\ MayState("marking", "misp", 80) /\ MayState("tag", "misp", 35)
    /\ MayState("vulnerability", "misp", 75) /\ MayState("campaign", "misp", 70)
    /\ MayState("event_report", "misp", 70) /\ MayState("object_reference", "misp", 60)
    /\ \A conf \in 0 .. 100 : MayState("sighting", "misp", conf)
    /\ \A conf \in {70, 85} : MayState("detection_rule", "misp", conf)
<1>1. {"collector", "source_identity", "marking", "tag", "vulnerability", "event_report",
       "object_reference", "sighting", "detection_rule", "campaign"}
           \subseteq DOMAIN Targets \ Adversaries
    BY KnownTypesAreTargets DEF KnownTypes, Adversaries
<1>2. \A ent \in DOMAIN Targets \ Adversaries : \A conf \in 0 .. 100 :
          ent \notin {"campaign", "infrastructure"} => MayState(ent, "misp", conf)
    BY MayStateKnown
<1>3. MayState("campaign", "misp", 70)
    BY <1>1, MayStateKnown
<1>4. \A told, ent, val : MayName(told, ent, val, "misp")
    BY DEF MayName
<1> QED
    BY <1>1, <1>2, <1>3, <1>4

\* What is named in one of two lists is named in both together.
LEMMA JoinedNamed ==
    ASSUME NEW item, NEW told, NEW s, StatedList(item, told, s), NEW t, StatedList(item, told, t),
           NEW clusters, NamedIn(clusters, s) \/ NamedIn(clusters, t)
    PROVE  NamedIn(clusters, s \o t)
BY JoinedList DEF StatedList, NamedIn

LEMMA TagsAreStated ==
    ASSUME NEW item, NEW told, told.source = "misp", NEW m, IsMeta(m),
           MayNameAll(told, TagClusters(m.tags))
    PROVE  /\ StatedList(item, told, TagEvidence(item, m))
           /\ NamedIn(TagClusters(m.tags), TagEvidence(item, m))
<1> DEFINE tlp == Selected(m.tags, LAMBDA t : t.tlp # "")
           plain == Selected(m.tags, LAMBDA t : t.tlp = "")
           once == Distinct(tlp, LAMBDA t : t.tlp)
           markings == [i \in DOMAIN once |-> Record(item, "marking", once[i].tlp, "misp", 80, Plain)]
           tags == [i \in DOMAIN plain |-> Record(item, "tag", plain[i].text, "misp", 35, Plain)]
<1>1. TagEvidence(item, m)
      = Record(item, "collector", m.collector, "misp", 80, Plain)
        \o Record(item, "source_identity", m.original, "misp", 70, Plain)
        \o FlattenSeq(markings) \o FlattenSeq(tags)
        \o GalaxyEvidence(item, TagClusters(m.tags), NoEnd)
    BY DEF TagEvidence, Concat
<1>2. IsList(tlp) /\ IsList(plain)
    BY PickedFrom DEF Selected, IsMeta
<1> HIDE DEF tlp, plain
<1>3. IsList(once)
    BY <1>2, PickedFrom DEF Distinct
<1> HIDE DEF once
<1>4. \A val : /\ StatedList(item, told, Record(item, "marking", val, "misp", 80, Plain))
               /\ StatedList(item, told, Record(item, "tag", val, "misp", 35, Plain))
               /\ StatedList(item, told, Record(item, "collector", val, "misp", 80, Plain))
               /\ StatedList(item, told, Record(item, "source_identity", val, "misp", 70, Plain))
    BY MispMayState, PlainIsUnmarked, RecordIsStated
<1>5. StatedList(item, told, FlattenSeq(markings))
    BY <1>3, <1>4, FlatStated
<1>6. StatedList(item, told, FlattenSeq(tags))
    BY <1>2, <1>4, FlatStated
<1> DEFINE galaxies == GalaxyEvidence(item, TagClusters(m.tags), NoEnd)
<1>7. StatedList(item, told, galaxies) /\ NamedIn(TagClusters(m.tags), galaxies)
  <2>1. MayGive(told, NoEnd)
      BY DEF MayGive, NoEnd, AnchorTypes
  <2> QED
      BY <2>1, TagClustersAreListed, GalaxiesAreStated DEF IsMeta
<1> DEFINE others == Record(item, "collector", m.collector, "misp", 80, Plain)
                     \o Record(item, "source_identity", m.original, "misp", 70, Plain)
                     \o FlattenSeq(markings) \o FlattenSeq(tags)
<1> HIDE DEF markings, tags, galaxies
<1>8. StatedList(item, told, others)
    BY <1>4, <1>5, <1>6, JoinedStated
<1>9. TagEvidence(item, m) = others \o galaxies
    BY <1>1 DEF galaxies
<1> HIDE DEF others
<1> QED
    BY <1>7, <1>8, <1>9, JoinedStated, JoinedNamed

LEMMA VictimsAreStated ==
    ASSUME NEW item, NEW told, NEW found, IsList(found),
           \A v \in ToSet(found) : MayState(v.ent, "misp-attribute", v.conf),
           NEW anchor, MayGive(told, anchor)
    PROVE  StatedList(item, told, VictimEvidence(item, found, anchor))
<1> DEFINE safe == Selected(found, LAMBDA v : IsSafeValue(v.ent, CanonicalValue(v.ent, v.val)))
           Said(v) == [Plain EXCEPT !.given = anchor, !.uuid = v.uuids]
           parts == [i \in DOMAIN safe |->
                        Record(item, safe[i].ent, safe[i].val, "misp-attribute", safe[i].conf,
                               Said(safe[i]))]
<1>1. VictimEvidence(item, found, anchor) = FlattenSeq(parts)
    BY DEF VictimEvidence, Concat
<1>2. \A v : Unmarked(told, Said(v))
  <2> SUFFICES ASSUME NEW v PROVE Unmarked(told, Said(v))
      OBVIOUS
  <2>1. LET a == Said(v)
        IN /\ Full(a) /\ a.norm = FALSE /\ a.validate = FALSE /\ a.inference = ""
           /\ a.given = anchor /\ a.parentVal = ""
      BY ZenonT(60) DEF Plain, Full
  <2> HIDE DEF Said
  <2> QED
      BY <2>1, MayBeGiven, GivesNoAnchor DEF Unmarked
<1>5. \A ent, val : MayName(told, ent, val, "misp-attribute")
    BY DEF MayName
<1> HIDE DEF Said
<1>3. IsList(safe) /\ \A v \in ToSet(safe) : v \in ToSet(found)
    BY PickedFrom DEF Selected
<1> HIDE DEF safe
<1>4. \A i \in DOMAIN safe : StatedList(item, told, parts[i])
  <2> SUFFICES ASSUME NEW i \in DOMAIN safe PROVE StatedList(item, told, parts[i])
      OBVIOUS
  <2>1. MayState(safe[i].ent, "misp-attribute", safe[i].conf)
      BY <1>3, ListLength
  <2> QED
      BY <1>2, <1>5, <2>1, RecordIsStated
<1> QED
    BY <1>1, <1>3, <1>4, FlatStated

LEMMA RuleIsStated ==
    ASSUME NEW item, NEW told, NEW r, IsList(r.attacks)
    PROVE  StatedList(item, told, RuleEvidence(item, r))
<1> DEFINE ids == IF r.type \in {"sigma", "yara"} /\ r.compat THEN r.attacks ELSE <<>>
           Conf(id) == IF id = "" THEN 70 ELSE 85
           Said(id) == [Plain EXCEPT !.pattern = r.type, !.compat = r.compat,
                                     !.uuid = r.uuids,
                                     !.rel = IF id = "" THEN "" ELSE "detects",
                                     !.given = IF id = "" THEN NoEnd
                                               ELSE <<"attack-pattern", id>>]
           Of(id) == Record(item, "detection_rule", r.val, "misp", Conf(id), Said(id))
           parts == [i \in DOMAIN ids |-> Of(ids[i])]
<1>1. RuleEvidence(item, r) = IF ids = <<>> THEN Of("") ELSE FlattenSeq(parts)
    BY DEF RuleEvidence, Concat
<1>2. \A id : Unmarked(told, Said(id))
  <2> SUFFICES ASSUME NEW id PROVE Unmarked(told, Said(id))
      OBVIOUS
  <2> DEFINE given == IF id = "" THEN NoEnd ELSE <<"attack-pattern", id>>
             a == [Plain EXCEPT !.pattern = r.type, !.compat = r.compat, !.uuid = r.uuids]
             b == [a EXCEPT !.rel = IF id = "" THEN "" ELSE "detects", !.given = given]
  <2>1. Said(id) = b
      BY DEF Plain
  <2>4. Gives(told, given, "")
      BY GivesNoAnchor
  <2> HIDE DEF Said, given
  <2>2. /\ Full(a) /\ a.norm = FALSE /\ a.validate = FALSE /\ a.inference = ""
        /\ a.parentVal = ""
      BY ZenonT(60) DEF Plain, Full
  <2> HIDE DEF a
  <2>3. /\ Full(b) /\ b.norm = FALSE /\ b.validate = FALSE /\ b.inference = ""
        /\ b.parentVal = "" /\ b.given = given
      BY <2>2 DEF Plain, Full
  <2> HIDE DEF b
  <2> QED
      BY <2>1, <2>3, <2>4, GivesNoAnchor DEF Unmarked
<1>3. IsList(ids)
    BY ShortLists
<1>4. \A id : Conf(id) \in {70, 85}
    OBVIOUS
<1> HIDE DEF ids, Said, Conf
<1>5. \A id : StatedList(item, told, Of(id))
    BY <1>2, <1>4, MispMayState, RecordIsStated
<1> HIDE DEF Of
<1>6. StatedList(item, told, FlattenSeq(parts))
    BY <1>3, <1>5, FlatStated
<1> QED
    BY <1>1, <1>5, <1>6

\* What the fact of an object sets of its record.
FactSaid(f) ==
    [Plain EXCEPT !.type = f.type, !.rel = f.rel, !.given = f.anchor,
                  !.number = f.number # NoAs, !.obs = f.obs, !.uuid = f.uuids]

LEMMA InfrastructureIsStated ==
    ASSUME NEW item, NEW told, NEW facts, IsList(facts),
           \A f \in ToSet(facts) : IsFact(f),
           NEW parts, parts = [i \in DOMAIN facts |->
                                  Record(item, facts[i].ent, facts[i].val, "misp-object",
                                         facts[i].conf, FactSaid(facts[i]))]
    PROVE  StatedList(item, told, FlattenSeq(parts))
<1>1. \A f : IsFact(f) => Unmarked(told, FactSaid(f))
  <2> SUFFICES ASSUME NEW f, IsFact(f) PROVE Unmarked(told, FactSaid(f))
      OBVIOUS
  <2> DEFINE a == [Plain EXCEPT !.type = f.type, !.rel = f.rel, !.given = f.anchor]
             b == [a EXCEPT !.number = f.number # NoAs, !.obs = f.obs, !.uuid = f.uuids]
  <2>1. FactSaid(f) = b
      BY DEF Plain, FactSaid
  <2>2. /\ Full(a) /\ a.norm = FALSE /\ a.validate = FALSE /\ a.inference = ""
        /\ a.given = f.anchor /\ a.parentVal = ""
      BY ZenonT(60) DEF Plain, Full
  <2> HIDE DEF a
  <2>4. Unmarked(told, a)
      BY <2>2, GivesNoAnchor DEF Unmarked, IsFact
  <2>3. Unmarked(told, b)
      BY <2>4 DEF Plain, Unmarked, Full
  <2> QED
      BY <2>1, <2>3
<1>4. \A ent, val : MayName(told, ent, val, "misp-object")
    BY DEF MayName
<1>2. \A i \in DOMAIN facts : StatedList(item, told, parts[i])
  <2> SUFFICES ASSUME NEW i \in DOMAIN facts PROVE StatedList(item, told, parts[i])
      OBVIOUS
  <2>1. IsFact(facts[i]) /\ MayState(facts[i].ent, "misp-object", facts[i].conf)
      BY ListLength DEF IsFact
  <2> QED
      BY <1>1, <1>4, <2>1, RecordIsStated
<1>3. parts = [i \in DOMAIN facts |-> parts[i]]
    OBVIOUS
<1> QED
    BY <1>2, <1>3, FlatStated

\* What an event states.
LEMMA EventIsStated ==
    ASSUME NEW item, NEW told, told.source = "misp", NEW m, IsMeta(m),
           MayNameAll(told, m.galaxies), MayNameAll(told, TagClusters(m.tags)),
           MayGive(told, ContextAnchor(m))
    PROVE  /\ StatedList(item, told, EventEvidence(item, m))
           /\ NamedIn(m.galaxies, EventEvidence(item, m))
           /\ NamedIn(TagClusters(m.tags), EventEvidence(item, m))
<1> DEFINE Said1(v) == [Plain EXCEPT !.uuid = v]
           ReportSays(r) == [Plain EXCEPT !.uuid = {r.uuid} \ {""}, !.described = TRUE]
           Sighting(s) == [Plain EXCEPT !.positive = s.positive, !.to = s.of]
           Reference(r) == [Plain EXCEPT !.rel = r.rel, !.from = r.from, !.to = r.to]
           vulnerabilities == [i \in DOMAIN m.vulnerabilities |->
               Record(item, "vulnerability", m.vulnerabilities[i].val, "misp", 75,
                      Said1(m.vulnerabilities[i].uuids))]
           campaigns == [i \in DOMAIN m.campaigns |->
               Record(item, "campaign", m.campaigns[i].val, "misp", 70,
                      Said1(m.campaigns[i].uuids))]
           reports == [i \in DOMAIN m.reports |->
               Record(item, "event_report", m.reports[i].title, "misp", 70,
                      ReportSays(m.reports[i]))]
           sightings == [i \in DOMAIN m.sightings |->
               Record(item, "sighting", m.sightings[i].val, "misp", m.sightings[i].conf,
                      Sighting(m.sightings[i]))]
           Between(r) == r.from \o " " \o r.rel \o " " \o r.to
           references == [i \in DOMAIN m.references |->
               Record(item, "object_reference", Between(m.references[i]), "misp", 60,
                      Reference(m.references[i]))]
           found == m.infrastructure
           facts == [i \in DOMAIN found |->
               Record(item, found[i].ent, found[i].val, "misp-object", found[i].conf,
                      FactSaid(found[i]))]
           rules == [i \in DOMAIN m.rules |-> RuleEvidence(item, m.rules[i])]
<1>1. StatedEvidence(item, m)
      = FlattenSeq(vulnerabilities) \o FlattenSeq(campaigns)
        \o VictimEvidence(item, m.victims, ContextAnchor(m))
        \o FlattenSeq(reports) \o FlattenSeq(sightings) \o FlattenSeq(references)
        \o FlattenSeq(facts) \o FlattenSeq(rules)
    BY DEF StatedEvidence, Concat, FactSaid
<1>2. /\ \A v : Unmarked(told, Said1(v))
      /\ \A r : Unmarked(told, ReportSays(r))
      /\ \A s : Unmarked(told, Sighting(s))
      /\ \A r : Unmarked(told, Reference(r))
  <2>1. \A v : Unmarked(told, Said1(v))
      BY PlainIsUnmarked
  <2>2. ASSUME NEW r PROVE Unmarked(told, ReportSays(r))
    <3>1. LET a == ReportSays(r)
          IN /\ Full(a) /\ a.norm = FALSE /\ a.validate = FALSE /\ a.inference = ""
             /\ a.given = NoEnd /\ a.parentVal = ""
        BY ZenonT(60) DEF Plain, Full
    <3> HIDE DEF ReportSays
    <3> QED
        BY <3>1, GivesNoAnchor DEF Unmarked
  <2>3. ASSUME NEW s PROVE Unmarked(told, Sighting(s))
    <3>1. LET a == Sighting(s)
          IN /\ Full(a) /\ a.norm = FALSE /\ a.validate = FALSE /\ a.inference = ""
             /\ a.given = NoEnd /\ a.parentVal = ""
        BY ZenonT(60) DEF Plain, Full
    <3> HIDE DEF Sighting
    <3> QED
        BY <3>1, GivesNoAnchor DEF Unmarked
  <2>4. ASSUME NEW r PROVE Unmarked(told, Reference(r))
    <3>1. LET a == Reference(r)
          IN /\ Full(a) /\ a.norm = FALSE /\ a.validate = FALSE /\ a.inference = ""
             /\ a.given = NoEnd /\ a.parentVal = ""
        BY ZenonT(60) DEF Plain, Full
    <3> HIDE DEF Reference
    <3> QED
        BY <3>1, GivesNoAnchor DEF Unmarked
  <2> QED
      BY <2>1, <2>2, <2>3, <2>4
<1> HIDE DEF Said1, ReportSays, Sighting, Reference, Between
<1>3. StatedList(item, told, FlattenSeq(vulnerabilities))
  <2>1. \A val, v : StatedList(item, told, Record(item, "vulnerability", val, "misp", 75, Said1(v)))
      BY <1>2, MispMayState, RecordIsStated
  <2>2. IsList(m.vulnerabilities)
      BY DEF IsMeta
  <2> QED
      BY <2>1, <2>2, FlatStated
<1>4. StatedList(item, told, FlattenSeq(campaigns))
  <2>1. \A val, v : StatedList(item, told, Record(item, "campaign", val, "misp", 70, Said1(v)))
      BY <1>2, MispMayState, RecordIsStated
  <2>2. IsList(m.campaigns)
      BY DEF IsMeta
  <2> QED
      BY <2>1, <2>2, FlatStated
<1>5. StatedList(item, told, VictimEvidence(item, m.victims, ContextAnchor(m)))
    BY VictimsAreStated DEF IsMeta
<1>6. StatedList(item, told, FlattenSeq(reports))
  <2>1. \A val, r : StatedList(item, told, Record(item, "event_report", val, "misp", 70, ReportSays(r)))
      BY <1>2, MispMayState, RecordIsStated
  <2>2. IsList(m.reports)
      BY DEF IsMeta
  <2> QED
      BY <2>1, <2>2, FlatStated
<1>7. StatedList(item, told, FlattenSeq(sightings))
  <2>1. \A val, s : \A conf \in 0 .. 100 :
            StatedList(item, told, Record(item, "sighting", val, "misp", conf, Sighting(s)))
      BY <1>2, MispMayState, RecordIsStated
  <2>2. IsList(m.sightings) /\ \A i \in DOMAIN m.sightings : m.sightings[i].conf \in 0 .. 100
      BY ListLength DEF IsMeta
  <2> QED
      BY <2>1, <2>2, FlatStated
<1>8. StatedList(item, told, FlattenSeq(references))
  <2>1. \A val, r :
            StatedList(item, told, Record(item, "object_reference", val, "misp", 60, Reference(r)))
      BY <1>2, MispMayState, RecordIsStated
  <2>2. IsList(m.references)
      BY DEF IsMeta
  <2> QED
      BY <2>1, <2>2, FlatStated
<1>9. StatedList(item, told, FlattenSeq(facts))
  <2>1. IsList(found) /\ \A f \in ToSet(found) : IsFact(f)
      BY DEF IsMeta
  <2> HIDE DEF found
  <2> QED
      BY <2>1, InfrastructureIsStated
<1>10. StatedList(item, told, FlattenSeq(rules))
  <2>1. IsList(m.rules) /\ \A i \in DOMAIN m.rules : IsList(m.rules[i].attacks)
      BY ListLength DEF IsMeta
  <2> QED
      BY <2>1, RuleIsStated, FlatStated
<1> HIDE DEF vulnerabilities, campaigns, reports, sightings, references, facts, rules
<1>11. StatedList(item, told, StatedEvidence(item, m))
    BY <1>1, <1>3, <1>4, <1>5, <1>6, <1>7, <1>8, <1>9, <1>10, JoinedStated
<1> DEFINE tagged == TagEvidence(item, m)
           galaxies == GalaxyEvidence(item, m.galaxies, ContextAnchor(m))
           others == StatedEvidence(item, m)
<1>12. StatedList(item, told, galaxies) /\ NamedIn(m.galaxies, galaxies)
    BY GalaxiesAreStated DEF IsMeta
<1>13. StatedList(item, told, tagged) /\ NamedIn(TagClusters(m.tags), tagged)
    BY TagsAreStated
<1>14. EventEvidence(item, m) = (tagged \o galaxies) \o others
    BY DEF EventEvidence
<1> HIDE DEF tagged, galaxies, others
<1>15. /\ StatedList(item, told, tagged \o galaxies)
       /\ NamedIn(m.galaxies, tagged \o galaxies)
       /\ NamedIn(TagClusters(m.tags), tagged \o galaxies)
    BY <1>12, <1>13, JoinedStated, JoinedNamed
<1> QED
    BY <1>11, <1>14, <1>15, JoinedStated, JoinedNamed DEF others

---------------------------------------------------------------------------
(* What follows from the records of an event *)

\* Of the records at some places, the first of each entity.
Firsts(s) == Distinct(s, LAMBDA r : <<r.ent, r.type, r.val>>)
SameEntity(r, s) == r.ent = s.ent /\ r.type = s.type /\ r.val = s.val

LEMMA FirstsArePicked ==
    ASSUME NEW rs, IsList(rs), NEW S, S \subseteq DOMAIN rs
    PROVE  /\ IsList(Firsts(Picked(rs, S)))
           /\ \A x \in ToSet(Firsts(Picked(rs, S))) :
                 \E i \in S : x = rs[i] /\ \A j \in S : j < i => ~SameEntity(rs[j], rs[i])
<1> DEFINE t == Picked(rs, S)
           n == Cardinality(S)
           Key(r) == <<r.ent, r.type, r.val>>
           places == {k \in DOMAIN t : \A l \in DOMAIN t : l < k => Key(t[l]) # Key(t[k])}
<1>1. DOMAIN rs = 1 .. Len(rs) /\ Len(rs) \in Nat
    BY ListLength
<1>2. PICK place : Ordered(place, S) /\ PickedAt(rs, place, S)
    BY <1>1, PickedPlaces
<1>3. IsList(t)
    BY PickedFrom
<1>4. Firsts(t) = Picked(t, places)
    BY DEF Firsts, Distinct
<1>5. IsList(Picked(t, places)) /\ \A x \in ToSet(Picked(t, places)) : \E k \in places : x = t[k]
    BY <1>3, PickedFrom
<1>6. DOMAIN t = 1 .. n /\ \A k \in 1 .. n : t[k] = rs[place[k]]
    BY <1>2 DEF PickedAt
<1> HIDE DEF t, n
<1>7. ASSUME NEW k \in places
      PROVE  /\ place[k] \in S /\ t[k] = rs[place[k]]
             /\ \A j \in S : j < place[k] => ~SameEntity(rs[j], rs[place[k]])
  <2>1. k \in 1 .. n /\ \A l \in 1 .. n : l < k => Key(t[l]) # Key(t[k])
      BY <1>6
  <2>2. place[k] \in S /\ t[k] = rs[place[k]]
      BY <1>2, <1>6, <2>1 DEF Ordered, n
  <2>3. ASSUME NEW j \in S, j < place[k]
        PROVE  ~SameEntity(rs[j], rs[place[k]])
    <3>1. PICK l \in 1 .. n : place[l] = j
        BY <1>2 DEF Ordered, n
    <3>2. l < k
        BY <1>2, <2>1, <2>3, <3>1 DEF Ordered, n
    <3>3. Key(t[l]) # Key(t[k])
        BY <2>1, <3>2
    <3>4. Key(rs[j]) # Key(rs[place[k]])
        BY <1>6, <2>1, <3>1, <3>3
    <3> QED
        BY <3>4, Zenon DEF SameEntity
  <2> QED
      BY <2>2, <2>3
<1> HIDE DEF places
<1> QED
    BY <1>4, <1>5, <1>7 DEF t

\* The first record of an entity stands for all of them.
LEMMA FirstsHaveAll ==
    ASSUME NEW rs, IsList(rs), NEW S, S \subseteq DOMAIN rs, NEW i \in S
    PROVE  \E x \in ToSet(Firsts(Picked(rs, S))) : SameEntity(x, rs[i])
<1> DEFINE t == Picked(rs, S)
           Key(r) == <<r.ent, r.type, r.val>>
           places == {k \in DOMAIN t : \A l \in DOMAIN t : l < k => Key(t[l]) # Key(t[k])}
           T == {k \in DOMAIN t : Key(t[k]) = Key(rs[i])}
<1>1. IsList(t) /\ rs[i] \in ToSet(t)
    BY PickedList
<1>2. Firsts(t) = Picked(t, places)
    BY DEF Firsts, Distinct
<1>3. DOMAIN t = 1 .. Len(t) /\ Len(t) \in Nat
    BY <1>1, ListLength
<1>4. \E k \in DOMAIN t : t[k] = rs[i]
    BY <1>1, Zenon DEF ToSet
<1> HIDE DEF t
<1>5. T # {} /\ T \subseteq Nat
    BY <1>3, <1>4
<1>6. PICK k \in T : \A l \in T : k <= l
    BY <1>5, LeastOf
<1>7. k \in DOMAIN t /\ Key(t[k]) = Key(rs[i])
    OBVIOUS
<1>8. \A l \in DOMAIN t : l < k => Key(t[l]) # Key(t[k])
  <2> SUFFICES ASSUME NEW l \in DOMAIN t, l < k, Key(t[l]) = Key(t[k]) PROVE FALSE
      OBVIOUS
  <2>1. l \in T
      BY <1>7
  <2> QED
      BY <1>3, <1>6, <1>7, <2>1
<1>9. k \in places
    BY <1>7, <1>8
<1>10. t[k] \in ToSet(Picked(t, places))
    BY <1>1, <1>9, PickedList
<1>11. SameEntity(t[k], rs[i])
  <2>1. \A a, b, c, d, e, f : <<a, b, c>> = <<d, e, f>> => a = d /\ b = e /\ c = f
      OBVIOUS
  <2> QED
      BY <1>7, <2>1, Zenon DEF SameEntity
<1> QED
    BY <1>2, <1>10, <1>11 DEF t

\* Whom an infrastructure targets waits for validation.
Guarded(rel, type, validate) == rel = "targets" /\ type = "infrastructure" => validate = TRUE
Marks(inference) == inference = "infrastructure-victimology"

\* The records of which all that follows is known: the first of them say what
\* the item says, the others follow from two of these, and are not said before.
Follows(rs, n, j) ==
    /\ rs[j].src = "misp-context"
    /\ \E a, b \in 1 .. n :
          /\ SameEntity(rs[a], rs[j]) /\ IsMisp(rs[a]) /\ rs[j].conf <= rs[a].conf
          /\ rs[j].given = <<rs[b].type, rs[b].val>> /\ rs[j].conf <= rs[b].conf
    /\ Guarded(rs[j].rel, rs[j].given[1], rs[j].validate)
    /\ \A i \in DOMAIN rs :
          i < j /\ "" \notin ToSet(rs[i].given)
          => SemanticKey(rs[i].given, rs[i].rel, rs[i])
                # SemanticKey(rs[j].given, rs[j].rel, rs[j])

Grown(item, rs, n) ==
    /\ IsList(rs) /\ n \in 0 .. Len(rs)
    /\ \A i \in 1 .. n : Stated(item, rs[i])
    /\ \A j \in n + 1 .. Len(rs) : Made(item, rs[j]) /\ Follows(rs, n, j)

\* The first record of an entity is one that says what the item says.
LEMMA FirstsAreStated ==
    ASSUME NEW item, NEW rs, NEW n, Grown(item, rs, n), NEW S, S \subseteq DOMAIN rs,
           \A i \in S : IsMisp(rs[i]) /\
               \A k \in DOMAIN rs : SameEntity(rs[k], rs[i]) /\ IsMisp(rs[k]) => k \in S
    PROVE  /\ IsList(Firsts(Picked(rs, S)))
           /\ \A x \in ToSet(Firsts(Picked(rs, S))) : \E i \in S : i \in 1 .. n /\ x = rs[i]
<1>1. IsList(rs) /\ n \in 0 .. Len(rs) /\ DOMAIN rs = 1 .. Len(rs) /\ Len(rs) \in Nat
    BY ListLength DEF Grown
<1>2. /\ IsList(Firsts(Picked(rs, S)))
      /\ \A x \in ToSet(Firsts(Picked(rs, S))) :
            \E i \in S : x = rs[i] /\ \A j \in S : j < i => ~SameEntity(rs[j], rs[i])
    BY <1>1, FirstsArePicked
<1>3. ASSUME NEW i \in S, \A j \in S : j < i => ~SameEntity(rs[j], rs[i])
      PROVE  i \in 1 .. n
  <2> SUFFICES ASSUME i \in n + 1 .. Len(rs) PROVE FALSE
      BY <1>1
  <2>1. PICK a \in 1 .. n : SameEntity(rs[a], rs[i]) /\ IsMisp(rs[a])
      BY DEF Grown, Follows
  <2>2. a \in S /\ a < i
      BY <1>1, <2>1
  <2> QED
      BY <1>3, <2>1, <2>2
<1> QED
    BY <1>2, <1>3
\* No entity type of the table is the empty text.
LEMMA NothingUnnamed ==
    \A ent \in DOMAIN Targets : IsGiven(ent)
<1> DEFINE Fits(row) == "" \notin row[1]
           NoneEmpty(ents) == "" \notin ents
<1>1. \A ents, type, rel : NoneEmpty(ents) => Fits(Row(ents, type, rel))
    BY DEF Row
<1>2. /\ \A x : x # "" => NoneEmpty({x})
      /\ \A x, y : x # "" /\ y # "" => NoneEmpty({x, y})
      /\ NoneEmpty(Locations) /\ NoneEmpty(Victims \ Locations)
    BY DEF Locations, Victims
<1> HIDE DEF Fits, NoneEmpty
<1>3. \A row \in TargetRows : Fits(row)
    BY <1>1, <1>2, ZenonT(400) DEF TargetRows
<1>4. \A ent \in DOMAIN Targets : \E row \in TargetRows : ent \in row[1]
    BY TableRows DEF Targets
<1> QED
    BY <1>3, <1>4 DEF Fits, IsGiven

\* A link of two records, which is no surer by the name of what it is about.
IsLink(rs, n, l) ==
    /\ \E a \in 1 .. n : l.to = rs[a]
    /\ \E b \in 1 .. n : l.by = rs[b]
    /\ IsMisp(l.to) /\ IsGiven(l.rel)
    /\ NamedFloor(l.to.ent) <= l.by.conf
    /\ Guarded(l.rel, l.by.type, Marks(l.inference))

\* What follows is a record of the target, with the source as the other end.
LinkSays(item, l, r) ==
    /\ Made(item, r) /\ r.src = "misp-context" /\ SameEntity(l.to, r)
    /\ r.rel = l.rel /\ r.inference = l.inference
    /\ r.given = <<l.by.type, l.by.val>>
    /\ r.conf <= l.to.conf /\ r.conf <= l.by.conf
    /\ Guarded(r.rel, l.by.type, r.validate)

LEMMA WeakerIsWeaker ==
    ASSUME NEW a \in 0 .. 100, NEW b \in 0 .. 100
    PROVE  /\ WeakerOf(a, b) \in 0 .. 100
           /\ WeakerOf(a, b) <= a /\ WeakerOf(a, b) <= b
BY DEF WeakerOf

\* A name known to be canonical makes what follows at most as sure as the
\* least sure a record of that name is.
LEMMA ContextConfidence ==
    ASSUME NEW ent, NEW conf \in 0 .. 100, NEW a
    PROVE  \/ Confidence(ent, conf, "misp-context", a) = conf
           \/ /\ a.norm = TRUE /\ Confidence(ent, conf, "misp-context", a) = NamedFloor(ent)
<1>1. \A floor \in 0 .. 100 : AtLeast(conf, floor) = conf \/ AtLeast(conf, floor) = floor
    BY DEF AtLeast
<1> QED
    BY <1>1 DEF Confidence, NamedFloor, Locations

\* What a link sets of a record.
LinkSet(l, validate) ==
    [l.to EXCEPT !.rel = l.rel, !.given = <<l.by.type, l.by.val>>,
                 !.inference = l.inference, !.validate = validate]

LEMMA LinkSetIsFull ==
    ASSUME NEW l, Full(l.to), NEW validate, NEW a, a = LinkSet(l, validate)
    PROVE  /\ a.rel = l.rel /\ a.given = <<l.by.type, l.by.val>>
           /\ a.inference = l.inference /\ a.validate = validate
           /\ a.norm = l.to.norm /\ a.type = l.to.type
<1>1. {"norm", "validate", "type", "rel", "inference", "given"} \subseteq DOMAIN l.to
    BY DEF Plain, Full
<1> QED
    BY <1>1 DEF LinkSet, Full

LEMMA LinkIsRecord ==
    ASSUME NEW item, NEW rs, NEW n \in Nat, NEW l, IsLink(rs, n, l),
           \A i \in 1 .. n : Stated(item, rs[i]),
           NEW validate, Guarded(l.rel, l.by.type, validate)
    PROVE  \E r : InferredRecord(item, l, validate) = <<r>> /\ LinkSays(item, l, r)
<1> DEFINE a == LinkSet(l, validate)
           ent == l.to.ent
           val == l.to.val
           conf == WeakerOf(l.by.conf, l.to.conf)
           sure == Confidence(ent, conf, "misp-context", a)
           target == Targets[ent]
           r == TargetedRecord(item, ent, val, "misp-context", sure, a, target)
<1>1. /\ Stated(item, l.to) /\ l.by.conf \in 0 .. 100
      /\ NamedFloor(ent) <= l.by.conf /\ IsGiven(l.rel)
    BY DEF IsLink, Stated, Made
<1>2. /\ Full(l.to) /\ ent \in DOMAIN Targets /\ IsGiven(val) /\ IsGiven(l.to.type)
      /\ AliasesOf(ent, val) = {} /\ l.to.conf \in 0 .. 100
      /\ l.to.norm = TRUE => l.to.conf >= NamedFloor(ent)
    BY <1>1 DEF Stated, Made
<1>3. /\ a.rel = l.rel /\ a.given = <<l.by.type, l.by.val>>
      /\ a.inference = l.inference /\ a.validate = validate
      /\ a.norm = l.to.norm /\ a.type = l.to.type
  <2>1. a = LinkSet(l, validate)
      OBVIOUS
  <2> HIDE DEF a, ent, val
  <2> QED
      BY <1>2, <2>1, LinkSetIsFull
<1>4. CanonicalValue(ent, val) = val
    BY <1>2, CanonicalIsFixed
<1>5. conf \in 0 .. 100 /\ conf <= l.to.conf /\ conf <= l.by.conf
    BY <1>1, <1>2, WeakerIsWeaker
<1>6. ent # "" /\ val # ""
    BY <1>2, NothingUnnamed DEF IsGiven
<1>7. InferredRecord(item, l, validate) = <<r>>
    BY <1>4, <1>6, Zenon DEF InferredRecord, Record, NamedRecord, SureRecord, LinkSet
<1>8. sure <= l.to.conf /\ sure <= l.by.conf
  <2> HIDE DEF conf, a
  <2>1. \/ sure = conf
        \/ a.norm = TRUE /\ sure = NamedFloor(ent)
      BY <1>5, ContextConfidence
  <2>2. NamedFloor(ent) \in 0 .. 100
      BY FloorsAreNumbers
  <2> QED
      BY <1>1, <1>2, <1>3, <1>5, <2>1, <2>2
<1> HIDE DEF a, ent, val, conf
<1>9. Says(item, ent, val, "misp-context", sure, a, r)
  <2>1. sure = Confidence(ent, conf, "misp-context", a) /\ target = Targets[ent]
        /\ r = TargetedRecord(item, ent, val, "misp-context", sure, a, target)
      OBVIOUS
  <2> HIDE DEF sure, target, r
  <2> QED
      BY <1>2, <1>5, <2>1, MadeRecord, Zenon
<1> HIDE DEF sure, target, r
<1>10. LinkSays(item, l, r)
  <2>1. /\ Made(item, r) /\ r.ent = ent /\ r.val = val /\ r.src = "misp-context"
        /\ r.conf = sure /\ r.given = a.given /\ r.inference = a.inference
        /\ r.validate = a.validate
        /\ IsGiven(a.type) => r.type = a.type
        /\ IsGiven(a.rel) => r.rel = a.rel
      BY <1>9, Zenon DEF Says
  <2>2. r.type = l.to.type /\ r.rel = l.rel
      BY <1>1, <1>2, <1>3, <2>1, Zenon
  <2>3. SameEntity(l.to, r)
      BY <2>1, <2>2, Zenon DEF SameEntity, ent, val
  <2>4. r.given = <<l.by.type, l.by.val>> /\ r.inference = l.inference
      BY <1>3, <2>1, Zenon
  <2>5. r.conf <= l.to.conf /\ r.conf <= l.by.conf
      BY <1>8, <2>1, Zenon
  <2>6. Guarded(r.rel, l.by.type, r.validate)
    <3>1. r.validate = validate
        BY <1>3, <2>1, Zenon
    <3> QED
        BY <2>2, <3>1, Zenon
  <2> QED
      BY <2>1, <2>2, <2>3, <2>4, <2>5, <2>6, Zenon DEF LinkSays
<1> QED
    BY <1>7, <1>10
LinkList(rs, n, links) == IsList(links) /\ \A l \in ToSet(links) : IsLink(rs, n, l)

LEMMA JoinedLinks ==
    ASSUME NEW rs, NEW n, NEW s, LinkList(rs, n, s), NEW t, LinkList(rs, n, t)
    PROVE  LinkList(rs, n, s \o t)
BY JoinedList DEF LinkList

\* What follows from the links is a record for each new one, in their order.
LEMMA RelatedRecords ==
    ASSUME NEW item, NEW rs, NEW n, Grown(item, rs, n), NEW links, LinkList(rs, n, links)
    PROVE  \E place, t :
              /\ Related(item, rs, links) = t /\ IsList(t)
              /\ \A k \in DOMAIN t :
                    /\ place[k] \in New(rs, links)
                    /\ LinkSays(item, links[place[k]], t[k])
              /\ \A k, m \in DOMAIN t : k < m => place[k] < place[m]
<1> DEFINE S == Cut(New(rs, links))
           chosen == Picked(links, S)
           parts == [k \in DOMAIN chosen |-> Inferred(item, chosen[k])]
           t == [k \in DOMAIN chosen |-> parts[k][1]]
<1>1. S \subseteq New(rs, links) /\ S \subseteq DOMAIN links
    BY DEF Cut, New
<1>2. IsList(links) /\ DOMAIN links = 1 .. Len(links) /\ Len(links) \in Nat
      /\ \A i \in DOMAIN links : IsLink(rs, n, links[i])
    BY ListLength DEF LinkList
<1>3. PICK place : Ordered(place, S) /\ PickedAt(links, place, S)
    BY <1>1, <1>2, PickedPlaces
<1>4. IsList(chosen)
    BY <1>1, <1>2, PickedFrom
<1>5. Related(item, rs, links) = FlattenSeq(parts)
    BY DEF Related, Concat
<1>6. DOMAIN chosen = 1 .. Cardinality(S)
      /\ \A k \in DOMAIN chosen : chosen[k] = links[place[k]] /\ place[k] \in S
    BY <1>3 DEF PickedAt, Ordered
<1> HIDE DEF chosen, S
<1>7. \A k \in DOMAIN chosen : \E r : parts[k] = <<r>> /\ LinkSays(item, chosen[k], r)
  <2> SUFFICES ASSUME NEW k \in DOMAIN chosen
               PROVE  \E r : parts[k] = <<r>> /\ LinkSays(item, chosen[k], r)
      OBVIOUS
  <2> DEFINE validate == chosen[k].to.validate \/ chosen[k].inference = "infrastructure-victimology"
  <2>1. IsLink(rs, n, chosen[k])
      BY <1>1, <1>2, <1>6
  <2>2. n \in Nat /\ \A i \in 1 .. n : Stated(item, rs[i])
    <3>1. Len(rs) \in Nat
        BY ListLength DEF Grown
    <3> QED
        BY <3>1 DEF Grown
  <2>3. parts[k] = InferredRecord(item, chosen[k], validate)
      BY DEF Inferred
  <2>4. Guarded(chosen[k].rel, chosen[k].by.type, validate)
    <3>1. Guarded(chosen[k].rel, chosen[k].by.type, Marks(chosen[k].inference))
        BY <2>1, Zenon DEF IsLink
    <3>2. Marks(chosen[k].inference) = TRUE => validate = TRUE
        BY Zenon DEF Marks
    <3> HIDE DEF validate
    <3> QED
        BY <3>1, <3>2, Zenon DEF Guarded
  <2> HIDE DEF validate, parts
  <2> QED
      BY <2>1, <2>2, <2>3, <2>4, LinkIsRecord
<1>8. \A k \in DOMAIN chosen : parts[k] = <<t[k]>> /\ LinkSays(item, chosen[k], t[k])
  <2> SUFFICES ASSUME NEW k \in DOMAIN chosen
               PROVE  parts[k] = <<t[k]>> /\ LinkSays(item, chosen[k], t[k])
      OBVIOUS
  <2>1. PICK r : parts[k] = <<r>> /\ LinkSays(item, chosen[k], r)
      BY <1>7
  <2>2. t[k] = parts[k][1]
      OBVIOUS
  <2> HIDE DEF t, parts
  <2>3. t[k] = r
      BY <2>1, <2>2
  <2> QED
      BY <2>1, <2>3
<1>9. FlattenSeq(parts) = t
  <2>1. IsList(parts) /\ DOMAIN parts = DOMAIN chosen
      BY <1>4, MappedList
  <2>2. t = [k \in DOMAIN parts |-> t[k]] /\ \A k \in DOMAIN parts : parts[k] = <<t[k]>>
      BY <1>8, <2>1
  <2> HIDE DEF parts, t
  <2> QED
      BY <2>1, <2>2, FlatOnes
<1>10. IsList(t) /\ DOMAIN t = DOMAIN chosen
  <2> HIDE DEF parts
  <2> QED
      BY <1>4, MappedList
<1> HIDE DEF parts, t
<1>11. \A k \in DOMAIN t : place[k] \in New(rs, links) /\ LinkSays(item, links[place[k]], t[k])
    BY <1>1, <1>6, <1>8, <1>10
<1>12. \A k, m \in DOMAIN t : k < m => place[k] < place[m]
    BY <1>3, <1>6, <1>10 DEF Ordered
<1> QED
    BY <1>5, <1>9, <1>10, <1>11, <1>12

\* What follows is not said before, by the item or by what followed first.
LEMMA RelatedGrows ==
    ASSUME NEW item, NEW rs, NEW n, Grown(item, rs, n), NEW links, LinkList(rs, n, links)
    PROVE  Grown(item, rs \o Related(item, rs, links), n)
<1>1. PICK place, t :
          /\ Related(item, rs, links) = t /\ IsList(t)
          /\ \A k \in DOMAIN t :
                /\ place[k] \in New(rs, links)
                /\ LinkSays(item, links[place[k]], t[k])
          /\ \A k, m \in DOMAIN t : k < m => place[k] < place[m]
    BY RelatedRecords
<1> DEFINE all == rs \o t
           p == Len(rs)
           q == Len(t)
           KeyOf(r) == SemanticKey(r.given, r.rel, r)
<1>2. /\ IsList(rs) /\ p \in Nat /\ DOMAIN rs = 1 .. p /\ n \in 0 .. p
      /\ q \in Nat /\ DOMAIN t = 1 .. q
    BY <1>1, ListLength DEF Grown
<1>3. /\ IsList(all) /\ Len(all) = p + q /\ DOMAIN all = 1 .. p + q
      /\ \A i \in 1 .. p + q : all[i] = IF i <= p THEN rs[i] ELSE t[i - p]
    BY <1>1, <1>2, JoinedList, JoinedPlaces
<1> HIDE DEF all, p, q
<1>4. /\ \A i \in 1 .. p : all[i] = rs[i]
      /\ \A j \in p + 1 .. p + q : j - p \in DOMAIN t /\ all[j] = t[j - p]
    BY <1>2, <1>3
<1>5. \A i \in 1 .. n : all[i] = rs[i] /\ Stated(item, all[i])
    BY <1>2, <1>4 DEF Grown
<1>6. ASSUME NEW j \in n + 1 .. p
      PROVE  Made(item, all[j]) /\ Follows(all, n, j)
  <2>1. Made(item, rs[j]) /\ Follows(rs, n, j) /\ all[j] = rs[j] /\ j \in 1 .. p
      BY <1>2, <1>4 DEF Grown, p
  <2>2. \A i \in DOMAIN all : i < j => i \in DOMAIN rs /\ all[i] = rs[i]
      BY <1>2, <1>3, <1>4
  <2> QED
      BY <1>5, <2>1, <2>2 DEF Follows
<1>7. \A k \in DOMAIN t :
          /\ LinkSays(item, links[place[k]], t[k]) /\ IsLink(rs, n, links[place[k]])
          /\ KeyOf(t[k]) = LinkKey(links[place[k]])
          /\ "" \notin ToSet(t[k].given)
  <2> SUFFICES ASSUME NEW k \in DOMAIN t
               PROVE  /\ LinkSays(item, links[place[k]], t[k])
                      /\ IsLink(rs, n, links[place[k]])
                      /\ KeyOf(t[k]) = LinkKey(links[place[k]])
                      /\ "" \notin ToSet(t[k].given)
      OBVIOUS
  <2> DEFINE l == links[place[k]]
  <2>1. LinkSays(item, l, t[k]) /\ place[k] \in New(rs, links)
      BY <1>1
  <2>2. "" \notin {l.by.type, l.by.val} /\ place[k] \in DOMAIN links
      BY <2>1 DEF New
  <2>3. IsLink(rs, n, l)
      BY <2>2, ListLength DEF LinkList
  <2> HIDE DEF l
  <2>4. KeyOf(t[k]) = LinkKey(l)
      BY <2>1, Zenon DEF LinkSays, LinkKey, SemanticKey, SameEntity
  <2>5. t[k].given = <<l.by.type, l.by.val>>
      BY <2>1 DEF LinkSays
  <2>6. \A x, y : ToSet(<<x, y>>) = {x, y}
      BY DEF ToSet
  <2> QED
      BY <2>1, <2>2, <2>3, <2>4, <2>5, <2>6 DEF l
<1>8. ASSUME NEW j \in p + 1 .. p + q
      PROVE  Made(item, all[j]) /\ Follows(all, n, j)
  <2> DEFINE k == j - p
             l == links[place[k]]
  <2>1. k \in DOMAIN t /\ all[j] = t[k]
      BY <1>4
  <2>2. LinkSays(item, l, all[j]) /\ IsLink(rs, n, l) /\ KeyOf(all[j]) = LinkKey(l)
        /\ place[k] \in New(rs, links)
      BY <1>1, <1>7, <2>1
  <2>3. Made(item, all[j]) /\ all[j].src = "misp-context"
      BY <2>2 DEF LinkSays
  <2>4. \E a, b \in 1 .. n :
            /\ SameEntity(all[a], all[j]) /\ IsMisp(all[a]) /\ all[j].conf <= all[a].conf
            /\ all[j].given = <<all[b].type, all[b].val>> /\ all[j].conf <= all[b].conf
    <3>1. PICK a \in 1 .. n : l.to = rs[a]
        BY <2>2 DEF IsLink
    <3>2. PICK b \in 1 .. n : l.by = rs[b]
        BY <2>2 DEF IsLink
    <3>3. l.to = all[a] /\ l.by = all[b]
        BY <1>5, <3>1, <3>2
    <3> HIDE DEF l
    <3>4. /\ SameEntity(all[a], all[j]) /\ IsMisp(all[a]) /\ all[j].conf <= all[a].conf
          /\ all[j].given = <<all[b].type, all[b].val>> /\ all[j].conf <= all[b].conf
        BY <2>2, <3>3, Zenon DEF LinkSays, IsLink
    <3> QED
        BY <3>4
  <2>a. Guarded(all[j].rel, all[j].given[1], all[j].validate)
    <3>1. Guarded(all[j].rel, l.by.type, all[j].validate)
          /\ all[j].given = <<l.by.type, l.by.val>>
        BY <2>2, Zenon DEF LinkSays
    <3>2. \A d, x, y : d = <<x, y>> => d[1] = x
        OBVIOUS
    <3>3. all[j].given[1] = l.by.type
        BY <3>1, <3>2, Zenon
    <3> QED
        BY <3>1, <3>3, Zenon
  <2>5. ASSUME NEW i \in DOMAIN all, i < j, "" \notin ToSet(all[i].given)
        PROVE  KeyOf(all[i]) # KeyOf(all[j])
    <3>1. CASE i <= p
      <4>1. i \in DOMAIN rs /\ all[i] = rs[i]
          BY <1>2, <1>3, <1>4, <3>1
      <4>2. KeyOf(rs[i]) \in SemanticKeys(rs)
          BY <2>5, <4>1 DEF SemanticKeys
      <4>3. LinkKey(l) \notin SemanticKeys(rs)
          BY <2>2 DEF New
      <4> HIDE DEF l, KeyOf
      <4> QED
          BY <2>2, <4>1, <4>2, <4>3
    <3>2. CASE i > p
      <4>1. /\ i - p \in DOMAIN t /\ all[i] = t[i - p] /\ i - p < k
        <5>1. i \in p + 1 .. p + q
            BY <1>2, <1>3, <3>2
        <5>2. i - p \in DOMAIN t /\ all[i] = t[i - p]
            BY <1>4, <5>1
        <5>3. \A a, b, c \in Int : a < b => a - c < b - c
            OBVIOUS
        <5>4. i \in Int /\ j \in Int /\ p \in Int
            BY <1>2, <5>1
        <5> QED
            BY <2>5, <5>2, <5>3, <5>4
      <4>2. KeyOf(all[i]) = LinkKey(links[place[i - p]])
          BY <1>7, <4>1
      <4>3. place[i - p] < place[k] /\ place[i - p] \in New(rs, links)
          BY <1>1, <2>1, <4>1
      <4>4. LinkKey(links[place[i - p]]) # LinkKey(links[place[k]])
          BY <2>2, <4>3 DEF New
      <4> HIDE DEF KeyOf
      <4> QED
          BY <2>2, <4>2, <4>4
    <3> QED
        BY <1>2, <1>3, <3>1, <3>2
  <2> HIDE DEF l, k
  <2> QED
      BY <2>3, <2>4, <2>5, <2>a DEF Follows
<1>9. \A j \in n + 1 .. p + q : j \in n + 1 .. p \/ j \in p + 1 .. p + q
    BY <1>2
<1>10. n \in 0 .. Len(all)
    BY <1>2, <1>3
<1> QED
    BY <1>1, <1>3, <1>5, <1>6, <1>8, <1>9, <1>10 DEF Grown, all

\* Records of some entities of which what follows is known to say no more.
Entities(rs, n, ents, s) ==
    /\ IsList(s)
    /\ \A x \in ToSet(s) : (\E i \in 1 .. n : x = rs[i]) /\ IsMisp(x) /\ x.ent \in ents

\* What is unique of the records of some entities.
PlacesOf(rs, ents) == {i \in DOMAIN rs : IsMisp(rs[i]) /\ rs[i].ent \in ents}
TypedPlaces(rs, ent, type) ==
    {i \in DOMAIN rs : IsMisp(rs[i]) /\ rs[i].ent = ent /\ rs[i].type = type}

LEMMA UniqueAreEntities ==
    ASSUME NEW item, NEW rs, NEW n, Grown(item, rs, n), NEW ents
    PROVE  Entities(rs, n, ents, Firsts(Picked(rs, PlacesOf(rs, ents))))
<1> DEFINE S == PlacesOf(rs, ents)
<1>1. /\ S \subseteq DOMAIN rs /\ \A i \in S : IsMisp(rs[i]) /\ rs[i].ent \in ents
      /\ \A i \in S : \A k \in DOMAIN rs : SameEntity(rs[k], rs[i]) /\ IsMisp(rs[k]) => k \in S
    BY DEF PlacesOf, SameEntity
<1> HIDE DEF S
<1>2. /\ IsList(Firsts(Picked(rs, S)))
      /\ \A x \in ToSet(Firsts(Picked(rs, S))) : \E i \in S : i \in 1 .. n /\ x = rs[i]
    BY <1>1, FirstsAreStated
<1> QED
    BY <1>1, <1>2 DEF Entities, S

LEMMA TypedAreEntities ==
    ASSUME NEW item, NEW rs, NEW n, Grown(item, rs, n), NEW ent, NEW type
    PROVE  /\ Entities(rs, n, {ent}, Firsts(Picked(rs, TypedPlaces(rs, ent, type))))
           /\ \A x \in ToSet(Firsts(Picked(rs, TypedPlaces(rs, ent, type)))) : x.type = type
<1> DEFINE S == TypedPlaces(rs, ent, type)
<1>1. /\ S \subseteq DOMAIN rs
      /\ \A i \in S : IsMisp(rs[i]) /\ rs[i].ent \in {ent} /\ rs[i].type = type
      /\ \A i \in S : \A k \in DOMAIN rs : SameEntity(rs[k], rs[i]) /\ IsMisp(rs[k]) => k \in S
    BY DEF TypedPlaces, SameEntity
<1> HIDE DEF S
<1>2. /\ IsList(Firsts(Picked(rs, S)))
      /\ \A x \in ToSet(Firsts(Picked(rs, S))) : \E i \in S : i \in 1 .. n /\ x = rs[i]
    BY <1>1, FirstsAreStated
<1> QED
    BY <1>1, <1>2 DEF Entities, S

\* Pairs of a target and a source.
PairList(ps, targets, sources) ==
    IsList(ps) /\ \A p \in ToSet(ps) : p.to \in ToSet(targets) /\ p.by \in ToSet(sources)

\* Each target with the one source, if there is no other.
WithTheOne(targets, sources) ==
    Concat(targets, LAMBDA t : MapSeq(OnlyOne(sources), LAMBDA x : [to |-> t, by |-> x]))

LEMMA PairsAreListed ==
    ASSUME NEW targets, IsList(targets), NEW sources, IsList(sources)
    PROVE  /\ PairList(ByTarget(targets, sources), targets, sources)
           /\ PairList(BySource(targets, sources), targets, sources)
           /\ PairList(WithTheOne(targets, sources), targets, OnlyOne(sources))
<1> DEFINE To(t, ss) == [i \in DOMAIN ss |-> [to |-> t, by |-> ss[i]]]
           By(s) == [i \in DOMAIN targets |-> [to |-> targets[i], by |-> s]]
           Targeted(ss) == [i \in DOMAIN targets |-> To(targets[i], ss)]
           sourced == [i \in DOMAIN sources |-> By(sources[i])]
<1>1. ASSUME NEW ss, IsList(ss)
      PROVE  PairList(FlattenSeq(Targeted(ss)), targets, ss)
  <2>1. ASSUME NEW i \in DOMAIN targets
        PROVE  PairList(Targeted(ss)[i], targets, ss)
    <3> DEFINE t == targets[i]
    <3>1. t \in ToSet(targets) /\ \A j \in DOMAIN ss : ss[j] \in ToSet(ss)
        BY <1>1, ListLength
    <3>2. /\ IsList(To(t, ss))
          /\ \A p \in ToSet(To(t, ss)) : \E j \in DOMAIN ss : p = To(t, ss)[j]
        BY <1>1, MappedList
    <3>3. \A j \in DOMAIN ss : To(t, ss)[j].to = t /\ To(t, ss)[j].by = ss[j]
        OBVIOUS
    <3>4. Targeted(ss)[i] = To(t, ss)
        OBVIOUS
    <3> HIDE DEF t, To, Targeted
    <3>5. \A p \in ToSet(To(t, ss)) : p.to \in ToSet(targets) /\ p.by \in ToSet(ss)
        BY <3>1, <3>2, <3>3
    <3> QED
        BY <3>2, <3>4, <3>5 DEF PairList
  <2> HIDE DEF To
  <2>2. /\ IsList(FlattenSeq(Targeted(ss)))
        /\ \A p \in ToSet(FlattenSeq(Targeted(ss))) :
              \E i \in DOMAIN targets : p \in ToSet(Targeted(ss)[i])
      BY <2>1, MappedFlat DEF PairList
  <2> QED
      BY <2>1, <2>2 DEF PairList
<1>2. PairList(FlattenSeq(sourced), targets, sources)
  <2>1. ASSUME NEW i \in DOMAIN sources
        PROVE  PairList(sourced[i], targets, sources)
    <3> DEFINE s == sources[i]
    <3>1. s \in ToSet(sources) /\ \A j \in DOMAIN targets : targets[j] \in ToSet(targets)
        BY ListLength
    <3>2. IsList(By(s)) /\ \A p \in ToSet(By(s)) : \E j \in DOMAIN targets : p = By(s)[j]
        BY MappedList
    <3>3. \A j \in DOMAIN targets : By(s)[j].to = targets[j] /\ By(s)[j].by = s
        OBVIOUS
    <3>4. sourced[i] = By(s)
        OBVIOUS
    <3> HIDE DEF s, By, sourced
    <3>5. \A p \in ToSet(By(s)) : p.to \in ToSet(targets) /\ p.by \in ToSet(sources)
        BY <3>1, <3>2, <3>3
    <3> QED
        BY <3>2, <3>4, <3>5 DEF PairList
  <2> HIDE DEF By
  <2>2. /\ IsList(FlattenSeq(sourced))
        /\ \A p \in ToSet(FlattenSeq(sourced)) : \E i \in DOMAIN sources : p \in ToSet(sourced[i])
      BY <2>1, MappedFlat DEF PairList
  <2> QED
      BY <2>1, <2>2 DEF PairList
<1>3. IsList(OnlyOne(sources))
    BY ShortLists DEF OnlyOne
<1>4. PairList(<<>>, targets, sources)
    BY ShortLists DEF PairList
<1>5. ByTarget(targets, sources) = IF Len(targets) * Len(sources) > MaxPairings THEN <<>>
                                   ELSE FlattenSeq(Targeted(sources))
    BY DEF ByTarget, Concat, MapSeq
<1>6. BySource(targets, sources) = IF Len(targets) * Len(sources) > MaxPairings THEN <<>>
                                   ELSE FlattenSeq(sourced)
    BY DEF BySource, Concat, MapSeq
<1>7. WithTheOne(targets, sources) = FlattenSeq(Targeted(OnlyOne(sources)))
    BY DEF WithTheOne, Concat, MapSeq
<1> HIDE DEF Targeted, sourced
<1>8. /\ PairList(FlattenSeq(Targeted(sources)), targets, sources)
      /\ PairList(FlattenSeq(Targeted(OnlyOne(sources))), targets, OnlyOne(sources))
    BY <1>1, <1>3
<1>9. PairList(ByTarget(targets, sources), targets, sources)
    BY <1>4, <1>5, <1>8
<1>10. PairList(BySource(targets, sources), targets, sources)
    BY <1>2, <1>4, <1>6
<1> QED
    BY <1>7, <1>8, <1>9, <1>10

\* A canonical name makes what follows no surer than its source: it is about a
\* kind without such a name, or the source is always sure enough.
SureEnough(a, b) ==
    \/ b.ent = "campaign"
    \/ a.ent \in {"infrastructure", "attack_pattern"}
    \/ a.ent \in Victims /\ b.ent = "infrastructure"

LEMMA FloorsAreMet ==
    ASSUME NEW item, NEW a, NEW b, Stated(item, b), IsMisp(b), SureEnough(a, b)
    PROVE  NamedFloor(a.ent) <= b.conf
<1>1. b.conf \in 0 .. 100 /\ b.conf >= StatedFloor(b.ent, b.src) /\ b.src # "misp-context"
    BY DEF Stated, Made
<1>2. b.src \in {"misp", "misp-galaxy", "misp-attribute", "misp-object"}
    BY <1>1 DEF IsMisp
<1>3. \A ent : NamedFloor(ent) \in 0 .. 70 /\ (ent \in Victims => NamedFloor(ent) <= 60)
    BY DEF NamedFloor, Victims, Locations
<1>4. \A ent \in {"infrastructure", "attack_pattern"} : NamedFloor(ent) = 0
    BY DEF NamedFloor
<1>5. \A src \in {"misp", "misp-galaxy", "misp-attribute", "misp-object"} :
          StatedFloor("campaign", src) = 70 /\ StatedFloor("infrastructure", src) = 60
    BY DEF StatedFloor
<1>6. CASE b.ent = "campaign"
  <2>1. b.conf >= 70
      BY <1>1, <1>2, <1>5, <1>6
  <2>2. NamedFloor(a.ent) \in 0 .. 70
      BY <1>3
  <2> QED
      BY <1>1, <2>1, <2>2
<1>7. CASE a.ent \in {"infrastructure", "attack_pattern"}
  <2>1. NamedFloor(a.ent) = 0
      BY <1>4, <1>7
  <2> QED
      BY <1>1, <2>1
<1>8. CASE a.ent \in Victims /\ b.ent = "infrastructure"
  <2>1. b.conf >= 60
      BY <1>1, <1>2, <1>5, <1>8
  <2>2. NamedFloor(a.ent) \in 0 .. 70 /\ NamedFloor(a.ent) <= 60
      BY <1>3, <1>8
  <2> QED
      BY <1>1, <2>1, <2>2
<1> QED
    BY <1>6, <1>7, <1>8 DEF SureEnough

LEMMA StepsAreLinks ==
    ASSUME NEW item, NEW rs, NEW n, Grown(item, rs, n),
           NEW ents, NEW targets, Entities(rs, n, ents, targets),
           NEW others, NEW sources, Entities(rs, n, others, sources),
           \A a, b : a.ent \in ents /\ b.ent \in others => SureEnough(a, b),
           NEW ps, PairList(ps, targets, sources),
           NEW rel, IsGiven(rel),
           NEW inference, \A b \in ToSet(sources) : Guarded(rel, b.type, Marks(inference))
    PROVE  LinkList(rs, n, Step(ps, rel, inference))
<1> DEFINE Link(p) == [to |-> p.to, by |-> p.by, rel |-> rel, inference |-> inference]
           links == [i \in DOMAIN ps |-> Link(ps[i])]
<1>1. Step(ps, rel, inference) = links
    BY DEF Step, MapSeq
<1>2. IsList(ps) /\ \A i \in DOMAIN ps : ps[i].to \in ToSet(targets) /\ ps[i].by \in ToSet(sources)
    BY ListLength DEF PairList
<1>3. ASSUME NEW p, p.to \in ToSet(targets), p.by \in ToSet(sources)
      PROVE  IsLink(rs, n, Link(p))
  <2>1. /\ (\E i \in 1 .. n : p.to = rs[i]) /\ IsMisp(p.to) /\ p.to.ent \in ents
        /\ (\E i \in 1 .. n : p.by = rs[i]) /\ IsMisp(p.by) /\ p.by.ent \in others
      BY <1>3 DEF Entities
  <2>2. Stated(item, p.by)
      BY <2>1 DEF Grown
  <2>3. NamedFloor(p.to.ent) <= p.by.conf
      BY <2>1, <2>2, FloorsAreMet
  <2>4. /\ Link(p).to = p.to /\ Link(p).by = p.by /\ Link(p).rel = rel
        /\ Link(p).inference = inference
      OBVIOUS
  <2> HIDE DEF Link
  <2>5. Guarded(Link(p).rel, Link(p).by.type, Marks(Link(p).inference))
    <3>1. Guarded(rel, p.by.type, Marks(inference))
        BY <1>3
    <3> QED
        BY <2>4, <3>1, Zenon
  <2> QED
      BY <2>1, <2>3, <2>4, <2>5 DEF IsLink
<1> HIDE DEF Link
<1>4. IsList(links) /\ \A l \in ToSet(links) : \E i \in DOMAIN ps : l = links[i]
    BY <1>2, MappedList
<1>5. \A i \in DOMAIN ps : IsLink(rs, n, links[i])
    BY <1>2, <1>3
<1> HIDE DEF links
<1> QED
    BY <1>1, <1>4, <1>5 DEF LinkList

\* The actors of an item, each once.
ActorsOf(rs) == Firsts(Picked(rs, PlacesOf(rs, Adversaries)))

\* Links from or to an actor are made only if there is no other.
Owned(rs, links) ==
    \A l \in ToSet(links) : l.inference \in AdversaryLinks => Len(ActorsOf(rs)) = 1

\* If there is one actor, all records of actors are of it.
LEMMA OnlyActor ==
    ASSUME NEW rs, IsList(rs), Len(ActorsOf(rs)) = 1
    PROVE  \E x \in ToSet(ActorsOf(rs)) :
              \A r \in ToSet(rs) : IsMisp(r) /\ r.ent \in Adversaries => SameEntity(x, r)
<1> DEFINE S == PlacesOf(rs, Adversaries)
           s == ActorsOf(rs)
<1>1. S \subseteq DOMAIN rs
    BY DEF PlacesOf
<1>2. \A r \in ToSet(rs) : IsMisp(r) /\ r.ent \in Adversaries => \E i \in S : r = rs[i]
    BY DEF PlacesOf, ToSet
<1>a. s = Firsts(Picked(rs, S))
    BY DEF ActorsOf
<1>b. IsList(s)
    BY <1>1, <1>a, FirstsArePicked
<1> HIDE DEF S, s
<1>3. DOMAIN s = {1}
  <2>1. DOMAIN s = 1 .. Len(s) /\ Len(s) = 1
      BY <1>b, ListLength DEF s
  <2> QED
      BY <2>1
<1>4. ToSet(s) = {s[1]}
    BY <1>3 DEF ToSet
<1>5. \A r \in ToSet(rs) : IsMisp(r) /\ r.ent \in Adversaries => SameEntity(s[1], r)
  <2> SUFFICES ASSUME NEW r \in ToSet(rs), IsMisp(r), r.ent \in Adversaries
               PROVE  SameEntity(s[1], r)
      OBVIOUS
  <2>1. PICK i \in S : r = rs[i]
      BY <1>2
  <2>2. \E x \in ToSet(s) : SameEntity(x, rs[i])
      BY <1>1, <1>a, FirstsHaveAll
  <2> QED
      BY <1>4, <2>1, <2>2
<1> QED
    BY <1>4, <1>5 DEF s

LEMMA LinksJoin ==
    ASSUME NEW rs, NEW n, NEW s, LinkList(rs, n, s), Owned(rs, s),
           NEW t, LinkList(rs, n, t), Owned(rs, t)
    PROVE  LinkList(rs, n, s \o t) /\ Owned(rs, s \o t)
BY JoinedLinks, JoinedList DEF LinkList, Owned

LEMMA StepIsOwned ==
    ASSUME NEW rs, NEW targets, NEW sources, NEW ps, PairList(ps, targets, sources),
           NEW rel, NEW inference,
           inference \in AdversaryLinks =>
               <<>> \in {targets, sources} \/ Len(ActorsOf(rs)) = 1
    PROVE  Owned(rs, Step(ps, rel, inference))
<1> DEFINE Link(p) == [to |-> p.to, by |-> p.by, rel |-> rel, inference |-> inference]
           links == [i \in DOMAIN ps |-> Link(ps[i])]
<1>1. Step(ps, rel, inference) = links
    BY DEF Step, MapSeq
<1>2. IsList(ps) /\ \A i \in DOMAIN ps : ps[i].to \in ToSet(targets) /\ ps[i].by \in ToSet(sources)
    BY ListLength DEF PairList
<1>3. \A p : Link(p).inference = inference
    OBVIOUS
<1> HIDE DEF Link
<1>4. \A l \in ToSet(links) : \E i \in DOMAIN ps : l = links[i]
    BY <1>2, MappedList
<1>5. \A i \in DOMAIN ps : links[i].inference = inference
    BY <1>3
<1> HIDE DEF links
<1>6. ASSUME NEW i \in DOMAIN ps
      PROVE  <<>> \notin {targets, sources}
    BY <1>2, ShortLists
<1> QED
    BY <1>1, <1>4, <1>5, <1>6 DEF Owned

\* Nothing follows if there are too many to relate.
LEMMA NothingGrows ==
    ASSUME NEW item, NEW rs, NEW n, Grown(item, rs, n)
    PROVE  Grown(item, rs \o <<>>, n)
<1>1. rs \in Seq(ToSet(rs))
    BY DEF Grown, IsList
<1>2. rs \o <<>> = rs
    BY <1>1
<1> QED
    BY <1>2

\* What follows from links of which each actor is the only one.
LEMMA RelatedIsOwned ==
    ASSUME NEW item, NEW rs, NEW n, Grown(item, rs, n), NEW links, LinkList(rs, n, links),
           Owned(rs, links), NEW context, context \in {<<>>, Related(item, rs, links)}
    PROVE  /\ IsList(context) /\ Grown(item, rs \o context, n)
           /\ \A r \in ToSet(context) :
                 /\ r.src = "misp-context"
                 /\ r.inference \in AdversaryLinks => Len(ActorsOf(rs)) = 1
<1>1. CASE context = <<>>
    BY <1>1, ShortLists, NothingGrows
<1>2. CASE context = Related(item, rs, links)
  <2>1. PICK place, t :
            /\ Related(item, rs, links) = t /\ IsList(t)
            /\ \A k \in DOMAIN t :
                  /\ place[k] \in New(rs, links)
                  /\ LinkSays(item, links[place[k]], t[k])
            /\ \A k, m \in DOMAIN t : k < m => place[k] < place[m]
      BY RelatedRecords
  <2>2. ASSUME NEW k \in DOMAIN t
        PROVE  /\ t[k].src = "misp-context"
               /\ t[k].inference \in AdversaryLinks => Len(ActorsOf(rs)) = 1
    <3>1. place[k] \in DOMAIN links
        BY <2>1 DEF New
    <3>2. links[place[k]] \in ToSet(links)
        BY <3>1, ListLength DEF LinkList
    <3>3. t[k].src = "misp-context" /\ t[k].inference = links[place[k]].inference
        BY <2>1 DEF LinkSays
    <3> QED
        BY <3>2, <3>3 DEF Owned
  <2>3. \A r \in ToSet(t) :
            /\ r.src = "misp-context"
            /\ r.inference \in AdversaryLinks => Len(ActorsOf(rs)) = 1
      BY <2>2, Zenon DEF ToSet
  <2> QED
      BY <1>2, <2>1, <2>3, RelatedGrows
<1> QED
    BY <1>1, <1>2

\* What campaigns use and target.
LEMMA CampaignLinks ==
    ASSUME NEW item, NEW rs, NEW n, Grown(item, rs, n)
    PROVE  \E links : /\ LinkList(rs, n, links) /\ Owned(rs, links)
                      /\ CampaignContext(item, rs) \in {<<>>, Related(item, rs, links)}
<1> DEFINE campaigns == Firsts(Picked(rs, TypedPlaces(rs, "campaign", "campaign")))
           networks == Firsts(Picked(rs, TypedPlaces(rs, "infrastructure", "infrastructure")))
           Those(ents) == Firsts(Picked(rs, PlacesOf(rs, ents)))
           actor == Step(ByTarget(OnlyOne(Those(Adversaries)), campaigns), "attributed-to",
                         "campaign-adversary")
           uses == Step(ByTarget(Those(CampaignCapabilities), campaigns), "uses",
                        "campaign-capability")
           runs == Step(ByTarget(networks, campaigns), "uses", "campaign-infrastructure")
           hits == Step(ByTarget(Those(Victims), campaigns), "targets", "campaign-victimology")
           links == actor \o uses \o runs \o hits
<1>1. CampaignContext(item, rs) = IF Len(campaigns) > MaxOwners THEN <<>>
                                  ELSE Related(item, rs, links)
    BY DEF CampaignContext, RelatedToCampaigns, Unique, Selected, Firsts, ActorsIn,
           InfrastructureIn, VictimsIn, PlacesOf, TypedPlaces
<1>2. /\ Entities(rs, n, {"campaign"}, campaigns)
      /\ Entities(rs, n, {"infrastructure"}, networks)
      /\ \A ents : Entities(rs, n, ents, Those(ents))
    BY TypedAreEntities, UniqueAreEntities
<1>c. \A b \in ToSet(campaigns) : b.type = "campaign"
    BY TypedAreEntities
<1>3. Entities(rs, n, Adversaries, OnlyOne(Those(Adversaries)))
    BY <1>2, ShortLists DEF OnlyOne, Entities
<1>d. OnlyOne(Those(Adversaries)) = <<>> \/ Len(ActorsOf(rs)) = 1
    BY DEF OnlyOne, ActorsOf
<1> HIDE DEF campaigns, networks, Those
<1>4. \A ents : \A a, b : a.ent \in ents /\ b.ent \in {"campaign"} => SureEnough(a, b)
    BY DEF SureEnough
<1>5. ASSUME NEW ents, NEW targets, Entities(rs, n, ents, targets), NEW rel, IsGiven(rel),
             NEW inference, \A b \in ToSet(campaigns) : Guarded(rel, b.type, Marks(inference))
      PROVE  /\ LinkList(rs, n, Step(ByTarget(targets, campaigns), rel, inference))
             /\ (inference \in AdversaryLinks => targets = <<>> \/ Len(ActorsOf(rs)) = 1)
                => Owned(rs, Step(ByTarget(targets, campaigns), rel, inference))
  <2>1. PairList(ByTarget(targets, campaigns), targets, campaigns)
      BY <1>2, <1>5, PairsAreListed DEF Entities
  <2>2. LinkList(rs, n, Step(ByTarget(targets, campaigns), rel, inference))
      BY <1>2, <1>4, <1>5, <2>1, StepsAreLinks
  <2> QED
      BY <2>1, <2>2, StepIsOwned
<1>6. IsGiven("attributed-to") /\ IsGiven("uses") /\ IsGiven("targets")
    BY DEF IsGiven
<1>a. \A rel \in {"attributed-to", "uses"} : \A type, mark : Guarded(rel, type, mark)
    BY Zenon DEF Guarded
<1>b. \A b \in ToSet(campaigns) : \A mark : Guarded("targets", b.type, mark)
  <2>1. \A mark : Guarded("targets", "campaign", mark)
      BY Zenon DEF Guarded
  <2> QED
      BY <1>c, <2>1
<1>e. {"campaign-capability", "campaign-infrastructure", "campaign-victimology"}
          \intersect AdversaryLinks = {}
    BY DEF AdversaryLinks
<1>7. LinkList(rs, n, actor) /\ Owned(rs, actor)
    BY <1>3, <1>5, <1>6, <1>a, <1>d
<1>8. LinkList(rs, n, uses) /\ Owned(rs, uses) /\ LinkList(rs, n, runs) /\ Owned(rs, runs)
    BY <1>2, <1>5, <1>6, <1>a, <1>e
<1>9. LinkList(rs, n, hits) /\ Owned(rs, hits)
    BY <1>2, <1>5, <1>6, <1>b, <1>e
<1> HIDE DEF actor, uses, runs, hits
<1>10. LinkList(rs, n, links) /\ Owned(rs, links)
    BY <1>7, <1>8, <1>9, LinksJoin
<1> HIDE DEF links
<1> QED
    BY <1>1, <1>10

LEMMA CampaignsGrow ==
    ASSUME NEW item, NEW rs, NEW n, Grown(item, rs, n)
    PROVE  Grown(item, rs \o CampaignContext(item, rs), n)
BY CampaignLinks, RelatedIsOwned

\* What uses infrastructure, and what it is related to and targets.
LEMMA NetworkLinks ==
    ASSUME NEW item, NEW rs, NEW n, Grown(item, rs, n)
    PROVE  \E links : /\ LinkList(rs, n, links) /\ Owned(rs, links)
                      /\ InfrastructureContext(item, rs) \in {<<>>, Related(item, rs, links)}
<1> DEFINE networks == Firsts(Picked(rs, TypedPlaces(rs, "infrastructure", "infrastructure")))
           Those(ents) == Firsts(Picked(rs, PlacesOf(rs, ents)))
           actor == Step(WithTheOne(networks, Those(Adversaries)), "uses",
                         "infrastructure-adversary")
           campaign == Step(WithTheOne(networks, Those({"campaign"})), "uses",
                            "infrastructure-campaign")
           uses == Step(ByTarget(networks, Those(InfrastructureCapabilities)), "uses",
                        "infrastructure-capability")
           techniques == Step(BySource(Those({"attack_pattern"}), networks), "related-to",
                              "infrastructure-ttp")
           hits == Step(BySource(Those(Victims), networks), "targets",
                        "infrastructure-victimology")
           links == actor \o campaign \o uses \o techniques \o hits
<1>1. InfrastructureContext(item, rs) = IF Len(networks) > MaxOwners THEN <<>>
                                        ELSE Related(item, rs, links)
    BY DEF InfrastructureContext, RelatedToInfrastructure, Unique, Selected, Firsts, ActorsIn,
           InfrastructureIn, VictimsIn, PlacesOf, TypedPlaces, WithTheOne
<1>2. /\ Entities(rs, n, {"infrastructure"}, networks)
      /\ \A ents : Entities(rs, n, ents, Those(ents))
    BY TypedAreEntities, UniqueAreEntities
<1>c. \A ents : Entities(rs, n, ents, OnlyOne(Those(ents)))
    BY <1>2, ShortLists DEF OnlyOne, Entities
<1>d. OnlyOne(Those(Adversaries)) = <<>> \/ Len(ActorsOf(rs)) = 1
    BY DEF OnlyOne, ActorsOf
<1>e. {"infrastructure-campaign", "infrastructure-capability", "infrastructure-ttp",
       "infrastructure-victimology"} \intersect AdversaryLinks = {}
    BY DEF AdversaryLinks
<1> HIDE DEF networks, Those
<1>3. \A ents : \A a, b : a.ent \in {"infrastructure"} /\ b.ent \in ents => SureEnough(a, b)
    BY DEF SureEnough
<1>4. \A a, b : a.ent \in {"attack_pattern"} /\ b.ent \in {"infrastructure"} => SureEnough(a, b)
    BY DEF SureEnough
<1>5. \A a, b : a.ent \in Victims /\ b.ent \in {"infrastructure"} => SureEnough(a, b)
    BY DEF SureEnough
<1>6. IsGiven("uses") /\ IsGiven("related-to") /\ IsGiven("targets")
    BY DEF IsGiven
<1>a. \A rel \in {"related-to", "uses"} : \A type, mark : Guarded(rel, type, mark)
    BY Zenon DEF Guarded
<1>b. \A type : Guarded("targets", type, Marks("infrastructure-victimology"))
    BY Zenon DEF Guarded, Marks
<1>7. \A ents : IsList(Those(ents))
    BY <1>2 DEF Entities
<1>8. IsList(networks)
    BY <1>2 DEF Entities
<1>9. LinkList(rs, n, actor) /\ Owned(rs, actor)
  <2>1. PairList(WithTheOne(networks, Those(Adversaries)), networks,
                 OnlyOne(Those(Adversaries)))
      BY <1>7, <1>8, PairsAreListed
  <2> QED
      BY <1>2, <1>c, <1>d, <1>3, <1>6, <1>a, <2>1, StepsAreLinks, StepIsOwned
<1>10. LinkList(rs, n, campaign) /\ Owned(rs, campaign)
  <2>1. PairList(WithTheOne(networks, Those({"campaign"})), networks,
                 OnlyOne(Those({"campaign"})))
      BY <1>7, <1>8, PairsAreListed
  <2> QED
      BY <1>2, <1>c, <1>e, <1>3, <1>6, <1>a, <2>1, StepsAreLinks, StepIsOwned
<1>11. LinkList(rs, n, uses) /\ Owned(rs, uses)
  <2>1. PairList(ByTarget(networks, Those(InfrastructureCapabilities)), networks,
                 Those(InfrastructureCapabilities))
      BY <1>7, <1>8, PairsAreListed
  <2> QED
      BY <1>2, <1>e, <1>3, <1>6, <1>a, <2>1, StepsAreLinks, StepIsOwned
<1>12. LinkList(rs, n, techniques) /\ Owned(rs, techniques)
  <2>1. PairList(BySource(Those({"attack_pattern"}), networks), Those({"attack_pattern"}), networks)
      BY <1>7, <1>8, PairsAreListed
  <2> QED
      BY <1>2, <1>e, <1>4, <1>6, <1>a, <2>1, StepsAreLinks, StepIsOwned
<1>13. LinkList(rs, n, hits) /\ Owned(rs, hits)
  <2>1. PairList(BySource(Those(Victims), networks), Those(Victims), networks)
      BY <1>7, <1>8, PairsAreListed
  <2> QED
      BY <1>2, <1>e, <1>5, <1>6, <1>b, <2>1, StepsAreLinks, StepIsOwned
<1> HIDE DEF actor, campaign, uses, techniques, hits
<1>14. LinkList(rs, n, links) /\ Owned(rs, links)
    BY <1>9, <1>10, <1>11, <1>12, <1>13, LinksJoin
<1> HIDE DEF links
<1> QED
    BY <1>1, <1>14

LEMMA NetworksGrow ==
    ASSUME NEW item, NEW rs, NEW n, Grown(item, rs, n)
    PROVE  Grown(item, rs \o InfrastructureContext(item, rs), n)
BY NetworkLinks, RelatedIsOwned

---------------------------------------------------------------------------
(* The invariant of an item *)

DocumentIsFound ==
    \/ document.source = "misp" /\ document.body \in Events
    \/ document.source = "otx" /\ document.body \in Pulses

\* The policy is applied to all records, and what it accepts decides.
Decided(c) ==
    LET base == BaseScore(c)
        score == DecisionScore(base, accepted)
    IN IF TlpIsAllowed(TlpOf(document))
       THEN [signals |-> c, score |-> score, action |-> ShouldIngest(c.age, score)]
       ELSE [signals |-> c, score |-> base, action |-> "drop"]

\* What the preview of the bundle is built of.
SentOf(cands) ==
    IF Mode = "export" THEN Exportable(cands, PlanActions(cands, NothingKnown), NothingKnown)
    ELSE cands

ItemInv ==
    /\ stage \in Stages /\ DocumentIsFound
    /\ stage = "extracted" /\ IsEvent => meta = Metadata(document.body)
    /\ \E n \in Nat : Grown(Item, records, n)
    /\ accepted = IF stage \in {"accepted", "decided", "built"} THEN Accepted(records) ELSE <<>>
    /\ IF stage \in {"decided", "built"} THEN \E c \in Signals : decision = Decided(c)
       ELSE decision = NoDecision
    /\ bundle = IF stage = "built" THEN Bundle(SentOf(accepted), {}) ELSE NoBundle

\* The clusters and the anchor of an event are what it is said to tell.
LEMMA EventTells ==
    ASSUME NEW e, IsMispEvent(e), NEW told,
           told = [source |-> "misp", actors |-> ActorsNamed(e), anchors |-> Sole(AnchorsNamed(e))],
           NEW m, m = Metadata(e)
    PROVE  /\ told.source = "misp" /\ MayGive(told, ContextAnchor(m))
           /\ MayNameAll(told, m.galaxies) /\ MayNameAll(told, TagClusters(m.tags))
<1> DEFINE tagged == TagClusters(m.tags)
           clusters == m.galaxies \o tagged
           named == MapSeq(m.campaigns, LAMBDA c : <<"campaign", c.val>>)
           mapped == MapSeq(clusters, AnchorOf)
           given == Selected(mapped, LAMBDA a : a # NoEnd)
           anchors == named \o given
<1>1. /\ m.galaxies = Galaxies(e) /\ m.tags = e.tags /\ m.campaigns = Campaigns(e)
      /\ IsMeta(m)
    BY MetadataIsListed DEF Metadata
<1>2. told.source = "misp" /\ told.actors = ActorsNamed(e)
      /\ told.anchors = Sole(AnchorsNamed(e))
    OBVIOUS
<1>3. IsList(m.galaxies) /\ IsList(tagged) /\ IsList(m.campaigns)
    BY <1>1, TagClustersAreListed DEF IsMeta, AreClusters
<1>4. clusters = NamedClusters(e)
    BY <1>1 DEF NamedClusters
<1> HIDE DEF tagged
<1>5. IsList(clusters) /\ ToSet(clusters) = ToSet(m.galaxies) \union ToSet(tagged)
    BY <1>3, JoinedList
<1>6. \A c \in ToSet(clusters) : MayName(told, ClassOf(c).ent, ValueOf(c), "misp-galaxy")
    BY <1>2, <1>4 DEF ActorsNamed, MayName
<1>7. MayNameAll(told, m.galaxies) /\ MayNameAll(told, TagClusters(m.tags))
    BY <1>5, <1>6 DEF MayNameAll, tagged
<1>8. IsList(named) /\ ToSet(named) = {<<"campaign", c.val>> : c \in ToSet(m.campaigns)}
  <2>1. named = [i \in DOMAIN m.campaigns |-> <<"campaign", m.campaigns[i].val>>]
      BY DEF MapSeq
  <2> HIDE DEF named
  <2>2. IsList(named) /\ DOMAIN named = DOMAIN m.campaigns
      BY <1>3, <2>1, MappedList
  <2>3. \A i \in DOMAIN named : named[i] = <<"campaign", m.campaigns[i].val>>
      BY <2>1, <2>2
  <2>4. \A x \in ToSet(named) : x \in {<<"campaign", c.val>> : c \in ToSet(m.campaigns)}
    <3> SUFFICES ASSUME NEW i \in DOMAIN named
                 PROVE  named[i] \in {<<"campaign", c.val>> : c \in ToSet(m.campaigns)}
        BY DEF ToSet
    <3>1. m.campaigns[i] \in ToSet(m.campaigns)
        BY <2>2 DEF ToSet
    <3> QED
        BY <2>3, <3>1
  <2>5. \A c \in ToSet(m.campaigns) : <<"campaign", c.val>> \in ToSet(named)
    <3> SUFFICES ASSUME NEW i \in DOMAIN m.campaigns
                 PROVE  <<"campaign", m.campaigns[i].val>> \in ToSet(named)
        BY DEF ToSet
    <3> QED
        BY <2>2, <2>3 DEF ToSet
  <2> QED
      BY <2>2, <2>4, <2>5
<1>9. IsList(mapped) /\ ToSet(mapped) = {AnchorOf(c) : c \in ToSet(clusters)}
  <2> HIDE DEF clusters
  <2>1. mapped = [i \in DOMAIN clusters |-> AnchorOf(clusters[i])]
      BY DEF MapSeq
  <2> HIDE DEF mapped
  <2>2. IsList(mapped) /\ DOMAIN mapped = DOMAIN clusters
      BY <1>5, <2>1, MappedList
  <2>3. \A i \in DOMAIN mapped : mapped[i] = AnchorOf(clusters[i])
      BY <2>1, <2>2
  <2> QED
      BY <2>2, <2>3 DEF ToSet
<1>10. ContextAnchor(m) = SingleAnchor(anchors)
    BY DEF ContextAnchor, tagged
<1> HIDE DEF clusters, mapped
<1>11. /\ IsList(given)
       /\ ToSet(given) = {a \in ToSet(mapped) : a # NoEnd}
  <2> DEFINE S == {i \in DOMAIN mapped : mapped[i] # NoEnd}
  <2>1. IsList(given) /\ ToSet(given) = {mapped[i] : i \in S}
      BY <1>9, PickedList DEF Selected
  <2> QED
      BY <2>1 DEF ToSet
<1> HIDE DEF named, given
<1>12. IsList(anchors) /\ ToSet(anchors) = ToSet(named) \union ToSet(given)
    BY <1>8, <1>11, JoinedList
<1>13. ToSet(anchors) = AnchorsNamed(e)
    BY <1>1, <1>4, <1>8, <1>9, <1>11, <1>12 DEF AnchorsNamed
<1> HIDE DEF anchors
<1>14. MayGive(told, SingleAnchor(anchors))
  <2>1. CASE Cardinality(ToSet(anchors)) = 1
    <3>1. \E x : ToSet(anchors) = {x}
        BY <1>12, <2>1, ListIsFinite, FS_Singleton
    <3>2. anchors[1] \in ToSet(anchors)
      <4>1. Len(anchors) \in Nat /\ DOMAIN anchors = 1 .. Len(anchors)
            /\ \A i \in DOMAIN anchors : anchors[i] \in ToSet(anchors)
          BY <1>12, ListLength
      <4>2. DOMAIN anchors # {}
          BY <3>1, Zenon DEF ToSet
      <4> QED
          BY <4>1, <4>2
    <3>3. ToSet(anchors) = {anchors[1]}
        BY <3>1, <3>2
    <3>4. anchors[1] \in told.anchors
        BY <1>2, <1>13, <3>3 DEF Sole
    <3> QED
        BY <2>1, <3>4 DEF SingleAnchor, MayGive
  <2>2. CASE Cardinality(ToSet(anchors)) # 1
      BY <2>2 DEF SingleAnchor, MayGive, NoEnd, AnchorTypes
  <2> QED
      BY <2>1, <2>2
<1> QED
    BY <1>2, <1>7, <1>10, <1>14

LEMMA PulseTells ==
    ASSUME NEW p, IsPulse(p), NEW told,
           told.anchors = {<<"intrusion-set", x>> : x \in Sole(ToSet(TextsOf(p, "adversary")))}
    PROVE  AdversaryIsTold(told, p)
<1> DEFINE texts == TextsOf(p, "adversary")
<1> SUFFICES ASSUME SoleAdversary(p) # NoAdversary
             PROVE  <<"intrusion-set", SoleAdversary(p)>> \in told.anchors
    BY DEF AdversaryIsTold
<1>1. Len(texts) = 1 /\ SoleAdversary(p) = texts[1]
    BY DEF SoleAdversary
<1>2. IsList(texts)
    BY TextsAreListed DEF IsTextList
<1> HIDE DEF texts
<1>3. DOMAIN texts = 1 .. 1
    BY <1>1, <1>2, ListLength
<1>4. ToSet(texts) = {texts[1]}
    BY <1>3 DEF ToSet
<1> QED
    BY <1>1, <1>4 DEF Sole, texts

\* What an item states is all that is known of it at first.
LEMMA StatedIsGrown ==
    ASSUME NEW item, NEW told, NEW rs, StatedList(item, told, rs)
    PROVE  \E n \in Nat : Grown(item, rs, n)
<1>1. IsList(rs) /\ Len(rs) \in Nat /\ DOMAIN rs = 1 .. Len(rs)
    BY ListLength DEF StatedList
<1>2. \A i \in 1 .. Len(rs) : Stated(item, rs[i])
    BY <1>1, ListLength DEF StatedList
<1>3. Len(rs) \in 0 .. Len(rs) /\ Len(rs) + 1 .. Len(rs) = {}
    BY <1>1
<1>4. Grown(item, rs, Len(rs))
    BY <1>1, <1>2, <1>3 DEF Grown
<1> QED
    BY <1>1, <1>4

LEMMA EvidenceIsStated ==
    ItemInv /\ BuildEvidence => StatedList(Item, ToldBy(document), records')
<1> SUFFICES ASSUME ItemInv, BuildEvidence
             PROVE  StatedList(Item, ToldBy(document), records')
    OBVIOUS
<1> DEFINE told == ToldBy(document)
<1>1. /\ stage = "extracted"
      /\ records' = IF IsEvent THEN EventEvidence(Item, meta)
                    ELSE PulseEvidence(Item, document.body)
    BY DEF BuildEvidence
<1>2. CASE IsEvent
  <2>1. IsMispEvent(document.body) /\ meta = Metadata(document.body)
      BY <1>1, <1>2, FeedsAssumption DEF ItemInv, DocumentIsFound, IsEvent
  <2>2. IsMeta(meta)
      BY <2>1, MetadataIsListed
  <2>3. told = [source |-> "misp", actors |-> ActorsNamed(document.body),
                anchors |-> Sole(AnchorsNamed(document.body))]
      BY <1>2 DEF ToldBy, IsEvent
  <2> HIDE DEF told
  <2>4. /\ told.source = "misp" /\ MayGive(told, ContextAnchor(meta))
        /\ MayNameAll(told, meta.galaxies) /\ MayNameAll(told, TagClusters(meta.tags))
      BY <2>1, <2>3, EventTells
  <2>5. StatedList(Item, told, EventEvidence(Item, meta))
      BY <2>2, <2>4, EventIsStated
  <2> QED
      BY <1>1, <1>2, <2>5 DEF told
<1>3. CASE ~IsEvent
  <2>1. IsPulse(document.body)
      BY <1>3, FeedsAssumption DEF ItemInv, DocumentIsFound, IsEvent
  <2>2. told.anchors = {<<"intrusion-set", x>> :
                           x \in Sole(ToSet(TextsOf(document.body, "adversary")))}
      BY <1>3 DEF ToldBy, IsEvent
  <2> HIDE DEF told
  <2>3. AdversaryIsTold(told, document.body)
      BY <2>1, <2>2, PulseTells
  <2>4. StatedList(Item, told, PulseEvidence(Item, document.body))
      BY <2>1, <2>3, PulseIsStated
  <2> QED
      BY <1>1, <1>3, <2>4 DEF told
<1> QED
    BY <1>2, <1>3

LEMMA ItemInvInit ==
    Init => ItemInv
<1> SUFFICES ASSUME Init PROVE ItemInv
    OBVIOUS
<1>1. DocumentIsFound
    BY DEF Init, DocumentIsFound
<1>2. \E n \in Nat : Grown(Item, records, n)
  <2>1. records = <<>>
      BY DEF Init
  <2>2. StatedList(Item, ToldBy(document), records)
      BY <2>1, NothingStated
  <2> QED
      BY <2>2, StatedIsGrown
<1>3. stage = "found" /\ accepted = <<>> /\ decision = NoDecision /\ bundle = NoBundle
    BY DEF Init
<1> QED
    BY <1>1, <1>2, <1>3 DEF ItemInv, Stages

LEMMA ItemInvNext ==
    ItemInv /\ [Next]_vars => ItemInv'
<1> SUFFICES ASSUME ItemInv, [Next]_vars PROVE ItemInv'
    OBVIOUS
<1>1. document' = document
    BY DEF Next, vars, Extract, BuildEvidence, RelateCampaigns, RelateInfrastructure,
           ApplyPolicy, Decide, Preview
<1>2. DocumentIsFound' /\ Item' = Item /\ (IsEvent' <=> IsEvent)
    BY <1>1 DEF ItemInv, DocumentIsFound, Item, IsEvent
<1>3. (records' = records) => \E n \in Nat : Grown(Item', records', n)
    BY <1>2 DEF ItemInv
<1>4. (accepted' = accepted) => \A c : Decided(c)' = Decided(c)
    BY <1>1 DEF Decided
<1>5. CASE UNCHANGED vars
    BY <1>2, <1>3, <1>4, <1>5 DEF ItemInv, vars
<1>6. CASE Extract
  <2>1. /\ stage = "found" /\ stage' = "extracted" /\ records' = records
        /\ accepted' = accepted /\ decision' = decision /\ bundle' = bundle
        /\ IsEvent => meta' = Metadata(document.body)
      BY <1>6 DEF Extract
  <2> QED
      BY <1>1, <1>2, <1>3, <2>1 DEF ItemInv, Stages
<1>7. CASE BuildEvidence
  <2>1. /\ stage = "extracted" /\ stage' = "evidence"
        /\ accepted' = accepted /\ decision' = decision /\ bundle' = bundle
        /\ records' = IF IsEvent THEN EventEvidence(Item, meta)
                      ELSE PulseEvidence(Item, document.body)
      BY <1>7 DEF BuildEvidence
  <2>2. StatedList(Item, ToldBy(document), records')
      BY <1>7, EvidenceIsStated
  <2>3. \E n \in Nat : Grown(Item', records', n)
      BY <1>2, <2>2, StatedIsGrown
  <2> QED
      BY <1>2, <2>1, <2>3 DEF ItemInv, Stages
<1>8. CASE RelateCampaigns
  <2>1. /\ stage = "evidence" /\ stage' = "campaigns"
        /\ accepted' = accepted /\ decision' = decision /\ bundle' = bundle
        /\ records' = records \o CampaignContext(Item, records)
      BY <1>8 DEF RelateCampaigns, WithCampaigns
  <2>2. \E n \in Nat : Grown(Item', records', n)
      BY <1>2, <2>1, CampaignsGrow DEF ItemInv
  <2> QED
      BY <1>2, <2>1, <2>2 DEF ItemInv, Stages
<1>9. CASE RelateInfrastructure
  <2>1. /\ stage = "campaigns" /\ stage' = "related"
        /\ accepted' = accepted /\ decision' = decision /\ bundle' = bundle
        /\ records' = records \o InfrastructureContext(Item, records)
      BY <1>9 DEF RelateInfrastructure, WithInfrastructure
  <2>2. \E n \in Nat : Grown(Item', records', n)
      BY <1>2, <2>1, NetworksGrow DEF ItemInv
  <2> QED
      BY <1>2, <2>1, <2>2 DEF ItemInv, Stages
<1>10. CASE ApplyPolicy
  <2>1. /\ stage = "related" /\ stage' = "accepted" /\ records' = records
        /\ accepted' = Accepted(records) /\ decision' = decision /\ bundle' = bundle
      BY <1>10 DEF ApplyPolicy
  <2> QED
      BY <1>2, <1>3, <2>1 DEF ItemInv, Stages
<1>11. CASE Decide
  <2>1. /\ stage = "accepted" /\ stage' = "decided" /\ records' = records
        /\ accepted' = accepted /\ bundle' = bundle
        /\ \E c \in Signals : decision' = Decided(c)
      BY <1>11 DEF Decide, Decided
  <2>2. \E c \in Signals : decision' = Decided(c)'
      BY <1>4, <2>1
  <2> QED
      BY <1>2, <1>3, <2>1, <2>2 DEF ItemInv, Stages
<1>12. CASE Preview
  <2>1. /\ stage = "decided" /\ stage' = "built" /\ records' = records
        /\ accepted' = accepted /\ decision' = decision
        /\ bundle' = Bundle(SentOf(accepted), {})
      BY <1>12 DEF Preview, SentOf
  <2>2. \E c \in Signals : decision' = Decided(c)'
      BY <1>4, <2>1 DEF ItemInv
  <2> QED
      BY <1>2, <1>3, <2>1, <2>2 DEF ItemInv, Stages
<1> QED
    BY <1>5, <1>6, <1>7, <1>8, <1>9, <1>10, <1>11, <1>12 DEF Next

LEMMA ItemInvariant ==
    Spec => []ItemInv
BY ItemInvInit, ItemInvNext, PTL DEF Spec

---------------------------------------------------------------------------
(* What is inferred *)

LEMMA PairSet ==
    \A x, y : ToSet(<<x, y>>) = {x, y}
<1> SUFFICES ASSUME NEW x, NEW y PROVE ToSet(<<x, y>>) = {x, y}
    OBVIOUS
<1> DEFINE s == <<x, y>>
<1>1. DOMAIN s = 1 .. 2 /\ s[1] = x /\ s[2] = y
    OBVIOUS
<1>2. DOMAIN s = {1, 2}
    BY <1>1
<1>3. ToSet(s) = {s[i] : i \in {1, 2}}
    BY <1>2, Zenon DEF ToSet
<1> QED
    BY <1>1, <1>3

LEMMA RecordsAreKnown ==
    ASSUME ItemInv
    PROVE  \E n \in Nat :
              /\ Grown(Item, records, n)
              /\ DOMAIN records = 1 .. Len(records) /\ Len(records) \in Nat
              /\ n \in 0 .. Len(records) /\ 1 .. n \subseteq DOMAIN records
              /\ \A i \in DOMAIN records :
                    /\ Made(Item, records[i]) /\ records[i] \in ToRecords
                    /\ IF i \in 1 .. n THEN Stated(Item, records[i]) /\ ~IsInferred(records[i])
                       ELSE Follows(records, n, i) /\ IsInferred(records[i])
<1>1. PICK n \in Nat : Grown(Item, records, n)
    BY DEF ItemInv
<1>2. /\ DOMAIN records = 1 .. Len(records) /\ Len(records) \in Nat
      /\ n \in 0 .. Len(records) /\ \A i \in DOMAIN records : records[i] \in ToSet(records)
    BY <1>1, ListLength DEF Grown
<1>3. 1 .. n \subseteq DOMAIN records
    BY <1>2
<1>4. ASSUME NEW i \in DOMAIN records, i \in 1 .. n
      PROVE  Made(Item, records[i]) /\ Stated(Item, records[i]) /\ ~IsInferred(records[i])
    BY <1>1, <1>4 DEF Grown, Stated, IsInferred
<1>5. ASSUME NEW i \in DOMAIN records, i \notin 1 .. n
      PROVE  Made(Item, records[i]) /\ Follows(records, n, i) /\ IsInferred(records[i])
  <2>1. i \in n + 1 .. Len(records)
      BY <1>2, <1>5
  <2> QED
      BY <1>1, <2>1 DEF Grown, Follows, IsInferred
<1> QED
    BY <1>1, <1>2, <1>3, <1>4, <1>5 DEF ToRecords

\* Two passes relate the records of an event, and the second sees what the
\* first added: what an item states is not inferred once more, and nothing is
\* inferred twice (core/graph_evidence.py semantic_relationship_keys).
THEOREM EdgesOnce ==
    Spec => []NoEdgeTwice
<1>1. ItemInv => NoEdgeTwice
  <2> SUFFICES ASSUME ItemInv, NEW i \in DOMAIN records, NEW j \in DOMAIN records,
                      i # j, IsInferred(records[j])
               PROVE  "" \notin ToSet(records[i].given)
                      => SemanticKey(records[i].given, records[i].rel, records[i])
                            # SemanticKey(records[j].given, records[j].rel, records[j])
      BY DEF NoEdgeTwice
  <2>1. PICK n \in Nat :
            /\ Grown(Item, records, n)
            /\ DOMAIN records = 1 .. Len(records) /\ Len(records) \in Nat
            /\ n \in 0 .. Len(records) /\ 1 .. n \subseteq DOMAIN records
            /\ \A k \in DOMAIN records :
                  /\ Made(Item, records[k]) /\ records[k] \in ToRecords
                  /\ IF k \in 1 .. n THEN Stated(Item, records[k]) /\ ~IsInferred(records[k])
                     ELSE Follows(records, n, k) /\ IsInferred(records[k])
      BY RecordsAreKnown
  <2>a. n \in Nat /\ i \in Nat /\ j \in Nat /\ i >= 1 /\ j >= 1
    <3>1. DOMAIN records = 1 .. Len(records) /\ Len(records) \in Nat
        BY <2>1
    <3>2. i \in 1 .. Len(records) /\ j \in 1 .. Len(records)
        BY <3>1
    <3> QED
        BY <3>1, <3>2
  <2>2. j \notin 1 .. n /\ Follows(records, n, j)
      BY <2>1
  <2>3. CASE i < j
      BY <2>2, <2>3, Zenon DEF Follows
  <2>4. CASE j < i
    <3>a. i \notin 1 .. n
        BY <2>a, <2>2, <2>4, SMTT(20)
    <3>1. Follows(records, n, i)
        BY <2>1, <3>a
    <3>2. PICK b \in 1 .. n : records[j].given = <<records[b].type, records[b].val>>
        BY <2>2 DEF Follows
    <3>3. records[b].type # "" /\ records[b].val # ""
        BY <2>1, <3>2 DEF Made, IsGiven
    <3>4. "" \notin ToSet(records[j].given)
      <4>1. ToSet(records[j].given) = {records[b].type, records[b].val}
          BY <3>2, PairSet, Zenon
      <4> QED
          BY <3>3, <4>1, Zenon
    <3>5. SemanticKey(records[j].given, records[j].rel, records[j])
             # SemanticKey(records[i].given, records[i].rel, records[i])
        BY <2>1, <2>4, <3>1, <3>4, Zenon DEF Follows
    <3> QED
        BY <3>5
  <2>5. i < j \/ j < i
      BY <2>a
  <2> QED
      BY <2>3, <2>4, <2>5, Zenon
<1> QED
    BY <1>1, ItemInvariant, PTL

\* What follows from two records is not surer than either of the records the
\* item states: the certainty of an inferred record is the lesser of theirs,
\* and the canonical name and the kind of evidence do not raise it above
\* (core/graph_evidence.py evidence_confidence).
THEOREM InferredIsNotSurer ==
    Spec => []ContextNotSurer
<1>1. ItemInv => ContextNotSurer
  <2> SUFFICES ASSUME ItemInv, NEW r \in ToRecords, IsInferred(r)
               PROVE  /\ \E s \in ToRecords : <<s.type, s.val>> = r.given /\ r.conf <= s.conf
                      /\ \E s \in ToRecords : ~IsInferred(s) /\ EntityKey(s) = EntityKey(r)
                                              /\ r.conf <= s.conf
      BY DEF ContextNotSurer
  <2>1. PICK n \in Nat :
            /\ Grown(Item, records, n)
            /\ DOMAIN records = 1 .. Len(records) /\ Len(records) \in Nat
            /\ n \in 0 .. Len(records) /\ 1 .. n \subseteq DOMAIN records
            /\ \A k \in DOMAIN records :
                  /\ Made(Item, records[k]) /\ records[k] \in ToRecords
                  /\ IF k \in 1 .. n THEN Stated(Item, records[k]) /\ ~IsInferred(records[k])
                     ELSE Follows(records, n, k) /\ IsInferred(records[k])
      BY RecordsAreKnown
  <2>2. PICK j \in DOMAIN records : r = records[j]
      BY DEF ToRecords, ToSet
  <2>3. Follows(records, n, j)
      BY <2>1, <2>2
  <2>4. PICK a \in 1 .. n, b \in 1 .. n :
            /\ SameEntity(records[a], r) /\ r.conf <= records[a].conf
            /\ r.given = <<records[b].type, records[b].val>> /\ r.conf <= records[b].conf
      BY <2>2, <2>3 DEF Follows
  <2>5. records[a] \in ToRecords /\ records[b] \in ToRecords /\ ~IsInferred(records[a])
      BY <2>1
  <2>6. EntityKey(records[a]) = EntityKey(r)
      BY <2>4 DEF SameEntity, EntityKey
  <2> QED
      BY <2>4, <2>5, <2>6
<1> QED
    BY <1>1, ItemInvariant, PTL

---------------------------------------------------------------------------
(* What is accepted, and what it decides *)

LEMMA CandidatesAreRecords ==
    ASSUME NEW rs
    PROVE  /\ DOMAIN Candidates(rs) = {i \in DOMAIN rs : IsCandidate(rs[i])}
           /\ \A i \in DOMAIN Candidates(rs) : Candidates(rs)[i] = Candidate(rs[i])
BY DEF Candidates

\* A record is accepted by what it says, whatever the others are.
LEMMA AcceptedAreRecords ==
    ASSUME NEW rs
    PROVE  /\ DOMAIN Accepted(rs) \subseteq DOMAIN rs
           /\ ToSet(Accepted(rs)) =
                 {Candidate(r) : r \in {r \in ToSet(rs) : IsCandidate(r) /\ IsAccepted(Candidate(r))}}
<1> DEFINE cands == Candidates(rs)
           passed == Passed(rs)
           places == {i \in DOMAIN cands : cands[i] \in passed}
<1>1. /\ DOMAIN cands = {i \in DOMAIN rs : IsCandidate(rs[i])}
      /\ \A i \in DOMAIN cands : cands[i] = Candidate(rs[i])
    BY CandidatesAreRecords
<1>2. Accepted(rs) = [i \in places |-> cands[i]]
    BY DEF Accepted
<1>3. \A i \in DOMAIN cands : cands[i] \in passed <=> IsAccepted(cands[i])
    BY DEF Passed, ToSet
<1> HIDE DEF cands, passed
<1>4. ToSet(Accepted(rs)) = {cands[i] : i \in places}
    BY <1>2 DEF ToSet
<1>5. ASSUME NEW x \in ToSet(Accepted(rs))
      PROVE  \E r \in ToSet(rs) : IsCandidate(r) /\ IsAccepted(Candidate(r)) /\ x = Candidate(r)
    BY <1>1, <1>3, <1>4 DEF ToSet
<1>6. ASSUME NEW r \in ToSet(rs), IsCandidate(r), IsAccepted(Candidate(r))
      PROVE  Candidate(r) \in ToSet(Accepted(rs))
    BY <1>1, <1>3, <1>4, <1>6 DEF ToSet
<1> QED
    BY <1>1, <1>2, <1>5, <1>6

LEMMA AcceptedIsFinite ==
    ASSUME ItemInv
    PROVE  IsFiniteSet(DOMAIN accepted) /\ ToSet(accepted) \subseteq {Candidate(r) : r \in ToRecords}
<1>1. IsFiniteSet(DOMAIN records)
    BY ListLength DEF ItemInv, Grown
<1>2. CASE accepted = Accepted(records)
  <2>1. DOMAIN accepted \subseteq DOMAIN records
      BY <1>2, AcceptedAreRecords
  <2>2. ToSet(accepted) \subseteq {Candidate(r) : r \in ToRecords}
      BY <1>2, AcceptedAreRecords DEF ToRecords
  <2> QED
      BY <1>1, <2>1, <2>2, FS_Subset
<1>3. CASE accepted = <<>>
  <2>1. DOMAIN accepted = {} /\ ToSet(accepted) = {}
      BY <1>3, ShortLists
  <2> QED
      BY <2>1, FS_EmptySet
<1> QED
    BY <1>2, <1>3 DEF ItemInv

\* The score of a decision, and what it is without context.
LEMMA DecisionIsScore ==
    ASSUME NEW c, NEW cands, IsFiniteSet(DOMAIN cands)
    PROVE  LET base == BaseScore(c)
               score == DecisionScore(base, cands)
           IN /\ base \in 0 .. 100 /\ score \in 0 .. 100 /\ base <= score
              /\ cands = <<>> \/ ScoringMode # "enforce" => score = base
<1> DEFINE base == BaseScore(c)
           impact == Impact(cands)
           score == DecisionScore(base, cands)
<1>1. base \in 0 .. 100
    BY BaseIsScore
<1>2. impact \in 0 .. 100 /\ (cands = <<>> => impact = 0)
    BY ImpactIsBounded
<1>3. score = IF ScoringMode = "enforce" THEN ContextualScore(base, impact) ELSE base
    BY Zenon DEF DecisionScore
<1> HIDE DEF base, impact, score
<1>4. ContextualScore(base, impact) \in base .. 100
    BY <1>1, <1>2, ContextIsForwardOnly
<1>5. impact = 0 => ContextualScore(base, impact) = base
  <2> SUFFICES ASSUME impact = 0 PROVE ContextualScore(base, 0) = base
      OBVIOUS
  <2>1. ContextualScore(base, 0) = Rounded(100 * base + (100 - base) * 0)
    <3>1. 0 \in 0 .. 100
        OBVIOUS
    <3> QED
        BY <1>1, <3>1, ContextualScoreIsRounded, Zenon
  <2>2. 100 * base + (100 - base) * 0 = 100 * base /\ 100 * base \in Int /\ 0 <= 100 * base
      BY <1>1
  <2>3. (100 * base) \div 100 = base /\ (100 * base) % 100 = 0
      BY <1>1
  <2>4. Rounded(100 * base) = base
      BY <2>2, <2>3, RoundedIsNear
  <2> QED
      BY <2>1, <2>2, <2>4
<1>6. score \in base .. 100
    BY <1>1, <1>3, <1>4
<1>7. cands = <<>> \/ ScoringMode # "enforce" => score = base
    BY <1>2, <1>3, <1>5, Zenon
<1>8. score \in 0 .. 100 /\ base <= score
    BY <1>1, <1>6
<1> QED
    BY <1>1, <1>7, <1>8 DEF base, score

LEMMA ActionsKnown ==
    ASSUME NEW age \in Int, NEW score \in Int
    PROVE  ShouldIngest(age, score) \in {"ingest", "quarantine", "drop"}
BY ScoringAssumption DEF ShouldIngest

\* Every record names an object and a relationship of known types, is at most
\* certain, and belongs to the item's source; what is accepted is a candidate
\* of a record, and the score is one (core/graph_evidence.py evidence_record,
\* core/contextual_scoring.py).
THEOREM ItemTypes ==
    Spec => []TypeOK
<1>1. ItemInv => TypeOK
  <2> SUFFICES ASSUME ItemInv PROVE TypeOK
      OBVIOUS
  <2>1. ASSUME NEW r \in ToRecords
        PROVE  /\ r.ent \in DOMAIN Targets /\ IsCandidate(r)
               /\ r.rel # "" /\ r.conf \in 0 .. 100 /\ r.source = document.source
    <3>1. Made(Item, r)
        BY RecordsAreKnown DEF ToRecords, ToSet
    <3>2. /\ r.ent \in DOMAIN Targets /\ IsGiven(r.val) /\ IsGiven(r.type) /\ IsGiven(r.rel)
          /\ r.conf \in 0 .. 100 /\ r.source = Item.source
        BY <3>1 DEF Made
    <3>3. IsGiven(r.ent)
        BY <3>2, NothingUnnamed
    <3>4. IsCandidate(r) /\ r.rel # ""
        BY <3>2, <3>3, Zenon DEF IsCandidate, IsGiven
    <3>5. Item.source = document.source
        BY DEF Item
    <3> QED
        BY <3>2, <3>4, <3>5
  <2>2. ToSet(accepted) \subseteq {Candidate(r) : r \in ToRecords}
      BY AcceptedIsFinite
  <2>3. decision.score \in 0 .. 100 /\ decision.action \in {"", "ingest", "quarantine", "drop"}
    <3>1. CASE decision = NoDecision
      <4>1. decision.score = 0 /\ decision.action = ""
          BY <3>1, Zenon DEF NoDecision
      <4>2. decision.score \in 0 .. 100
        <5>1. decision.score = 0
            BY <4>1, Zenon
        <5> QED
            BY <5>1
      <4>3. decision.action \in {"", "ingest", "quarantine", "drop"}
          BY <4>1, Zenon
      <4> QED
          BY <4>2, <4>3
    <3>2. ASSUME NEW c \in Signals, decision = Decided(c)
          PROVE  decision.score \in 0 .. 100
                 /\ decision.action \in {"", "ingest", "quarantine", "drop"}
      <4> DEFINE base == BaseScore(c)
                 score == DecisionScore(base, accepted)
                 action == ShouldIngest(c.age, score)
      <4>1. base \in 0 .. 100 /\ score \in 0 .. 100
          BY AcceptedIsFinite, DecisionIsScore
      <4>2. action \in {"ingest", "quarantine", "drop"}
          BY <4>1, ActionsKnown, FeedsAssumption
      <4>3. \/ decision = [signals |-> c, score |-> score, action |-> action]
            \/ decision = [signals |-> c, score |-> base, action |-> "drop"]
          BY <3>2 DEF Decided
      <4> HIDE DEF base, score, action
      <4>4. /\ decision.score = score \/ decision.score = base
            /\ decision.action = action \/ decision.action = "drop"
        <5>1. \A d, x, y, z : d = [signals |-> x, score |-> y, action |-> z]
                              => d.score = y /\ d.action = z
            OBVIOUS
        <5> QED
            BY <4>3, <5>1, Zenon
      <4> QED
          BY <4>1, <4>2, <4>4
    <3> QED
        BY <3>1, <3>2 DEF ItemInv
  <2> QED
      BY <2>1, <2>2, <2>3 DEF ItemInv, TypeOK
<1> QED
    BY <1>1, ItemInvariant, PTL

\* Context is forward-only: an item its base score lets in stays in, and one
\* the base score keeps out is let in only by what was accepted from it, in
\* mode "enforce", within the age limit and the TLP
\* (docs/configuration-reference.md, contextual scoring).
THEOREM ContextLiftsOnly ==
    Spec => []ContextOnlyLifts
<1>1. ItemInv => ContextOnlyLifts
  <2> SUFFICES ASSUME ItemInv, decision # NoDecision,
                      NEW base, base = BaseScore(decision.signals),
                      NEW age, age = decision.signals.age,
                      NEW alone,
                      alone = IF TlpIsAllowed(TlpOf(document)) THEN ShouldIngest(age, base) ELSE "drop"
               PROVE  /\ base <= decision.score
                      /\ alone = "ingest" => decision.action = "ingest"
                      /\ decision.action = "ingest" /\ alone # "ingest" =>
                            /\ ScoringMode = "enforce" /\ accepted # <<>>
                            /\ ~IsTooOld(age) /\ TlpIsAllowed(TlpOf(document))
      BY DEF ContextOnlyLifts
  <2>1. PICK c \in Signals : decision = Decided(c)
      BY DEF ItemInv
  <2> DEFINE score == DecisionScore(BaseScore(c), accepted)
             allowed == TlpIsAllowed(TlpOf(document))
  <2>2. decision = IF allowed THEN [signals |-> c, score |-> score, action |-> ShouldIngest(c.age, score)]
                   ELSE [signals |-> c, score |-> BaseScore(c), action |-> "drop"]
      BY <2>1 DEF Decided
  <2> HIDE DEF allowed
  <2>3. decision.signals = c
      BY <2>2, Zenon
  <2>4. /\ base \in 0 .. 100 /\ score \in 0 .. 100 /\ base <= score
        /\ accepted = <<>> \/ ScoringMode # "enforce" => score = base
      BY <2>3, AcceptedIsFinite, DecisionIsScore
  <2>5. age = c.age /\ age \in Int
      BY <2>3, FeedsAssumption
  <2>6. CASE allowed
    <3>1. decision.score = score /\ decision.action = ShouldIngest(age, score)
        BY <2>2, <2>5, <2>6
    <3>2. alone = ShouldIngest(age, base)
        BY <2>6 DEF allowed
    <3>3. alone = "ingest" => decision.action = "ingest"
      <4> HIDE DEF score
      <4>a. base \in Int /\ score \in Int /\ base <= score /\ age \in Int
          BY <2>4, <2>5
      <4>1. ShouldIngest(age, base) = "ingest" => ShouldIngest(age, score) = "ingest"
          BY <4>a, HigherScoreStaysIn, Zenon
      <4> QED
          BY <3>1, <3>2, <4>1
    <3>4. decision.action = "ingest" /\ alone # "ingest" =>
             ScoringMode = "enforce" /\ accepted # <<>> /\ ~IsTooOld(age)
      <4> HIDE DEF score
      <4>1. ShouldIngest(age, score) = "ingest" => ~IsTooOld(age)
          BY DEF ShouldIngest
      <4>2. score = base => decision.action = alone
          BY <3>1, <3>2
      <4> QED
          BY <2>4, <3>1, <4>1, <4>2, Zenon
    <3> QED
        BY <2>4, <2>6, <3>1, <3>3, <3>4 DEF allowed
  <2>7. CASE ~allowed
    <3>1. decision.score = base /\ decision.action = "drop" /\ alone = "drop"
        BY <2>2, <2>3, <2>7 DEF allowed
    <3> QED
        BY <2>4, <3>1
  <2> QED
      BY <2>6, <2>7
<1> QED
    BY <1>1, ItemInvariant, PTL

\* What the policy asks of a candidate.
Passes(c) ==
    /\ ~(c.conf < MinEntityConfidence) /\ ~(c.rconf < MinRelationshipConfidence)
    /\ Admits(Allowed(AllowedEntityTypes, SafeEntityTypes), c.ent)
    /\ Admits(Allowed(AllowedStixTypes, SafeStixTypes), c.type)
    /\ ~(RequireProvenance /\ ~c.prov)
    /\ ~(c.validate /\ ~(AllowVictimology /\ IsVictimology(c)))

LEMMA AcceptedPasses ==
    ASSUME NEW c
    PROVE  IsAccepted(c) <=> Passes(c)
<1> DEFINE e == c.conf < MinEntityConfidence
           r == c.rconf < MinRelationshipConfidence
           t == ~Admits(Allowed(AllowedEntityTypes, SafeEntityTypes), c.ent)
           s == ~Admits(Allowed(AllowedStixTypes, SafeStixTypes), c.type)
           p == RequireProvenance /\ ~c.prov
           v == c.validate /\ ~(AllowVictimology /\ IsVictimology(c))
           holds == [entity_confidence_below_min |-> e, relationship_confidence_below_min |-> r,
                     entity_type_not_allowed |-> t, stix_object_type_not_allowed |-> s,
                     relationship_provenance_required |-> p,
                     relationship_requires_opencti_validation |-> v]
<1>1. IsAccepted(c) <=> \A x \in DOMAIN holds : ~holds[x]
    BY DEF IsAccepted, HeldReasons
<1>2. Passes(c) <=> ~e /\ ~r /\ ~t /\ ~s /\ ~p /\ ~v
    BY DEF Passes
<1> HIDE DEF e, r, t, s, p, v
<1>3. (\A x \in DOMAIN holds : ~holds[x]) <=> ~e /\ ~r /\ ~t /\ ~s /\ ~p /\ ~v
    OBVIOUS
<1> QED
    BY <1>1, <1>2, <1>3

LEMMA CandidateFields ==
    ASSUME NEW item, NEW r, Made(item, r)
    PROVE  LET c == Candidate(r) IN
           /\ c.ent = r.ent /\ c.val = r.val /\ c.type = r.type
           /\ c.conf = r.conf /\ c.rconf = r.conf
           /\ c.prov = TRUE /\ c.validate = r.validate
<1> DEFINE n == Clamped(r.conf)
           rel == IF r.rel = "" THEN "related-to" ELSE r.rel
           anchor == Anchor(r)
           m == Clamped(r.rconf)
<1>1. r = [f \in DOMAIN r |-> r[f]] /\ {"ent", "val", "type", "conf", "rconf", "prov", "validate", "rel", "anchor"} \subseteq DOMAIN r
    BY DEF Made, Full, RecordFields, Plain
<1>2. Candidate(r) = [r EXCEPT !.rel = rel, !.anchor = anchor, !.conf = n, !.rconf = m]
    BY DEF Candidate
<1>3. n = r.conf /\ m = r.conf
    BY DEF Made, Clamped
<1>4. r.prov = TRUE
    BY DEF Made
<1> HIDE DEF n, m, rel, anchor
<1> QED
    BY <1>1, <1>2, <1>3, <1>4

\* What the policy lets follow from a record, it lets the record say itself.
LEMMA StatedPassesToo ==
    ASSUME NEW item, NEW r, Made(item, r), NEW s, Stated(item, s),
           SameEntity(s, r), r.conf <= s.conf, IsCandidate(r), IsAccepted(Candidate(r))
    PROVE  IsCandidate(s) /\ IsAccepted(Candidate(s))
<1> DEFINE c == Candidate(r)
           d == Candidate(s)
<1>1. /\ c.ent = r.ent /\ c.type = r.type /\ c.conf = r.conf /\ c.rconf = r.conf
      /\ c.prov = TRUE /\ c.validate = r.validate
    BY CandidateFields
<1>2. /\ d.ent = s.ent /\ d.type = s.type /\ d.conf = s.conf /\ d.rconf = s.conf
      /\ d.prov = TRUE /\ d.validate = FALSE
  <2>1. Made(item, s) /\ s.validate = FALSE
      BY DEF Stated
  <2> HIDE DEF d
  <2>2. LET x == Candidate(s) IN
           /\ x.ent = s.ent /\ x.type = s.type /\ x.conf = s.conf /\ x.rconf = s.conf
           /\ x.prov = TRUE /\ x.validate = s.validate
      BY <2>1, CandidateFields
  <2> QED
      BY <2>1, <2>2 DEF d
<1>3. Passes(c)
    BY AcceptedPasses
<1>4. r.ent = s.ent /\ r.type = s.type /\ r.val = s.val
    BY DEF SameEntity
<1>5. r.conf \in Int /\ s.conf \in Int /\ MinEntityConfidence \in Int /\ MinRelationshipConfidence \in Int
    BY PolicyAssumption DEF Stated, Made
<1> HIDE DEF c, d
<1>6. ~(d.conf < MinEntityConfidence) /\ ~(d.rconf < MinRelationshipConfidence)
    BY <1>1, <1>2, <1>3, <1>5 DEF Passes
<1>7. Passes(d)
    BY <1>1, <1>2, <1>3, <1>4, <1>6, Zenon DEF Passes
<1>8. IsCandidate(s)
    BY <1>4, Zenon DEF IsCandidate
<1> QED
    BY <1>7, <1>8, AcceptedPasses DEF d

LEMMA ImpactOfContext ==
    ASSUME NEW cands, NEW others, Context(cands) = Context(others)
    PROVE  Impact(cands) = Impact(others)
BY DEF Impact

\* What follows from an item does not raise its score, whatever the policy, the
\* aliases and the events: what is accepted of it names no entity that is not
\* accepted as the item states it (core/contextual_scoring.py
\* contextual_adjustments, core/graph_evidence.py).
THEOREM OnlySourcesScore ==
    Spec => []InferenceScoresNothing
<1>1. ItemInv => InferenceScoresNothing
  <2> DEFINE S == {i \in DOMAIN records : ~IsInferred(records[i])}
             stated == Picked(records, S)
             Taken(rs) == {r \in ToSet(rs) : IsCandidate(r) /\ IsAccepted(Candidate(r))}
             Told(rs) == {c \in ToSet(Accepted(rs)) : c.ent \in DOMAIN CategoryOf}
  <2> SUFFICES ASSUME ItemInv, decision # NoDecision
               PROVE  Impact(accepted) = Impact(Accepted(stated))
    <3>1. NoDecision.action = ""
        BY DEF NoDecision
    <3>2. Selected(records, LAMBDA r : ~IsInferred(r)) = stated
        BY DEF Selected
    <3> QED
        BY <3>1, <3>2, Zenon DEF InferenceScoresNothing
  <2>1. accepted = Accepted(records)
      BY DEF ItemInv
  <2>2. PICK n \in Nat :
            /\ Grown(Item, records, n)
            /\ DOMAIN records = 1 .. Len(records) /\ Len(records) \in Nat
            /\ n \in 0 .. Len(records) /\ 1 .. n \subseteq DOMAIN records
            /\ \A k \in DOMAIN records :
                  /\ Made(Item, records[k]) /\ records[k] \in ToRecords
                  /\ IF k \in 1 .. n THEN Stated(Item, records[k]) /\ ~IsInferred(records[k])
                     ELSE Follows(records, n, k) /\ IsInferred(records[k])
      BY RecordsAreKnown
  <2>3. ToSet(stated) = {records[i] : i \in S}
      BY PickedList DEF ItemInv, Grown
  <2>4. /\ ToSet(Accepted(records)) = {Candidate(r) : r \in Taken(records)}
        /\ ToSet(Accepted(stated)) = {Candidate(r) : r \in Taken(stated)}
      BY AcceptedAreRecords
  <2> HIDE DEF stated
  <2>5. Taken(stated) \subseteq Taken(records)
      BY <2>3 DEF ToSet
  <2>6. ASSUME NEW r \in Taken(records)
        PROVE  \E s \in Taken(stated) : SameEntity(s, r)
    <3>1. PICK k \in DOMAIN records : r = records[k]
        BY DEF ToSet
    <3>2. CASE k \in 1 .. n
      <4>1. r \in Taken(stated)
          BY <2>2, <2>3, <3>1, <3>2
      <4> QED
          BY <4>1 DEF SameEntity
    <3>3. CASE k \notin 1 .. n
      <4>1. PICK a \in 1 .. n : SameEntity(records[a], r) /\ r.conf <= records[a].conf
          BY <2>2, <3>1, <3>3 DEF Follows
      <4>2. Stated(Item, records[a]) /\ records[a] \in ToSet(stated) /\ Made(Item, r)
          BY <2>2, <2>3, <3>1
      <4>3. IsCandidate(records[a]) /\ IsAccepted(Candidate(records[a]))
          BY <4>1, <4>2, StatedPassesToo
      <4> QED
          BY <4>1, <4>2, <4>3
    <3> QED
        BY <3>2, <3>3
  <2>7. \A r \in Taken(records) : Candidate(r).ent = r.ent /\ Candidate(r).val = r.val
      BY <2>2, CandidateFields, ZenonT(60) DEF ToSet
  <2> DEFINE Names(rs) == {<<r.ent, r.val>> : r \in Taken(rs)}
  <2> HIDE DEF Taken
  <2>8. Names(records) = Names(stated)
      BY <2>5, <2>6 DEF SameEntity
  <2>9. ASSUME NEW rs, ToSet(Accepted(rs)) = {Candidate(r) : r \in Taken(rs)},
               Taken(rs) \subseteq Taken(records)
        PROVE  Context(Accepted(rs)) =
                  {<<CategoryOf[k[1]], k[1], k[2]>> : k \in {k \in Names(rs) : k[1] \in DOMAIN CategoryOf}}
    <3> DEFINE named == {k \in Names(rs) : k[1] \in DOMAIN CategoryOf}
               All == {<<CategoryOf[k[1]], k[1], k[2]>> : k \in named}
    <3> HIDE DEF Names
    <3>1. ASSUME NEW x \in Context(Accepted(rs)) PROVE x \in All
      <4>1. PICK r \in Taken(rs) : /\ Candidate(r).ent \in DOMAIN CategoryOf
                                  /\ x = <<CategoryOf[Candidate(r).ent], Candidate(r).ent, Candidate(r).val>>
          BY <2>9 DEF Context
      <4>2. Candidate(r).ent = r.ent /\ Candidate(r).val = r.val
          BY <2>7, <2>9
      <4>3. <<r.ent, r.val>> \in named
          BY <4>1, <4>2 DEF Names
      <4> QED
          BY <4>1, <4>2, <4>3
    <3>2. ASSUME NEW x \in All PROVE x \in Context(Accepted(rs))
      <4>1. PICK k \in named : x = <<CategoryOf[k[1]], k[1], k[2]>>
          OBVIOUS
      <4>2. PICK r \in Taken(rs) : k = <<r.ent, r.val>>
          BY DEF Names
      <4>3. Candidate(r).ent = k[1] /\ Candidate(r).val = k[2]
          BY <2>7, <2>9, <4>2
      <4>4. Candidate(r) \in ToSet(Accepted(rs)) /\ Candidate(r).ent \in DOMAIN CategoryOf
          BY <2>9, <4>1, <4>3
      <4> QED
          BY <4>1, <4>3, <4>4, Zenon DEF Context
    <3> QED
        BY <3>1, <3>2
  <2>10. Context(Accepted(records)) = Context(Accepted(stated))
      BY <2>4, <2>5, <2>8, <2>9, Zenon
  <2> QED
      BY <2>1, <2>10, ImpactOfContext
<1> QED
    BY <1>1, ItemInvariant, PTL

---------------------------------------------------------------------------
(* What the bundle says *)

\* What else a candidate keeps of its record.
LEMMA CandidateKeeps ==
    ASSUME NEW item, NEW r, Made(item, r), NEW c, c = Candidate(r)
    PROVE  /\ Full(c) /\ "existing" \in DOMAIN c /\ c.existing = r.existing
           /\ c.anchor = Anchor(r) /\ c.rel = r.rel
           /\ c.uuid = r.uuid /\ c.from = r.from
<1> DEFINE n == Clamped(r.conf)
           rel == IF r.rel = "" THEN "related-to" ELSE r.rel
           anchor == Anchor(r)
           m == Clamped(r.rconf)
<1>1. /\ r = [f \in DOMAIN r |-> r[f]] /\ DOMAIN Plain \subseteq DOMAIN r
      /\ {"existing", "anchor"} \subseteq DOMAIN r
    BY DEF Made, Full, RecordFields
<1>2. {"uuid", "from", "rel"} \subseteq DOMAIN r
    BY <1>1 DEF Plain
<1>3. c = [r EXCEPT !.rel = rel, !.anchor = anchor, !.conf = n, !.rconf = m]
    BY DEF Candidate
<1>4. rel = r.rel
    BY Zenon DEF Made, IsGiven
<1> HIDE DEF n, m, rel, anchor
<1>5. DOMAIN c = DOMAIN r /\ c = [f \in DOMAIN c |-> c[f]]
    BY <1>1, <1>3
<1>6. c.existing = r.existing /\ c.anchor = anchor /\ c.uuid = r.uuid /\ c.from = r.from
    BY <1>1, <1>2, <1>3
<1>7. c.rel = r.rel
    BY <1>1, <1>2, <1>3, <1>4
<1>8. Full(c) /\ "existing" \in DOMAIN c
    BY <1>1, <1>5 DEF Full
<1> QED
    BY <1>6, <1>7, <1>8 DEF anchor

\* A candidate of a record the policy accepts.
Admitted(c) ==
    \E r \in ToRecords : Made(Item, r) /\ c = Candidate(r) /\ Passes(c)

\* What is sent in export mode, when nothing is known, are accepted candidates.
LEMMA ExportedAreAccepted ==
    ASSUME NEW acc, NEW n \in Nat, DOMAIN acc \subseteq 1 .. n,
           \A d \in ToSet(acc) : Full(d) /\ "existing" \in DOMAIN d /\ d.existing = None
    PROVE  ToSet(Exportable(acc, PlanActions(acc, NothingKnown), NothingKnown)) \subseteq ToSet(acc)
<1> DEFINE plan == PlanActions(acc, NothingKnown)
           out == Exportable(acc, plan, NothingKnown)
<1> SUFFICES ASSUME NEW c \in ToSet(out) PROVE c \in ToSet(acc)
    OBVIOUS
<1>1. /\ DOMAIN plan = DOMAIN acc
      /\ \A p \in DOMAIN acc : plan[p].fingerprint = Fingerprint(acc[p])
    BY DEF PlanActions
<1>2. PICK p \in DOMAIN acc : c = CHOOSE x \in Annotated(plan[p], acc, NothingKnown) : TRUE
  <2>1. PICK p \in DOMAIN out : c = out[p]
      BY DEF ToSet
  <2>2. Mode = "export"
      BY <2>1 DEF Exportable
  <2>3. out = [q \in {q \in DOMAIN plan : IsExportable(plan[q], acc, NothingKnown)} |->
                  CHOOSE x \in Annotated(plan[q], acc, NothingKnown) : TRUE]
      BY <2>2 DEF Exportable
  <2> HIDE DEF out, plan
  <2> QED
      BY <1>1, <2>1, <2>3
<1> DEFINE a == plan[p]
           T == {q \in DOMAIN acc : Fingerprint(acc[q]) = a.fingerprint}
<1>3. p \in T
    BY <1>1
<1> HIDE DEF plan
<1>4. PICK m \in T : \A q \in T : q <= m
    BY <1>3, GreatestOf
<1>5. acc[m] \in Named(a, acc) /\ Named(a, acc) \subseteq ToSet(acc)
    BY <1>4 DEF Named, ToSet
<1>6. Annotated(a, acc, NothingKnown) = {[d EXCEPT !.existing = None] : d \in Named(a, acc)}
    BY DEF Annotated, NothingKnown
<1> HIDE DEF a
<1>7. PICK d \in Named(a, acc) : c = [d EXCEPT !.existing = None]
  <2>1. \E x : x \in Annotated(a, acc, NothingKnown)
      BY <1>5, <1>6
  <2>2. c \in Annotated(a, acc, NothingKnown)
      BY <1>2, <2>1 DEF a
  <2> QED
      BY <1>6, <2>2
<1>8. d = [f \in DOMAIN d |-> d[f]] /\ "existing" \in DOMAIN d /\ d.existing = None
    BY <1>5 DEF Full
<1>9. c = d
    BY <1>7, <1>8
<1> QED
    BY <1>5, <1>9

\* Whatever is sent passes the policy and refers to no object of OpenCTI.
LEMMA SentIsAdmitted ==
    ASSUME ItemInv, accepted = Accepted(records), NEW c \in ToSet(SentOf(accepted))
    PROVE  Admitted(c) /\ c.existing = None
<1>1. PICK n \in Nat : DOMAIN accepted \subseteq 1 .. n
  <2>1. DOMAIN accepted \subseteq DOMAIN records
      BY AcceptedAreRecords
  <2> QED
      BY <2>1, RecordsAreKnown
<1>2. ASSUME NEW d \in ToSet(accepted)
      PROVE  Admitted(d) /\ Full(d) /\ "existing" \in DOMAIN d /\ d.existing = None
  <2>1. PICK r \in ToSet(records) : d = Candidate(r) /\ IsAccepted(d)
      BY AcceptedAreRecords
  <2>2. r \in ToRecords /\ Made(Item, r)
      BY <2>1, RecordsAreKnown DEF ToRecords, ToSet
  <2>3. Full(d) /\ "existing" \in DOMAIN d /\ d.existing = r.existing
      BY <2>1, <2>2, CandidateKeeps
  <2>4. r.existing = None
      BY <2>2 DEF Made, Unmatched, NoEnd, None
  <2>5. Passes(d)
      BY <2>1, AcceptedPasses
  <2> QED
      BY <2>1, <2>2, <2>3, <2>4, <2>5 DEF Admitted
<1>3. ToSet(SentOf(accepted)) \subseteq ToSet(accepted)
    BY <1>1, <1>2, ExportedAreAccepted DEF SentOf
<1> QED
    BY <1>2, <1>3
\* The cluster of a galaxy is no infrastructure.
LEMMA NoParentIsNetwork ==
    \A words : ParentType(words) # "infrastructure"
<1> SUFFICES ASSUME NEW words PROVE ParentType(words) # "infrastructure"
    OBVIOUS
<1> DEFINE fits == {i \in DOMAIN GalaxyTypes : GalaxyTypes[i][1] \intersect words # {}}
<1>1. DOMAIN GalaxyTypes = 1 .. 8
    BY DEF GalaxyTypes
<1>2. \A i \in 1 .. 8 : GalaxyTypes[i][2] # "infrastructure"
  <2>1. /\ GalaxyTypes[1][2] = "attack-pattern" /\ GalaxyTypes[2][2] = "campaign"
        /\ GalaxyTypes[3][2] = "intrusion-set" /\ GalaxyTypes[4][2] = "threat-actor"
        /\ GalaxyTypes[5][2] = "malware" /\ GalaxyTypes[6][2] = "tool"
        /\ GalaxyTypes[7][2] = "identity" /\ GalaxyTypes[8][2] = "location"
      BY DEF GalaxyTypes
  <2>2. \A i \in 1 .. 8 : i \in {1, 2, 3, 4, 5, 6, 7, 8}
      OBVIOUS
  <2> QED
      BY <2>1, <2>2, Zenon
<1>3. CASE fits = {}
    BY <1>3 DEF ParentType
<1>4. CASE fits # {}
  <2>2. \E i \in fits : FirstOf(GalaxyTypes, fits) = GalaxyTypes[i]
    <3>1. fits \subseteq Nat
        BY <1>1
    <3> HIDE DEF fits
    <3> QED
        BY <1>4, <3>1, FirstIsOne
  <2>3. ParentType(words) = FirstOf(GalaxyTypes, fits)[2]
      BY <1>4 DEF ParentType
  <2> QED
      BY <1>1, <1>2, <2>2, <2>3
<1> QED
    BY <1>3, <1>4

\* An object with the prefix of infrastructure is one.
LEMMA NetworkIsNetwork ==
    ASSUME NEW c, c.existing = None, Resolves(c), RefOf(c)[1] = "infrastructure"
    PROVE  EntityKey(c) = <<"infrastructure", RefOf(c)[2][1]>>
<1>1. ExistingRef(c) = None
    BY DEF ExistingRef
<1>2. RefOf(c) = ObjectRef(c) /\ Builds(c)
    BY <1>1 DEF RefOf, Resolves
<1>3. ObjectRef(c)[1] = ObjectPrefix(c) /\ ObjectRef(c)[2][1] = c.val
    BY DEF ObjectRef
<1>4. ObjectPrefix(c) = "infrastructure"
    BY <1>2, <1>3
<1>5. ObjectType(c) # "observable"
  <2> SUFFICES ASSUME ObjectType(c) = "observable" PROVE FALSE
      OBVIOUS
  <2>1. c.obs \in Observables /\ c.obs = "infrastructure"
      BY <1>2, <1>4 DEF Builds, ObservableBuilds, ObjectPrefix
  <2> QED
      BY <2>1 DEF Observables
<1>6. ObjectType(c) = "infrastructure"
    BY <1>4, <1>5 DEF ObjectPrefix
<1>7. c.type = "infrastructure"
    BY <1>6 DEF ObjectType, RuleType
<1> QED
    BY <1>2, <1>3, <1>7 DEF EntityKey

\* The object of a key or of an identifier is that of a candidate that has it.
LEMMA ObjectsAreOfCandidates ==
    ASSUME NEW cands, DOMAIN cands \subseteq Nat
    PROVE  /\ \A key : ObjectOf(cands, key) # None =>
                 \E c \in ToSet(cands) : Resolves(c) /\ EntityKey(c) = key
                                         /\ ObjectOf(cands, key) = RefOf(c)
           /\ \A uuid : AliasOf(cands, uuid) # None =>
                 \E c \in ToSet(cands) : Resolves(c) /\ uuid \in c.uuid
                                         /\ AliasOf(cands, uuid) = RefOf(c)
<1>1. \A i \in Registered(cands) : Resolves(cands[i]) /\ cands[i] \in ToSet(cands)
      /\ i \in DOMAIN cands
    BY DEF Registered, ToSet
<1>2. ASSUME NEW key, ObjectOf(cands, key) # None
      PROVE  \E c \in ToSet(cands) : Resolves(c) /\ EntityKey(c) = key
                                     /\ ObjectOf(cands, key) = RefOf(c)
  <2> DEFINE found == {i \in Registered(cands) : EntityKey(cands[i]) = key}
  <2>1. found # {} /\ ObjectOf(cands, key) = RefOf(cands[CHOOSE i \in found : TRUE])
      BY <1>2 DEF ObjectOf
  <2>2. PICK i \in found : i = CHOOSE p \in found : TRUE
      BY <2>1
  <2> QED
      BY <1>1, <2>1, <2>2
<1>3. ASSUME NEW uuid, AliasOf(cands, uuid) # None
      PROVE  \E c \in ToSet(cands) : Resolves(c) /\ uuid \in c.uuid
                                     /\ AliasOf(cands, uuid) = RefOf(c)
  <2> DEFINE found == {i \in Registered(cands) : uuid \in cands[i].uuid}
             first == CHOOSE i \in found : \A j \in found : i <= j
  <2>1. found # {} /\ AliasOf(cands, uuid) = RefOf(cands[first])
      BY <1>3 DEF AliasOf
  <2>2. first \in found
    <3>1. found \subseteq Nat
        BY <1>1
    <3> HIDE DEF found
    <3> QED
        BY <2>1, <3>1, LeastOf
  <2> QED
      BY <1>1, <2>1, <2>2
<1> QED
    BY <1>2, <1>3
\* Where an infrastructure targets something in a bundle, a candidate is
\* anchored to it, or refers from one of its identifiers.
LEMMA TargetingEdges ==
    ASSUME NEW cands, DOMAIN cands \subseteq Nat,
           \A c \in ToSet(cands) : c.existing = None,
           NEW c \in ToSet(cands), NEW e \in CandidateEdges(c, cands, {}),
           e.src[1] = "infrastructure", e.rel = "targets"
    PROVE  /\ c.rel = "targets"
           /\ \/ c.anchor = <<"infrastructure", e.src[2][1]>>
              \/ c.type = "relationship" /\ \E x \in ToSet(cands) :
                    c.from \in x.uuid /\ EntityKey(x) = <<"infrastructure", e.src[2][1]>>
<1>1. \A s, r, t : Edge(s, r, t).src = s /\ Edge(s, r, t).rel = r
    BY DEF Edge
<1>2. CASE e \in ReferenceEdges(c, cands)
  <2> DEFINE s == AliasOf(cands, c.from)
             t == AliasOf(cands, c.to)
  <2>1. c.type = "relationship" /\ s # None /\ e = Edge(s, c.rel, t)
    <3>1. ReferenceEdges(c, cands) = IF c.type = "relationship" /\ None \notin {s, t} /\ s # t
                                     THEN {Edge(s, c.rel, t)} ELSE {}
        BY DEF ReferenceEdges
    <3> HIDE DEF s, t
    <3> QED
        BY <1>2, <3>1
  <2>2. PICK x \in ToSet(cands) : Resolves(x) /\ c.from \in x.uuid /\ s = RefOf(x)
      BY <2>1, ObjectsAreOfCandidates
  <2> HIDE DEF s, t
  <2>3. e.src = RefOf(x) /\ c.rel = "targets"
      BY <1>1, <2>1, <2>2
  <2>4. EntityKey(x) = <<"infrastructure", e.src[2][1]>>
      BY <2>2, <2>3, NetworkIsNetwork
  <2> QED
      BY <2>1, <2>2, <2>3, <2>4
<1>3. CASE e \in SightingEdges(c, cands, {})
  <2>1. e.src = Author
      BY <1>1, <1>3 DEF SightingEdges
  <2>2. \A d, x, y, z : d = <<x, y, z>> => d[1] = x
      OBVIOUS
  <2>3. e.src = <<"identity", <<"author", "">>, "narrowcti">>
      BY <2>1, Zenon DEF Author
  <2>4. e.src[1] = "identity"
      BY <2>2, <2>3, Zenon
  <2> QED
      BY <2>4
<1>4. CASE e \in EntityEdges(c, cands)
  <2> DEFINE t == ObjectOf(cands, EntityKey(c))
             s == IF HasAnchor(c) THEN ObjectOf(cands, c.anchor) ELSE None
  <2>1. \/ s # None /\ e = SemanticEdge(c, s, t)
        \/ e = ContextEdge(c, t)
    <3>1. EntityEdges(c, cands) =
             IF t = None THEN {}
             ELSE IF s \notin {None, t} /\ c.rel \in SemanticTypes
                  THEN {SemanticEdge(c, s, t)} ELSE {ContextEdge(c, t)}
        BY DEF EntityEdges
    <3> HIDE DEF s, t
    <3> QED
        BY <1>4, <3>1
  <2>2. ContextEdge(c, t).rel = "related-to"
      BY <1>1 DEF ContextEdge
  <2>3. s # None /\ e = SemanticEdge(c, s, t)
      BY <2>1, <2>2
  <2>4. s = ObjectOf(cands, c.anchor)
      BY <2>3
  <2>5. e.rel = c.rel
      BY <1>1, <2>3 DEF SemanticEdge
  <2>6. ~PointsAtAnchor(c)
      BY <2>5 DEF PointsAtAnchor
  <2>7. e.src = s
      BY <1>1, <2>3, <2>6 DEF SemanticEdge
  <2>8. PICK x \in ToSet(cands) : Resolves(x) /\ EntityKey(x) = c.anchor /\ s = RefOf(x)
      BY <2>3, <2>4, ObjectsAreOfCandidates
  <2> HIDE DEF s, t
  <2>9. EntityKey(x) = <<"infrastructure", e.src[2][1]>>
      BY <2>7, <2>8, NetworkIsNetwork
  <2> QED
      BY <2>5, <2>8, <2>9
<1> QED
    BY <1>2, <1>3, <1>4 DEF CandidateEdges

\* While the switch is off, a bundle says that an infrastructure targets a
\* victim only where a source says so: what follows from an event stays marked
\* for validation, and is not accepted (core/graph_evidence.py
\* infrastructure_victimology_relationship_records, core/graph_candidates.py).
THEOREM VictimsAreWaiting ==
    Spec => []VictimsWait
<1>1. ItemInv => VictimsWait
  <2> DEFINE cands == SentOf(accepted)
  <2> SUFFICES ASSUME ItemInv, ~AllowVictimology, NEW e \in bundle.edges,
                      e.src[1] = "infrastructure", e.rel = "targets"
               PROVE  \E r \in ToRecords :
                        /\ r.rel = e.rel
                        /\ \/ ~IsInferred(r) /\ r.anchor = <<"infrastructure", e.src[2][1]>>
                           \/ /\ r.type = "relationship"
                              /\ \E s \in ToRecords :
                                    /\ r.from \in s.uuid
                                    /\ EntityKey(s) = <<"infrastructure", e.src[2][1]>>
      BY DEF VictimsWait
  <2>1. stage = "built" /\ bundle = Bundle(cands, {})
    <3>1. NoBundle.edges = {}
        BY DEF NoBundle
    <3>2. bundle # NoBundle
        BY <3>1
    <3> QED
        BY <3>2 DEF ItemInv
  <2>2. accepted = Accepted(records)
      BY <2>1 DEF ItemInv
  <2>3. \A c \in ToSet(cands) : Admitted(c) /\ c.existing = None
      BY <2>2, SentIsAdmitted
  <2>4. DOMAIN cands \subseteq Nat
    <3>1. DOMAIN accepted \subseteq DOMAIN records /\ DOMAIN records \subseteq Nat
        BY <2>2, AcceptedAreRecords, RecordsAreKnown
    <3>2. DOMAIN PlanActions(accepted, NothingKnown) = DOMAIN accepted
        BY DEF PlanActions
    <3>3. DOMAIN cands \subseteq DOMAIN accepted
        BY <3>2 DEF SentOf, Exportable
    <3> QED
        BY <3>1, <3>3
  <2>5. PICK c \in ToSet(cands) : e \in CandidateEdges(c, cands, {})
      BY <2>1 DEF Bundle
  <2> HIDE DEF cands
  <2>6. /\ c.rel = "targets"
        /\ \/ c.anchor = <<"infrastructure", e.src[2][1]>>
           \/ c.type = "relationship" /\ \E x \in ToSet(cands) :
                 c.from \in x.uuid /\ EntityKey(x) = <<"infrastructure", e.src[2][1]>>
      BY <2>3, <2>4, <2>5, TargetingEdges
  <2>7. PICK r \in ToRecords : Made(Item, r) /\ c = Candidate(r) /\ Passes(c)
      BY <2>3 DEF Admitted
  <2>8. /\ c.type = r.type /\ c.from = r.from /\ c.anchor = Anchor(r)
        /\ c.validate = r.validate /\ c.rel = r.rel
    <3>1. c.type = r.type /\ c.validate = r.validate
        BY <2>7, CandidateFields
    <3>2. c.from = r.from /\ c.anchor = Anchor(r) /\ c.rel = r.rel
        BY <2>7, CandidateKeeps
    <3> QED
        BY <3>1, <3>2
  <2>9. CASE c.type = "relationship" /\ \E x \in ToSet(cands) :
                c.from \in x.uuid /\ EntityKey(x) = <<"infrastructure", e.src[2][1]>>
    <3>1. PICK x \in ToSet(cands) :
              c.from \in x.uuid /\ EntityKey(x) = <<"infrastructure", e.src[2][1]>>
        BY <2>9
    <3>2. PICK s \in ToRecords : Made(Item, s) /\ x = Candidate(s)
        BY <2>3 DEF Admitted
    <3>3. x.type = s.type /\ x.val = s.val /\ x.uuid = s.uuid
        BY <3>2, CandidateFields, CandidateKeeps
    <3>4. r.from \in s.uuid /\ EntityKey(s) = <<"infrastructure", e.src[2][1]>>
        BY <2>8, <3>1, <3>3 DEF EntityKey
    <3> QED
        BY <2>6, <2>8, <2>9, <3>4
  <2>10. CASE c.anchor = <<"infrastructure", e.src[2][1]>>
    <3>1. r.anchor = <<r.given[1], r.anchor[2]>>
        BY <2>7 DEF Made, Unmatched
    <3>2. r.anchor[1] = "infrastructure" /\ r.anchor[2] = e.src[2][1]
      <4>1. /\ Anchor(r)[1] = "infrastructure" /\ Anchor(r)[2] = e.src[2][1]
          BY <2>8, <2>10
      <4>2. Anchor(r)[1] = (IF r.anchor[1] = "" THEN ParentType(r.parent) ELSE r.anchor[1])
            /\ Anchor(r)[2] = r.anchor[2]
          BY DEF Anchor
      <4> QED
          BY <4>1, <4>2, NoParentIsNetwork
    <3>3. r.anchor = <<"infrastructure", e.src[2][1]>>
        BY <3>1, <3>2
    <3>4. r.given[1] = "infrastructure"
        BY <3>1, <3>2
    <3>5. ~IsInferred(r)
      <4> SUFFICES ASSUME IsInferred(r) PROVE FALSE
          OBVIOUS
      <4>1. Guarded(r.rel, r.given[1], r.validate)
          BY RecordsAreKnown DEF ToRecords, ToSet, Follows
      <4>2. c.validate = TRUE
          BY <2>6, <2>8, <3>4, <4>1 DEF Guarded
      <4> QED
          BY <2>7, <4>2 DEF Passes
    <3> QED
        BY <2>6, <2>8, <3>3, <3>5
  <2> QED
      BY <2>6, <2>9, <2>10
<1> QED
    BY <1>1, ItemInvariant, PTL

---------------------------------------------------------------------------
(* The only actor of an item *)

\* There is a record of each actor an event names.
ActorsAreNamed(e, rs) ==
    \A k \in ActorsNamed(e) : \E r \in ToSet(rs) : IsMisp(r) /\ r.ent = k[1] /\ r.val = k[2]

LEMMA EventNames ==
    ASSUME NEW e, NEW rs, \A c \in ToSet(NamedClusters(e)) : IsGiven(c.val),
           \A c \in ToSet(NamedClusters(e)) :
               IsGiven(ClassOf(c).ent) /\ IsGiven(ValueOf(c)) => \E r \in ToSet(rs) : NamedBy(c, r)
    PROVE  ActorsAreNamed(e, rs)
<1> SUFFICES ASSUME NEW c \in ToSet(NamedClusters(e)), ClassOf(c).ent \in Adversaries
             PROVE  \E r \in ToSet(rs) :
                       /\ IsMisp(r) /\ r.ent = ClassOf(c).ent
                       /\ r.val = CanonicalValue(ClassOf(c).ent, ValueOf(c))
    BY DEF ActorsAreNamed, ActorsNamed
<1>1. ValueOf(c) = c.val /\ IsGiven(ClassOf(c).ent)
    BY DEF ValueOf, Adversaries, IsGiven
<1>2. PICK r \in ToSet(rs) : NamedBy(c, r)
    BY <1>1
<1> QED
    BY <1>2 DEF NamedBy, IsMisp

LEMMA EvidenceNames ==
    ItemInv /\ BuildEvidence /\ IsEvent => ActorsAreNamed(document.body, records')
<1> SUFFICES ASSUME ItemInv, BuildEvidence, IsEvent
             PROVE  ActorsAreNamed(document.body, records')
    OBVIOUS
<1> DEFINE e == document.body
           told == [source |-> "misp", actors |-> ActorsNamed(e),
                    anchors |-> Sole(AnchorsNamed(e))]
           tagged == TagClusters(e.tags)
<1>1. records' = EventEvidence(Item, meta) /\ meta = Metadata(e) /\ IsMispEvent(e)
    BY FeedsAssumption DEF BuildEvidence, ItemInv, DocumentIsFound, IsEvent
<1>2. IsMeta(meta) /\ meta.galaxies = Galaxies(e) /\ meta.tags = e.tags
    BY <1>1, MetadataIsListed DEF Metadata
<1>3. /\ told.source = "misp" /\ MayGive(told, ContextAnchor(meta))
      /\ MayNameAll(told, meta.galaxies) /\ MayNameAll(told, TagClusters(meta.tags))
    BY <1>1, EventTells
<1> HIDE DEF told
<1>4. NamedIn(Galaxies(e), records') /\ NamedIn(tagged, records')
    BY <1>1, <1>2, <1>3, EventIsStated
<1>5. /\ IsList(Galaxies(e)) /\ \A c \in ToSet(Galaxies(e)) : IsGiven(c.val)
      /\ IsList(tagged) /\ \A c \in ToSet(tagged) : IsGiven(c.val)
    BY <1>1, <1>2, GalaxiesAreListed, TagClustersAreListed DEF AreClusters, IsMeta
<1>6. ToSet(NamedClusters(e)) = ToSet(Galaxies(e)) \union ToSet(tagged)
    BY <1>5, JoinedList DEF NamedClusters
<1> HIDE DEF e, tagged
<1>7. ActorsAreNamed(e, records')
    BY <1>4, <1>5, <1>6, EventNames DEF NamedIn
<1> QED
    BY <1>7 DEF e

\* What is stated is backed by what the item says, an actor is related only if
\* the item names no other, and there is a record of each that it names.
NamedInv ==
    /\ \A r \in ToRecords : ~IsInferred(r) => Backed(ToldBy(document), r)
    /\ \A r \in ToRecords :
          r.inference \in AdversaryLinks => Cardinality(ActorsNamed(document.body)) = 1
    /\ stage \notin {"found", "extracted"} /\ IsEvent => ActorsAreNamed(document.body, records)

\* One actor in the records is the one the item names, and it names no other.
LEMMA OneIsNamed ==
    ASSUME ItemInv, NamedInv, stage \notin {"found", "extracted"}, Len(ActorsOf(records)) = 1
    PROVE  Cardinality(ActorsNamed(document.body)) = 1
<1> DEFINE named == ActorsNamed(document.body)
<1>1. PICK n \in Nat : Grown(Item, records, n)
    BY DEF ItemInv
<1>2. IsList(records) /\ n \in 0 .. Len(records) /\ DOMAIN records = 1 .. Len(records)
    BY <1>1, ListLength DEF Grown
<1>3. PICK x \in ToSet(ActorsOf(records)) :
          \A r \in ToRecords : IsMisp(r) /\ r.ent \in Adversaries => SameEntity(x, r)
    BY <1>2, OnlyActor DEF ToRecords
<1>4. (\E i \in 1 .. n : x = records[i]) /\ IsMisp(x) /\ x.ent \in Adversaries
    BY <1>1, UniqueAreEntities DEF ActorsOf, Entities
<1>5. Stated(Item, x) /\ x \in ToRecords
  <2>1. PICK i \in 1 .. n : x = records[i]
      BY <1>4
  <2>2. Stated(Item, records[i])
      BY <1>1 DEF Grown
  <2>3. i \in DOMAIN records
      BY <1>2, ListLength
  <2> QED
      BY <2>1, <2>2, <2>3, <1>2, ListLength DEF ToRecords
<1>6. ~IsInferred(x)
    BY <1>5 DEF Stated, IsInferred
<1>7. <<x.ent, x.val>> \in ToldBy(document).actors
    BY <1>4, <1>5, <1>6 DEF NamedInv, Backed
<1>8. IsEvent /\ ToldBy(document).actors = named
  <2>1. ~IsEvent => ToldBy(document).actors = {}
      BY DEF ToldBy, IsEvent
  <2>2. IsEvent => ToldBy(document).actors = named
      BY DEF ToldBy, IsEvent
  <2> QED
      BY <1>7, <2>1, <2>2
<1>9. ASSUME NEW k \in named PROVE k = <<x.ent, x.val>>
  <2>1. \E a, b : k = <<a, b>> /\ a \in Adversaries
      BY DEF ActorsNamed
  <2>2. k = <<k[1], k[2]>> /\ k[1] \in Adversaries
      BY <2>1
  <2>3. PICK r \in ToRecords : IsMisp(r) /\ r.ent = k[1] /\ r.val = k[2]
      BY <1>8 DEF NamedInv, ActorsAreNamed, ToRecords
  <2>4. SameEntity(x, r)
      BY <1>3, <2>2, <2>3
  <2> QED
      BY <2>2, <2>3, <2>4 DEF SameEntity
<1> HIDE DEF named
<1>10. named = {<<x.ent, x.val>>}
    BY <1>7, <1>8, <1>9
<1> QED
    BY <1>10, FS_Singleton DEF named

LEMMA ContextIsNamed ==
    ASSUME ItemInv, NamedInv, stage \notin {"found", "extracted"}, document' = document,
           NEW context, IsList(context), records' = records \o context,
           \A r \in ToSet(context) :
               /\ r.src = "misp-context"
               /\ r.inference \in AdversaryLinks => Len(ActorsOf(records)) = 1
    PROVE  NamedInv'
<1>1. IsList(records)
    BY DEF ItemInv, Grown
<1>2. ToRecords' = ToRecords \union ToSet(context)
    BY <1>1, JoinedList DEF ToRecords
<1>3. \A r \in ToSet(context) : IsInferred(r)
    BY DEF IsInferred
<1>4. \A r \in ToSet(context) :
          r.inference \in AdversaryLinks => Cardinality(ActorsNamed(document.body)) = 1
    BY OneIsNamed
<1>5. ToldBy(document)' = ToldBy(document) /\ (IsEvent' <=> IsEvent)
      /\ ActorsNamed(document.body)' = ActorsNamed(document.body)
    BY DEF ToldBy, IsEvent
<1>6. IsEvent => ActorsAreNamed(document.body, records)'
  <2>1. ToSet(records) \subseteq ToSet(records')
      BY <1>1, JoinedList
  <2> QED
      BY <2>1 DEF NamedInv, ActorsAreNamed
<1>7. \A r \in ToRecords' : ~IsInferred(r) => Backed(ToldBy(document), r)
    BY <1>2, <1>3 DEF NamedInv
<1>8. \A r \in ToRecords' :
          r.inference \in AdversaryLinks => Cardinality(ActorsNamed(document.body)) = 1
    BY <1>2, <1>4 DEF NamedInv
<1> QED
    BY <1>5, <1>6, <1>7, <1>8 DEF NamedInv, IsInferred

LEMMA NamedInvInit ==
    Init => NamedInv
<1> SUFFICES ASSUME Init PROVE NamedInv
    OBVIOUS
<1>1. ToRecords = {} /\ stage = "found"
    BY ShortLists DEF Init, ToRecords
<1> QED
    BY <1>1 DEF NamedInv

LEMMA NamedInvNext ==
    ItemInv /\ NamedInv /\ [Next]_vars => NamedInv'
<1> SUFFICES ASSUME ItemInv, NamedInv, [Next]_vars PROVE NamedInv'
    OBVIOUS
<1>1. document' = document
    BY DEF Next, vars, Extract, BuildEvidence, RelateCampaigns, RelateInfrastructure,
           ApplyPolicy, Decide, Preview
<1>2. ToldBy(document)' = ToldBy(document) /\ (IsEvent' <=> IsEvent)
      /\ ActorsNamed(document.body)' = ActorsNamed(document.body)
    BY <1>1 DEF ToldBy, IsEvent
<1>3. ASSUME records' = records, stage \in {"found", "extracted"} => stage' \in {"found", "extracted"}
      PROVE  NamedInv'
  <2>1. ToRecords' = ToRecords
      BY <1>3 DEF ToRecords
  <2>2. ActorsAreNamed(document.body, records)' = ActorsAreNamed(document.body, records)
      BY <1>1, <1>3
  <2> QED
      BY <1>2, <1>3, <2>1, <2>2 DEF NamedInv, IsInferred
<1>4. CASE UNCHANGED vars
    BY <1>3, <1>4 DEF vars
<1>5. CASE Extract
    BY <1>3, <1>5 DEF Extract
<1>6. CASE BuildEvidence
  <2>1. StatedList(Item, ToldBy(document), records')
      BY <1>6, EvidenceIsStated
  <2>2. \A r \in ToRecords' : r.inference \notin AdversaryLinks /\ Backed(ToldBy(document), r)
      BY <2>1 DEF ToRecords, StatedList, Backed
  <2>3. IsEvent => ActorsAreNamed(document.body, records)'
      BY <1>1, <1>6, EvidenceNames
  <2> QED
      BY <1>2, <2>2, <2>3 DEF NamedInv, IsInferred
<1>7. CASE RelateCampaigns
  <2> DEFINE context == CampaignContext(Item, records)
  <2>1. stage = "evidence" /\ records' = records \o context
      BY <1>7 DEF RelateCampaigns, WithCampaigns
  <2>2. PICK n \in Nat : Grown(Item, records, n)
      BY DEF ItemInv
  <2>3. PICK links : /\ LinkList(records, n, links) /\ Owned(records, links)
                     /\ context \in {<<>>, Related(Item, records, links)}
      BY <2>2, CampaignLinks
  <2> HIDE DEF context
  <2>4. /\ IsList(context)
        /\ \A r \in ToSet(context) :
              /\ r.src = "misp-context"
              /\ r.inference \in AdversaryLinks => Len(ActorsOf(records)) = 1
      BY <2>2, <2>3, RelatedIsOwned
  <2> QED
      BY <1>1, <2>1, <2>4, ContextIsNamed
<1>8. CASE RelateInfrastructure
  <2> DEFINE context == InfrastructureContext(Item, records)
  <2>1. stage = "campaigns" /\ records' = records \o context
      BY <1>8 DEF RelateInfrastructure, WithInfrastructure
  <2>2. PICK n \in Nat : Grown(Item, records, n)
      BY DEF ItemInv
  <2>3. PICK links : /\ LinkList(records, n, links) /\ Owned(records, links)
                     /\ context \in {<<>>, Related(Item, records, links)}
      BY <2>2, NetworkLinks
  <2> HIDE DEF context
  <2>4. /\ IsList(context)
        /\ \A r \in ToSet(context) :
              /\ r.src = "misp-context"
              /\ r.inference \in AdversaryLinks => Len(ActorsOf(records)) = 1
      BY <2>2, <2>3, RelatedIsOwned
  <2> QED
      BY <1>1, <2>1, <2>4, ContextIsNamed
<1>9. CASE ApplyPolicy
    BY <1>3, <1>9 DEF ApplyPolicy
<1>10. CASE Decide
    BY <1>3, <1>10 DEF Decide
<1>11. CASE Preview
    BY <1>3, <1>11 DEF Preview
<1> QED
    BY <1>4, <1>5, <1>6, <1>7, <1>8, <1>9, <1>10, <1>11 DEF Next

LEMMA NamedInvariant ==
    Spec => []NamedInv
BY ItemInvariant, NamedInvInit, NamedInvNext, PTL DEF Spec

\* Multiple actors suppress the inferred edge: an edge from or to an actor is
\* inferred only from an event that names no other, whichever of its clusters
\* and tags name him, and evidence is given to a campaign or an actor only if
\* the item names no other, or if it is of that one's own cluster
\* (core/graph_evidence.py single_misp_context_anchor,
\* misp_campaign_context_relationship_evidence and
\* misp_infrastructure_context_relationship_evidence; docs/architecture-v1.0.md).
THEOREM OnlyAdversary ==
    Spec => []OneAdversary
<1>1. NamedInv => OneAdversary
  <2> SUFFICES ASSUME NamedInv, NEW r \in ToRecords
               PROVE  /\ r.inference \in AdversaryLinks
                            => Cardinality(ActorsNamed(document.body)) = 1
                      /\ ~IsInferred(r) /\ r.given[1] \in AnchorTypes
                            => IF IsEvent
                               THEN \/ r.parentVal = r.given[2]
                                    \/ AnchorsNamed(document.body) = {r.given}
                               ELSE ToSet(TextsOf(document.body, "adversary")) = {r.given[2]}
      BY DEF OneAdversary, AdversaryLinks
  <2>1. r.inference \in AdversaryLinks => Cardinality(ActorsNamed(document.body)) = 1
      BY DEF NamedInv
  <2>2. ASSUME ~IsInferred(r), r.given[1] \in AnchorTypes
        PROVE  IF IsEvent
               THEN r.parentVal = r.given[2] \/ AnchorsNamed(document.body) = {r.given}
               ELSE ToSet(TextsOf(document.body, "adversary")) = {r.given[2]}
    <3> DEFINE told == ToldBy(document)
    <3>1. r.given \in told.anchors \/ (told.source = "misp" /\ r.parentVal = r.given[2])
        BY <2>2 DEF NamedInv, Backed, Gives
    <3>2. CASE IsEvent
      <4>1. told.anchors = Sole(AnchorsNamed(document.body))
          BY <3>2 DEF ToldBy, IsEvent
      <4> HIDE DEF told
      <4> QED
          BY <3>1, <3>2, <4>1 DEF Sole
    <3>3. CASE ~IsEvent
      <4> DEFINE texts == ToSet(TextsOf(document.body, "adversary"))
      <4>1. told.source = "otx" /\ told.anchors = {<<"intrusion-set", x>> : x \in Sole(texts)}
          BY <3>3 DEF ToldBy, IsEvent
      <4> HIDE DEF told, texts
      <4>2. PICK x \in Sole(texts) : r.given = <<"intrusion-set", x>>
          BY <3>1, <4>1
      <4>3. r.given[2] = x /\ texts = {x}
          BY <4>2 DEF Sole
      <4> QED
          BY <3>3, <4>3 DEF texts
    <3> QED
        BY <3>2, <3>3
  <2> QED
      BY <2>1, <2>2
<1> QED
    BY <1>1, NamedInvariant, PTL
=============================================================================
