------------------------- MODULE ContextualScoring -------------------------
(***************************************************************************)
(* How an item is scored and what its score decides: core/scoring.py,      *)
(* core/contextual_scoring.py, core/policy.py and core/tlp.py.             *)
(*                                                                         *)
(* What scoring.py looks at is a record with                               *)
(*   title, tag   "exact" if the query is in it, "term" if a word of it    *)
(*                is, else ""                                              *)
(*   iocs         how many indicators                                      *)
(*   age          in days, or NoAge                                        *)
(***************************************************************************)
EXTENDS Integers, FiniteSets, SequencesExt

CONSTANTS
    SourceConfidence,
    ScoringMode, MaxImpact, Impacts,    \* contextual scoring: category -> points
    QuarantineThreshold, EnableQuarantine, MinScore,
    MaxDaysOld, MinScoreOld, HardFilter,
    AllowedTlp                          \* {} admits every marking

NoAge == -1

Categories ==
    {"threat", "toolbox", "ttp", "sector", "location", "vulnerability", "author", "graph_state"}

ASSUME ScoringAssumption ==
    /\ ScoringMode \in {"off", "shadow", "enforce"}
    /\ SourceConfidence \in 0 .. 100 /\ MaxImpact \in 0 .. 100
    /\ Impacts \in [Categories -> 0 .. 100]
    /\ {QuarantineThreshold, MinScore, MaxDaysOld, MinScoreOld, HardFilter} \subseteq Int
    /\ EnableQuarantine \in BOOLEAN

ClampScore(s) == IF s < 0 THEN 0 ELSE IF s > 100 THEN 100 ELSE s

---------------------------------------------------------------------------
(* The base score *)

\* A fifth of the distance to neutral, rounded.
SourcePoints == (SourceConfidence - 48) \div 5

Matched(match, exact, term) == CASE match = "exact" -> exact [] match = "term" -> term [] OTHER -> 0

VolumePoints(iocs) ==
    CASE iocs \in 10 .. 500 -> 20
      [] iocs \in 501 .. 2000 -> 10
      [] iocs > 2000 -> -10
      [] OTHER -> 0

AgePoints(age) ==
    CASE age = NoAge -> 0
      [] age \in 0 .. 29 -> 20
      [] age \in 30 .. 89 -> 10
      [] age > 365 -> -10
      [] OTHER -> 0

BaseScore(c) ==
    ClampScore(40 + SourcePoints + Matched(c.title, 15, 10) + Matched(c.tag, 10, 5)
               + VolumePoints(c.iocs) + AgePoints(c.age))

---------------------------------------------------------------------------
(* What the accepted context adds *)

CategoryOf ==
    LET All(ents, category) == [e \in ents |-> category] IN
    All({"threat_actor", "intrusion_set"}, "threat") @@
    All({"malware", "tool", "detection_rule"}, "toolbox") @@
    All({"attack_pattern", "attack_tactic", "attack_platform", "attack_data_source",
         "detection_guidance"}, "ttp") @@
    All({"target_sector"}, "sector") @@
    All({"target_country", "target_region"}, "location") @@
    All({"vulnerability"}, "vulnerability") @@
    All({"source_identity", "collector"}, "author") @@
    All({"observable", "sighting", "object_reference"}, "graph_state")

\* Mutant: once for each relationship it is in.
ContextByRelationship(cands) ==
    {<<CategoryOf[c.ent], c.ent, c.val, c.rel, c.anchor>> :
        c \in {c \in ToSet(cands) : c.ent \in DOMAIN CategoryOf}}

\* Each entity counts once, however many candidates name it.
Context(cands) ==
    {<<CategoryOf[c.ent], c.ent, c.val>> :
        c \in {c \in ToSet(cands) : c.ent \in DOMAIN CategoryOf}}

\* The points of a category for each entity in it, up to a maximum.
Impact(cands) ==
    LET Points(category) ==
            Impacts[category] * Cardinality({k \in Context(cands) : k[1] = category})
        raw == Points("threat") + Points("toolbox") + Points("ttp") + Points("sector")
               + Points("location") + Points("vulnerability") + Points("author")
               + Points("graph_state")
    IN IF raw > MaxImpact THEN MaxImpact ELSE raw

\* Mutant: the context replaces the score instead of lifting it.
ContextAlone(base, impact) == impact

\* The impact is a percentage of what is missing to 100; halves are rounded to
\* the even score.
ContextualScore(base, impact) ==
    LET hundredths == 100 * base + (100 - base) * impact
        score == hundredths \div 100
        rest == hundredths % 100
    IN ClampScore(IF rest > 50 \/ (rest = 50 /\ score % 2 = 1) THEN score + 1 ELSE score)

\* Only in mode "enforce" does the context decide.
DecisionScore(base, cands) ==
    IF ScoringMode = "enforce" THEN ContextualScore(base, Impact(cands)) ELSE base

---------------------------------------------------------------------------
(* The decision *)

IsTooOld(age) == HardFilter > 0 /\ age # NoAge /\ age > HardFilter
IsOld(age) == age # NoAge /\ age > MaxDaysOld

\* should_ingest
ShouldIngest(age, score) ==
    CASE IsTooOld(age) -> "drop"
      [] ~IsTooOld(age) /\ score < QuarantineThreshold ->
            IF EnableQuarantine THEN "quarantine" ELSE "drop"
      [] ~IsTooOld(age) /\ score >= QuarantineThreshold /\ score < MinScore -> "drop"
      [] ~IsTooOld(age) /\ score >= QuarantineThreshold /\ score >= MinScore ->
            IF IsOld(age) /\ score < MinScoreOld THEN "drop" ELSE "ingest"

\* "clear" and "white" are the same; one admitted marking is enough.
TlpIsAllowed(values) ==
    LET Same(v) == IF v \in {"clear", "white"} THEN {"clear", "white"} ELSE {v}
    IN \/ AllowedTlp = {} \/ values = {}
       \/ values \intersect UNION {Same(v) : v \in AllowedTlp} # {}
=============================================================================
