---------------------------- MODULE GraphLookup ----------------------------
(***************************************************************************)
(* core/opencti_graph_lookup.py: what OpenCTI knows of the candidates of a *)
(* plan.  One query after the other is asked, each may fail, and OpenCTI   *)
(* may change in between.  GraphExport takes the whole of it in one step.  *)
(*                                                                         *)
(* An action of the plan has the fields key, rel (its keys) and cand; of a *)
(* candidate the lookup reads                                              *)
(*   type, ent       STIX type, entity type                                *)
(*   val, name       value and name                                        *)
(*   names           ordered_search_values of its names, each once         *)
(*   aliased         some of them are given as aliases                     *)
(*   id, std         standard_id of its own; of it or its attributes, of a *)
(*                   prefix of the type; "" for none                       *)
(*   code            what is read from it: the ATT&CK id, the CVE, the     *)
(*                   value of an AS, what an observable observes; else ""  *)
(*   relType, anchor relationship_type and the other end, <<type, value>>  *)
(* An object of OpenCTI has id, coll (the collection of the query API),    *)
(* std, name, terms (name and aliases, normalised), words (what the search *)
(* finds it by) and mitre.  Names are normalised already.                  *)
(***************************************************************************)
EXTENDS Lists, FiniteSets, FiniteSetsExt

CONSTANTS
    Plans,          \* the plans that may be looked up
    ObjectPool,     \* what OpenCTI may hold
    EdgePool,       \* relationships it may hold: <<id, type, id>>
    Curated,        \* CURATED_ALIAS_GROUPS: [type, preferred, terms, search]
    Codes,          \* code of a bare <<type, value>>, for those that have one
    PageSize,       \* how many objects a search returns at most
    MaxFailures,    \* bound: queries that fail
    MaxChanges      \* bound: changes of OpenCTI during the lookup

\* ordered_search_values leaves no name twice.
ASSUME LookupAssumption ==
    /\ MaxFailures \in Nat /\ MaxChanges \in Nat
    /\ \A p, q \in ObjectPool : p.id = q.id => p = q
    /\ \A o \in ObjectPool : o.id # "" /\ o.coll # ""
    /\ \A g, h \in Curated : g.type = h.type => g = h
    /\ \A g \in Curated : EachOnce(g.search)
    /\ \A p \in Plans : p \in Seq(ToSet(p))
                       /\ \A i \in DOMAIN p : EachOnce(p[i].cand.names)

NoMatch == [id |-> ""]

---------------------------------------------------------------------------
(* Which queries are asked of a candidate *)

SearchedTypes ==
    {"malware", "tool", "threat-actor", "intrusion-set", "infrastructure"}

NamedTypes == SearchedTypes \union
    {"campaign", "channel", "course-of-action", "x-mitre-data-component",
     "x-mitre-data-source", "event", "narrative", "location", "security-platform"}

ActorCollection(ent) ==
    CASE ent \in {"group", "threat_actor", "threat_actor_group", "threat-actor"} ->
            "threatActorsGroup"
      [] ent \in {"individual", "person", "human", "threat_actor_individual"} ->
            "threatActorsIndividuals"
      [] OTHER -> "threatActors"

IdentityCollections ==
    [target_organization |-> "organizations", target_sector |-> "sectors",
     target_system |-> "systems", target_individual |-> "individuals"]

\* "" for what is not looked up.
Collection(c) ==
    CASE c.type = "threat-actor" -> ActorCollection(c.ent)
      [] c.type = "identity" ->
            IF c.ent \in DOMAIN IdentityCollections
            THEN IdentityCollections[c.ent] ELSE ""
      [] c.type \in {"observable", "autonomous-system"} -> "observables"
      [] c.type \in NamedTypes \union {"attack-pattern", "vulnerability"} -> c.type
      [] OTHER -> ""

Query(kind, c, value) == [kind |-> kind, coll |-> Collection(c), value |-> value]

Terms(c) == ToSet(c.names)

Groups(c) ==
    {g \in Curated : g.type = c.type /\ g.terms \intersect Terms(c) # {}}

KnownTerms(c) == Terms(c) \union UNION {g.terms : g \in Groups(c)}

\* Aliases are searched where they are curated, given, or always (actors).
Searches(c) ==
    /\ c.type \in SearchedTypes
    /\ \/ Groups(c) # {} \/ c.aliased
       \/ c.type \in {"threat-actor", "intrusion-set"}

SearchValues(c) ==
    IF Groups(c) # {} THEN (CHOOSE g \in Groups(c) : TRUE).search
    ELSE c.names

\* Mutant: the search replaces the query by name.
SearchesOnly(c) ==
    IF Searches(c)
    THEN [i \in DOMAIN SearchValues(c) |-> Query("search", c, SearchValues(c)[i])]
    ELSE <<Query("name", c, c.name)>>

NamedQueries(c) ==
    (IF Searches(c)
     THEN [i \in DOMAIN SearchValues(c) |-> Query("search", c, SearchValues(c)[i])]
     ELSE <<>>)
    \o <<Query("name", c, c.name)>>

AttackQueries(c) ==
    IF c.code # "" THEN <<Query("mitre", c, c.code)>>
    ELSE IF c.std # "" THEN <<Query("id", c, c.std)>> ELSE <<>>

ObservableQueries(c) ==
    <<Query("name", c, c.val)>>
    \o IF c.code = "artifact" THEN <<Query("exact", c, c.val)>> ELSE <<>>

CodeQueries(c) == IF c.code # "" THEN <<Query("name", c, c.code)>> ELSE <<>>

\* In order; the first that gives a match ends them.  An id is asked alone.
Queries(c) ==
    IF Collection(c) = "" \/ (c.type = "observable" /\ c.code = "") THEN <<>>
    ELSE IF c.type = "attack-pattern" THEN AttackQueries(c)
    ELSE IF c.std # "" THEN <<Query("id", c, c.std)>>
    ELSE CASE c.type \in {"vulnerability", "autonomous-system"} -> CodeQueries(c)
           [] c.type = "observable" -> ObservableQueries(c)
           [] OTHER -> NamedQueries(c)

\* What OpenCTI has for a query; of the first object, whichever it is, the
\* answer is made.
Hits(q, objects) ==
    {o \in objects : o.coll = q.coll /\
        CASE q.kind = "id" -> o.std = q.value
          [] q.kind = "mitre" -> o.mitre = q.value
          [] q.kind = "search" -> q.value \in o.words
          [] OTHER -> o.name = q.value}

\* The page a search returns: all there is, or as many as it may be.
Pages(q, objects) ==
    LET hits == Hits(q, objects)
    IN IF Cardinality(hits) <= PageSize THEN {hits} ELSE kSubset(PageSize, hits)

Fitting(c, found) == {o \in found : o.terms \intersect KnownTerms(c) # {}}

\* Mutant: any that fits.
ByAnyAlias(c, found) == Fitting(c, found)

\* Of what a search finds: the preferred name, or the only one that fits.
ByAlias(c, found) ==
    LET fits == Fitting(c, found)
        preferred == {o \in fits : \E g \in Groups(c) : o.name = g.preferred}
    IN IF preferred # {} THEN preferred ELSE {o \in fits : fits = {o}}

\* The answers one call may give.
Answers(q, c, objects) ==
    IF q.kind = "search" THEN {ByAlias(c, page) : page \in Pages(q, objects)}
    ELSE {Hits(q, objects)}

---------------------------------------------------------------------------
(* The lookup of a plan *)

CacheKey(c) == <<c.type, c.val, c.id>>

\* The other end, as a candidate of its own; its entity type is its STIX type.
HasSource(c) == "" \notin {c.anchor[1], c.anchor[2]}
CodeOf(end) == IF end \in DOMAIN Codes THEN Codes[end] ELSE ""
SourceOf(c) ==
    [type |-> c.anchor[1], ent |-> c.anchor[1], val |-> c.anchor[2],
     name |-> c.anchor[2], names |-> <<c.anchor[2]>>, aliased |-> FALSE,
     id |-> "", std |-> "", code |-> CodeOf(c.anchor), relType |-> "",
     anchor |-> <<"", "">>]

VARIABLES
    objects, edges,  \* OpenCTI
    plan, at,        \* the plan and the position in it
    phase,           \* "target", "source", "edge" or "done"
    asking,          \* the queries of the current end that are left
    memo,            \* candidate_matches: cache key -> object or NoMatch
    links,           \* relationship_matches: <<id, type, id>> -> found
    known,           \* entity_keys, relationship_keys, matches
    asked,           \* every query asked, with the end it is asked for
    failures, changes

vars == <<objects, edges, plan, at, phase, asking, memo, links, known, asked,
          failures, changes>>

Cand == plan[at].cand
Subject == IF phase = "source" THEN SourceOf(Cand) ELSE Cand
Cached(c) == CacheKey(c) \in DOMAIN memo
Match(c) == memo[CacheKey(c)]

Begin(p, n) ==
    IF n > Len(p) THEN [phase |-> "done", asking |-> <<>>]
    ELSE [phase |-> "target", asking |-> Queries(p[n].cand)]

Init ==
    /\ objects \in SUBSET ObjectPool /\ edges \in SUBSET EdgePool
    /\ plan \in Plans /\ at = 1
    /\ phase = Begin(plan, 1).phase /\ asking = Begin(plan, 1).asking
    /\ memo = <<>> /\ links = <<>>
    /\ known = [ents |-> {}, rels |-> {}, matches |-> {}]
    /\ asked = <<>> /\ failures = 0 /\ changes = 0

Remember(c, o) == memo' = [k \in DOMAIN memo \union {CacheKey(c)} |->
                              IF k = CacheKey(c) THEN o ELSE memo[k]]

Goto(ph, qs) == phase' = ph /\ asking' = qs

NextAction ==
    /\ at' = at + 1
    /\ Goto(Begin(plan, at + 1).phase, Begin(plan, at + 1).asking)

\* Mutant: a query that fails is asked again.
AskAgain ==
    /\ phase \in {"target", "source"} /\ ~Cached(Subject) /\ asking # <<>>
    /\ \E found \in Answers(Head(asking), Subject, objects) :
          \/ \E o \in found : Remember(Subject, o) /\ asking' = <<>>
          \/ found = {} /\ UNCHANGED <<memo, asking>>
    /\ UNCHANGED <<objects, edges, plan, at, phase, links, known, asked, failures, changes>>

\* One query: a match ends the lookup of this end, no match and an error ask
\* the next one.
Ask ==
    /\ phase \in {"target", "source"} /\ ~Cached(Subject) /\ asking # <<>>
    /\ asked' = Append(asked, <<CacheKey(Subject), Head(asking)>>)
    /\ \E found \in Answers(Head(asking), Subject, objects) :
          \/ \E o \in found : /\ Remember(Subject, o) /\ asking' = <<>>
                              /\ UNCHANGED failures
          \/ /\ found = {} /\ asking' = Tail(asking)
             /\ UNCHANGED <<memo, failures>>
          \/ /\ failures < MaxFailures /\ failures' = failures + 1
             /\ asking' = Tail(asking) /\ UNCHANGED memo
    /\ UNCHANGED <<objects, edges, plan, at, phase, links, known, changes>>

\* Mutant: a miss is not remembered.
MissForgotten ==
    /\ phase \in {"target", "source"} /\ ~Cached(Subject) /\ asking = <<>>
    /\ NextAction /\ UNCHANGED known
    /\ UNCHANGED <<objects, edges, plan, memo, links, asked, failures, changes>>

\* A miss is remembered like a match.
Miss ==
    /\ phase \in {"target", "source"} /\ ~Cached(Subject) /\ asking = <<>>
    /\ Remember(Subject, NoMatch)
    /\ UNCHANGED <<objects, edges, plan, at, phase, asking, links, known, asked,
                   failures, changes>>

\* Mutant: the wrong one of the two keys is known.
KnownByRelationship(withRel) ==
    known' = [known EXCEPT !.ents = @ \union {plan[at].rel}]

Known(withRel) ==
    known' = [ents |-> known.ents \union {plan[at].key},
              rels |-> known.rels \union IF withRel THEN {plan[at].rel} ELSE {},
              matches |-> known.matches \union
                            {[ent |-> plan[at].key, id |-> Match(Cand).id]}]

\* The target is looked up: without match the action is passed over.
TargetDone ==
    /\ phase = "target" /\ Cached(Cand)
    /\ IF Match(Cand) = NoMatch THEN NextAction /\ UNCHANGED known
       ELSE IF HasSource(Cand) /\ Cand.relType # ""
       THEN /\ Goto("source", Queries(SourceOf(Cand)))
            /\ UNCHANGED <<at, known>>
       ELSE NextAction /\ Known(FALSE)
    /\ UNCHANGED <<objects, edges, plan, memo, links, asked, failures, changes>>

SourceDone ==
    /\ phase = "source" /\ Cached(SourceOf(Cand))
    /\ IF Match(SourceOf(Cand)) = NoMatch THEN NextAction /\ Known(FALSE)
       ELSE Goto("edge", <<>>) /\ UNCHANGED <<at, known>>
    /\ UNCHANGED <<objects, edges, plan, memo, links, asked, failures, changes>>

Link == <<Match(SourceOf(Cand)).id, Cand.relType, Match(Cand).id>>

EdgeFound(found) == links' = [l \in DOMAIN links \union {Link} |->
                                 IF l = Link THEN found ELSE links[l]]

\* Mutant: any relationship between the two ends will do.
AskAnyEdge ==
    /\ phase = "edge" /\ Link \notin DOMAIN links
    /\ asked' = Append(asked, <<Link, [kind |-> "edge", coll |-> "", value |-> ""]>>)
    /\ EdgeFound(\E e \in edges : {e[1], e[3]} = {Link[1], Link[3]})
    /\ UNCHANGED <<objects, edges, plan, at, phase, asking, memo, known, failures, changes>>

\* The directed relationships between the ends, and the exact type among them.
AskEdge ==
    /\ phase = "edge" /\ Link \notin DOMAIN links
    /\ asked' = Append(asked, <<Link, [kind |-> "edge", coll |-> "", value |-> ""]>>)
    /\ \/ EdgeFound(Link \in edges) /\ UNCHANGED failures
       \/ EdgeFound(FALSE) /\ failures < MaxFailures /\ failures' = failures + 1
    /\ UNCHANGED <<objects, edges, plan, at, phase, asking, memo, known, changes>>

EdgeDone ==
    /\ phase = "edge" /\ Link \in DOMAIN links
    /\ NextAction /\ Known(links[Link])
    /\ UNCHANGED <<objects, edges, plan, memo, links, asked, failures, changes>>

\* OpenCTI gains or loses an object or a relationship at any time.
Change ==
    /\ phase # "done" /\ changes < MaxChanges /\ changes' = changes + 1
    /\ \/ \E o \in ObjectPool :
             objects' = (objects \ {o}) \union ({o} \ objects) /\ UNCHANGED edges
       \/ \E e \in EdgePool :
             edges' = (edges \ {e}) \union ({e} \ edges) /\ UNCHANGED objects
    /\ UNCHANGED <<plan, at, phase, asking, memo, links, known, asked, failures>>

Step == Ask \/ Miss \/ TargetDone \/ SourceDone \/ AskEdge \/ EdgeDone

Next == Step \/ Change

\* The lookup runs in the connector's thread and is not interrupted.
Spec == Init /\ [][Next]_vars /\ WF_vars(Step)

---------------------------------------------------------------------------
(* Properties *)

\* TypeOK: the types of the variables.
TypeOK ==
    /\ objects \subseteq ObjectPool /\ edges \subseteq EdgePool
    /\ plan \in Plans /\ at \in 1 .. Len(plan) + 1
    /\ phase \in {"target", "source", "edge", "done"}
    /\ \A k \in DOMAIN memo : memo[k] \in ObjectPool \union {NoMatch}
    /\ \A l \in DOMAIN links : links[l] \in BOOLEAN
    /\ known.ents \subseteq {plan[i].key : i \in DOMAIN plan}
    /\ known.rels \subseteq {plan[i].rel : i \in DOMAIN plan}
    /\ failures \in 0 .. MaxFailures /\ changes \in 0 .. MaxChanges

\* No query is asked twice for the same end, and no pair of ends twice, over
\* all actions of the plan, whatever was missed or failed before.
NothingAskedTwice == IsInjective(asked)

\* An object fits a candidate by id, by name or by a name it is known under.
FitsById(o, c) ==
    \/ c.std # "" /\ o.std = c.std
    \/ c.code # "" /\ o.mitre = c.code
FitsByName(o, c) == o.name \in {c.val, c.name, c.code}
FitsByAlias(o, c) == o.terms \intersect KnownTerms(c) # {}
Fits(o, c) == FitsById(o, c) \/ FitsByName(o, c) \/ FitsByAlias(o, c)

Ends == {plan[i].cand : i \in DOMAIN plan}
        \union {SourceOf(plan[i].cand) : i \in DOMAIN plan}

\* A candidate is taken for an object only if OpenCTI holds it at that moment
\* and it fits, and an alias shared by several objects decides nothing: then
\* it is the one of the preferred name, or the only one on the page that fits.
TakenIsTheOne ==
    [][\A k \in DOMAIN memo' \ DOMAIN memo :
          memo'[k] # NoMatch =>
             \E c \in Ends :
                /\ CacheKey(c) = k /\ memo'[k] \in objects
                /\ \/ FitsById(memo'[k], c) \/ FitsByName(memo'[k], c)
                   \/ /\ FitsByAlias(memo'[k], c)
                      /\ \/ \E g \in Groups(c) : memo'[k].name = g.preferred
                         \/ \E page \in Pages(Last(asked')[2], objects) :
                              Fitting(c, page) = {memo'[k]}]_vars

\* An object fits an end if it fits a candidate the cache takes for it.
FitsKey(o, c) == \E d \in Ends : CacheKey(d) = CacheKey(c) /\ Fits(o, d)

\* A relationship is called known only if it exists with its type and
\* direction between an object that fits the one end and one that fits the
\* other: that the target is known is never enough.
KnownRelationshipExists ==
    changes = 0 =>
        \A r \in known.rels :
            \E j \in DOMAIN plan : \E s, t \in objects :
                /\ plan[j].rel = r
                /\ FitsKey(s, SourceOf(plan[j].cand)) /\ FitsKey(t, plan[j].cand)
                /\ <<s.id, plan[j].cand.relType, t.id>> \in edges

\* What OpenCTI holds under the candidate's name is found, if no query fails:
\* unless another candidate of the same type and value, for which the cache
\* gives the same answer, is looked up elsewhere.
SearchedByName(c) == c.type \in NamedTypes \union {"identity"} /\ c.std = ""

PresentIsKnown ==
    phase = "done" /\ changes = 0 /\ failures = 0 =>
        \A i \in DOMAIN plan :
            LET c == plan[i].cand IN
            /\ \E o \in objects : o.coll = Collection(c) /\ o.name = c.name
            /\ \A d \in Ends : CacheKey(d) = CacheKey(c) =>
                  /\ SearchedByName(d) /\ d.name = c.name
                  /\ Collection(d) = Collection(c)
            => plan[i].key \in known.ents

\* A lookup comes to its end, over every failing query.
LookupEnds == <>(phase = "done")
=============================================================================
