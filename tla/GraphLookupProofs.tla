------------------------- MODULE GraphLookupProofs -------------------------
(***************************************************************************)
(* The lookup of a plan, for any plans, any OpenCTI, any curated names and *)
(* any number of failing queries and of changes in between.                *)
(***************************************************************************)
EXTENDS GraphLookup, ListProofs, TLAPS

---------------------------------------------------------------------------
(* The queries of a candidate *)

\* Candidates whose names are searched once each: those of the plans.
WellNamed(c) == EachOnce(c.names)

\* What is asked for a candidate.
IsQuery(q, c) ==
    /\ q = [kind |-> q.kind, coll |-> Collection(c), value |-> q.value]
    /\ \/ q.kind = "search"
       \/ q.kind \in {"name", "exact"} /\ q.value \in {c.val, c.name, c.code}
       \/ q.kind = "id" /\ c.std # "" /\ q.value = c.std
       \/ q.kind = "mitre" /\ c.code # "" /\ q.value = c.code

LEMMA SearchValuesEachOnce ==
    ASSUME NEW c, WellNamed(c)
    PROVE  EachOnce(SearchValues(c))
<1>1. CASE Groups(c) # {}
  <2>1. (CHOOSE g \in Groups(c) : TRUE) \in Groups(c)
      BY <1>1
  <2>2. (CHOOSE g \in Groups(c) : TRUE) \in Curated
      BY <2>1 DEF Groups
  <2> QED
      BY <2>2, <1>1, LookupAssumption DEF SearchValues
<1>2. CASE Groups(c) = {}
    BY <1>2 DEF SearchValues, WellNamed
<1> QED
    BY <1>1, <1>2

LEMMA SearchesEachOnce ==
    ASSUME NEW c, NEW s, EachOnce(s)
    PROVE  LET t == [i \in DOMAIN s |-> Query("search", c, s[i])]
           IN EachOnce(t) /\ \A q \in ToSet(t) : IsQuery(q, c) /\ q.kind = "search"
<1> DEFINE t == [i \in DOMAIN s |-> Query("search", c, s[i])]
<1>1. Len(s) \in Nat /\ DOMAIN s = 1 .. Len(s)
    BY DEF EachOnce
<1>2. t \in Seq(ToSet(t))
    BY <1>1 DEF ToSet
<1>3. IsInjective(t)
    BY DEF IsInjective, Query, EachOnce
<1>4. \A i \in DOMAIN t : IsQuery(t[i], c) /\ t[i].kind = "search"
    BY DEF IsQuery, Query
<1>5. \A q \in ToSet(t) : IsQuery(q, c) /\ q.kind = "search"
    BY <1>4 DEF ToSet
<1> QED
    BY <1>2, <1>3, <1>5 DEF EachOnce

LEMMA SingleQuery ==
    ASSUME NEW q
    PROVE  EachOnce(<<q>>) /\ ToSet(<<q>>) = {q}
BY DEF EachOnce, ToSet, IsInjective

LEMMA NoQuery == EachOnce(<<>>) /\ ToSet(<<>>) = {}
BY DEF EachOnce, ToSet, IsInjective

LEMMA NamedQueriesEachOnce ==
    ASSUME NEW c, WellNamed(c)
    PROVE  /\ EachOnce(NamedQueries(c))
           /\ \A q \in ToSet(NamedQueries(c)) : IsQuery(q, c)
           /\ Query("name", c, c.name) \in ToSet(NamedQueries(c))
<1> DEFINE s == IF Searches(c)
                THEN [i \in DOMAIN SearchValues(c) |-> Query("search", c, SearchValues(c)[i])]
                ELSE <<>>
           t == <<Query("name", c, c.name)>>
<1>1. EachOnce(s) /\ \A q \in ToSet(s) : IsQuery(q, c) /\ q.kind = "search"
    BY SearchValuesEachOnce, SearchesEachOnce, NoQuery
<1>2. EachOnce(t) /\ ToSet(t) = {Query("name", c, c.name)}
    BY SingleQuery
<1>3. IsQuery(Query("name", c, c.name), c) /\ Query("name", c, c.name).kind = "name"
    BY DEF IsQuery, Query
<1>4. NamedQueries(c) = s \o t
    BY DEF NamedQueries
<1> HIDE DEF s, t
<1>5. ToSet(s) \intersect ToSet(t) = {}
    BY <1>1, <1>2, <1>3
<1> QED
    BY <1>1, <1>2, <1>3, <1>4, <1>5, ConcatEachOnce

LEMMA ObservableQueriesEachOnce ==
    ASSUME NEW c
    PROVE  /\ EachOnce(ObservableQueries(c))
           /\ \A q \in ToSet(ObservableQueries(c)) : IsQuery(q, c)
<1> DEFINE n == Query("name", c, c.val)  e == Query("exact", c, c.val)
<1>1. IsQuery(n, c) /\ IsQuery(e, c) /\ n # e
    BY DEF IsQuery, Query
<1>2. CASE c.code = "artifact"
  <2>1. ObservableQueries(c) = <<n>> \o <<e>>
      BY <1>2 DEF ObservableQueries
  <2> HIDE DEF n, e
  <2>2. EachOnce(<<n>> \o <<e>>) /\ ToSet(<<n>> \o <<e>>) = {n, e}
    <3>1. EachOnce(<<n>>) /\ ToSet(<<n>>) = {n} /\ EachOnce(<<e>>) /\ ToSet(<<e>>) = {e}
        BY SingleQuery
    <3>2. ToSet(<<n>>) \intersect ToSet(<<e>>) = {}
        BY <3>1, <1>1
    <3> QED
        BY <3>1, <3>2, ConcatEachOnce
  <2> QED
      BY <1>1, <2>1, <2>2
<1>3. CASE c.code # "artifact"
  <2>1. ObservableQueries(c) = <<n>> \o <<>>
      BY <1>3 DEF ObservableQueries
  <2>2. <<n>> \o <<>> = <<n>>
      OBVIOUS
  <2> QED
      BY <1>1, <2>1, <2>2, SingleQuery
<1> QED
    BY <1>2, <1>3

\* Each query once, and all of them for the candidate.
AsksFor(s, c) == EachOnce(s) /\ \A q \in ToSet(s) : IsQuery(q, c)

LEMMA SingleAsksFor ==
    ASSUME NEW c, NEW q, IsQuery(q, c)
    PROVE  AsksFor(<<q>>, c)
<1>1. EachOnce(<<q>>) /\ ToSet(<<q>>) = {q}
    BY SingleQuery
<1> QED
    BY <1>1 DEF AsksFor

\* No query of a candidate is asked twice, and each is one for it.
LEMMA QueriesAskFor ==
    ASSUME NEW c, WellNamed(c)
    PROVE  AsksFor(Queries(c), c)
<1>1. AsksFor(<<>>, c)
    BY NoQuery DEF AsksFor
<1>2. c.std # "" => AsksFor(<<Query("id", c, c.std)>>, c)
  <2>1. c.std # "" => IsQuery(Query("id", c, c.std), c)
      BY DEF IsQuery, Query
  <2> QED
      BY <2>1, SingleAsksFor
<1>3. c.code # "" => AsksFor(<<Query("mitre", c, c.code)>>, c)
  <2>1. c.code # "" => IsQuery(Query("mitre", c, c.code), c)
      BY DEF IsQuery, Query
  <2> QED
      BY <2>1, SingleAsksFor
<1>4. AsksFor(AttackQueries(c), c)
    BY <1>1, <1>2, <1>3 DEF AttackQueries
<1>5. AsksFor(CodeQueries(c), c)
  <2>1. IsQuery(Query("name", c, c.code), c)
      BY DEF IsQuery, Query
  <2>2. AsksFor(<<Query("name", c, c.code)>>, c)
      BY <2>1, SingleAsksFor
  <2> QED
      BY <1>1, <2>2 DEF CodeQueries
<1>6. AsksFor(NamedQueries(c), c) /\ AsksFor(ObservableQueries(c), c)
    BY NamedQueriesEachOnce, ObservableQueriesEachOnce DEF AsksFor
<1> QED
    BY <1>1, <1>2, <1>4, <1>5, <1>6 DEF Queries

\* A candidate that is searched by name is asked for by its name.
LEMMA NameIsAsked ==
    ASSUME NEW c, WellNamed(c), SearchedByName(c), Collection(c) # ""
    PROVE  Query("name", c, c.name) \in ToSet(Queries(c))
<1>1. c.type \notin {"observable", "attack-pattern", "vulnerability", "autonomous-system"}
    BY DEF SearchedByName, NamedTypes, SearchedTypes
<1>2. Queries(c) = NamedQueries(c)
    BY <1>1 DEF Queries, SearchedByName
<1> QED
    BY <1>2, NamedQueriesEachOnce

\* What is taken from an answer is in OpenCTI and fits.
Chosen(o, q, c) ==
    \/ FitsById(o, c) \/ FitsByName(o, c)
    \/ /\ FitsByAlias(o, c)
       /\ \/ \E g \in Groups(c) : o.name = g.preferred
          \/ \E page \in Pages(q, objects) : Fitting(c, page) = {o}

LEMMA AnswersFit ==
    ASSUME NEW c, NEW q, IsQuery(q, c), NEW found \in Answers(q, c, objects), NEW o \in found
    PROVE  o \in objects /\ Fits(o, c) /\ Chosen(o, q, c)
<1>1. Hits(q, objects) \subseteq objects
    BY DEF Hits
<1>2. CASE q.kind = "search"
  <2>1. PICK page \in Pages(q, objects) : found = ByAlias(c, page)
      BY <1>2 DEF Answers
  <2>2. page \subseteq Hits(q, objects)
      BY <2>1 DEF Pages, kSubset
  <2>3. o \in Fitting(c, page) /\ ( \/ \E g \in Groups(c) : o.name = g.preferred
                                    \/ Fitting(c, page) = {o} )
      BY <2>1 DEF ByAlias
  <2>4. o \in objects /\ FitsByAlias(o, c)
      BY <1>1, <2>2, <2>3 DEF Fitting, FitsByAlias
  <2> QED
      BY <2>1, <2>3, <2>4 DEF Fits, Chosen
<1>3. CASE q.kind # "search"
  <2>1. o \in Hits(q, objects)
      BY <1>3 DEF Answers
  <2>2. FitsById(o, c) \/ FitsByName(o, c)
      BY <1>3, <2>1 DEF Hits, IsQuery, FitsById, FitsByName
  <2> QED
      BY <1>1, <2>1, <2>2 DEF Fits, Chosen
<1> QED
    BY <1>2, <1>3

---------------------------------------------------------------------------
(* Where the lookup is *)

Looking == phase \in {"target", "source"}

PlaceInv ==
    /\ plan \in Plans /\ at \in 1 .. Len(plan) + 1
    /\ phase \in {"target", "source", "edge", "done"}
    /\ phase = "done" <=> at = Len(plan) + 1

\* What is left to ask is asked for the end that is looked up.
AskingInv == Looking => AsksFor(asking, Subject) /\ ToSet(asking) \subseteq ToSet(Queries(Subject))

LEMMA PlanFacts ==
    ASSUME NEW p \in Plans
    PROVE  /\ Len(p) \in Nat /\ DOMAIN p = 1 .. Len(p)
           /\ \A i \in DOMAIN p : WellNamed(p[i].cand) /\ WellNamed(SourceOf(p[i].cand))
<1>1. p \in Seq(ToSet(p)) /\ \A i \in DOMAIN p : EachOnce(p[i].cand.names)
    BY LookupAssumption
<1>2. \A i \in DOMAIN p : WellNamed(SourceOf(p[i].cand))
    BY SingleQuery DEF WellNamed, SourceOf
<1> QED
    BY <1>1, <1>2 DEF WellNamed

LEMMA SubjectIsEnd ==
    ASSUME PlaceInv, phase # "done"
    PROVE  /\ at \in DOMAIN plan
           /\ WellNamed(Subject) /\ Subject \in Ends
           /\ WellNamed(Cand) /\ Cand \in Ends
           /\ WellNamed(SourceOf(Cand)) /\ SourceOf(Cand) \in Ends
<1>1. at \in DOMAIN plan
    BY PlanFacts DEF PlaceInv
<1> QED
    BY <1>1, PlanFacts DEF Subject, Cand, PlaceInv, Ends

\* The next action of the plan, from any place.
LEMMA NextPlace ==
    ASSUME PlaceInv, phase # "done", NextAction, plan' = plan
    PROVE  /\ PlaceInv' /\ at' = at + 1
           /\ phase' \in {"target", "done"}
           /\ phase' = "target" => asking' = Queries(Subject')
<1>1. Len(plan) \in Nat /\ at \in 1 .. Len(plan)
    BY PlanFacts DEF PlaceInv
<1>2. at' = at + 1 /\ phase' = Begin(plan, at + 1).phase /\ asking' = Begin(plan, at + 1).asking
    BY DEF NextAction, Goto
<1>3. CASE at + 1 > Len(plan)
    BY <1>1, <1>2, <1>3 DEF Begin, PlaceInv
<1>4. CASE ~(at + 1 > Len(plan))
    BY <1>1, <1>2, <1>4 DEF Begin, PlaceInv, Subject, Cand
<1> QED
    BY <1>3, <1>4

LEMMA SourcePlace ==
    ASSUME PlaceInv, phase = "target", Goto("source", Queries(SourceOf(Cand))),
           UNCHANGED <<plan, at>>
    PROVE  /\ PlaceInv' /\ phase' = "source" /\ asking' = Queries(Subject')
BY DEF Goto, PlaceInv, Subject, Cand

\* Every step leaves the place well-formed; a step that turns to another end
\* asks everything of it.
Turns == /\ Looking' => asking' = Queries(Subject')
         /\ Looking => Cached(Subject)
         /\ UNCHANGED <<objects, edges, memo, links, asked, failures, changes>>
Asks  == /\ Looking /\ ~Cached(Subject) /\ (Ask \/ Miss)
         /\ Subject' = Subject /\ Looking' /\ UNCHANGED known
Links == AskEdge /\ ~Looking /\ ~Looking' /\ UNCHANGED known

LEMMA StepKinds ==
    ASSUME PlaceInv, [Next]_vars
    PROVE  /\ PlaceInv'
           /\ \/ Asks /\ Ask
              \/ Asks /\ Miss
              \/ Turns /\ (TargetDone \/ SourceDone \/ EdgeDone)
              \/ Links
              \/ Change \/ UNCHANGED vars
<1>1. CASE Ask
    BY <1>1 DEF Ask, PlaceInv, Asks, Looking, Subject, Cand
<1>2. CASE Miss
    BY <1>2 DEF Miss, PlaceInv, Asks, Looking, Subject, Cand
<1>3. CASE TargetDone
  <2>0. plan' = plan /\ phase = "target" /\ Cached(Subject)
      BY <1>3 DEF TargetDone, Subject
  <2>1. CASE NextAction
      BY <1>3, <2>0, <2>1, NextPlace DEF TargetDone, Turns, Looking
  <2>2. CASE Goto("source", Queries(SourceOf(Cand))) /\ UNCHANGED <<at, known>>
      BY <1>3, <2>0, <2>2, SourcePlace DEF TargetDone, Turns, Looking
  <2> QED
      BY <1>3, <2>1, <2>2 DEF TargetDone
<1>4. CASE SourceDone
  <2>0. plan' = plan /\ phase = "source" /\ Cached(Subject)
      BY <1>4 DEF SourceDone, Subject
  <2>1. CASE NextAction
      BY <1>4, <2>0, <2>1, NextPlace DEF SourceDone, Turns, Looking
  <2>2. CASE Goto("edge", <<>>) /\ UNCHANGED <<at, known>>
    <3>1. phase' = "edge" /\ at' = at
        BY <2>2 DEF Goto
    <3>2. PlaceInv'
        BY <2>0, <3>1 DEF PlaceInv
    <3>3. Turns
        BY <1>4, <2>0, <3>1 DEF SourceDone, Turns, Looking
    <3> QED
        BY <1>4, <3>2, <3>3
  <2> QED
      BY <1>4, <2>1, <2>2 DEF SourceDone
<1>5. CASE AskEdge
    BY <1>5 DEF AskEdge, PlaceInv, Links, Looking
<1>6. CASE EdgeDone
    BY <1>6, NextPlace DEF EdgeDone, Turns, Looking
<1>7. CASE Change
    BY <1>7 DEF Change, PlaceInv
<1>8. CASE UNCHANGED vars
    BY <1>8 DEF vars, PlaceInv
<1> QED
    BY <1>1, <1>2, <1>3, <1>4, <1>5, <1>6, <1>7, <1>8 DEF Next, Step

\* What is left to ask belongs to the end that is looked up.
LEMMA AskingStep == PlaceInv /\ AskingInv /\ [Next]_vars => AskingInv'
<1> SUFFICES ASSUME PlaceInv, AskingInv, [Next]_vars, Looking' PROVE
             AsksFor(asking, Subject)' /\ (ToSet(asking) \subseteq ToSet(Queries(Subject)))'
    BY DEF AskingInv
<1>1. PlaceInv'
    BY StepKinds
<1>2. CASE Asks /\ Ask
  <2>1. /\ Looking /\ asking # <<>> /\ Subject' = Subject
        /\ asking' = <<>> \/ asking' = Tail(asking)
      BY <1>2 DEF Asks, Ask
  <2>2. /\ EachOnce(Tail(asking)) /\ ToSet(Tail(asking)) \subseteq ToSet(asking)
      BY <2>1, TailEachOnce DEF AskingInv, AsksFor
  <2>3. AsksFor(asking', Subject) /\ ToSet(asking') \subseteq ToSet(asking)
      BY <2>1, <2>2, NoQuery DEF AskingInv, AsksFor
  <2> QED
      BY <2>1, <2>3 DEF AskingInv
<1>3. CASE Asks /\ Miss
    BY <1>3 DEF Asks, Miss, AskingInv
<1>4. CASE Turns
  <2>1. asking' = Queries(Subject')
      BY <1>4 DEF Turns
  <2>2. WellNamed(Subject')
    <3>1. plan' \in Plans /\ at' \in DOMAIN plan'
        BY <1>1, PlanFacts DEF PlaceInv, Looking
    <3> QED
        BY <3>1, PlanFacts DEF Subject, Cand
  <2> QED
      BY <2>1, <2>2, QueriesAskFor
<1>5. CASE Links
    BY <1>5 DEF Links
<1>6. CASE Change \/ UNCHANGED vars
    BY <1>6 DEF Change, vars, AskingInv, Looking, Subject, Cand
<1> QED
    BY <1>2, <1>3, <1>4, <1>5, <1>6, StepKinds

---------------------------------------------------------------------------
(* What a step does to the caches and to what is known *)

LEMMA RememberFacts ==
    ASSUME NEW c, NEW o, Remember(c, o)
    PROVE  /\ DOMAIN memo' = DOMAIN memo \union {CacheKey(c)}
           /\ memo'[CacheKey(c)] = o
           /\ \A k \in DOMAIN memo \ {CacheKey(c)} : memo'[k] = memo[k]
BY DEF Remember

\* A query is answered or not: with a match the end is remembered, without
\* one, and when it fails, the next query is left.
LEMMA AskFacts ==
    ASSUME PlaceInv, AskingInv, Asks, Ask
    PROVE  /\ asked' = Append(asked, <<CacheKey(Subject), Head(asking)>>)
           /\ asking # <<>> /\ Head(asking) \in ToSet(asking)
           /\ IsQuery(Head(asking), Subject)
           /\ \E found \in Answers(Head(asking), Subject, objects) :
                 \/ /\ \E o \in found : Remember(Subject, o)
                    /\ UNCHANGED failures
                 \/ /\ found = {} /\ asking' = Tail(asking) /\ UNCHANGED <<memo, failures>>
                 \/ /\ failures < MaxFailures /\ failures' = failures + 1
                    /\ asking' = Tail(asking) /\ UNCHANGED memo
           /\ UNCHANGED <<objects, edges, plan, at, phase, links, known, changes>>
<1>1. asking # <<>> /\ EachOnce(asking)
    BY DEF Ask, Asks, AskingInv, AsksFor
<1>2. Head(asking) \in ToSet(asking)
    BY <1>1, TailEachOnce
<1>3. IsQuery(Head(asking), Subject)
    BY <1>2 DEF Asks, AskingInv, AsksFor
<1> QED
    BY <1>1, <1>2, <1>3 DEF Ask

LEMMA MissFacts ==
    ASSUME Asks, Miss
    PROVE  /\ Remember(Subject, NoMatch) /\ asking = <<>>
           /\ UNCHANGED <<objects, edges, plan, at, phase, asking, links, known, asked,
                          failures, changes>>
BY DEF Miss

LEMMA LinkFacts ==
    ASSUME AskEdge
    PROVE  /\ DOMAIN links' = DOMAIN links \union {Link} /\ Link \notin DOMAIN links
           /\ links'[Link] \in BOOLEAN /\ (links'[Link] => Link \in edges)
           /\ \A l \in DOMAIN links : links'[l] = links[l]
           /\ \/ UNCHANGED failures
              \/ failures < MaxFailures /\ failures' = failures + 1
           /\ UNCHANGED <<objects, edges, plan, at, phase, asking, memo, known, changes>>
<1>1. ASSUME NEW found, EdgeFound(found)
      PROVE  /\ DOMAIN links' = DOMAIN links \union {Link} /\ links'[Link] = found
             /\ \A l \in DOMAIN links \ {Link} : links'[l] = links[l]
    BY <1>1 DEF EdgeFound
<1>2. Link \notin DOMAIN links
    BY DEF AskEdge
<1>3. \E found \in {FALSE, (Link \in edges)} : EdgeFound(found)
    BY DEF AskEdge
<1>4. PICK found \in {FALSE, (Link \in edges)} : EdgeFound(found)
    BY <1>3
<1>5. links'[Link] = found
    BY <1>1, <1>4
<1>6. links'[Link] \in BOOLEAN /\ (links'[Link] => Link \in edges)
  <2>1. CASE found = FALSE
      BY <2>1, <1>5
  <2>2. CASE found = (Link \in edges)
    <3>1. found \in BOOLEAN
        BY <2>2
    <3>2. found => Link \in edges
        BY <2>2
    <3> QED
        BY <3>1, <3>2, <1>5
  <2> QED
      BY <2>1, <2>2
<1>7. /\ UNCHANGED failures \/ (failures < MaxFailures /\ failures' = failures + 1)
      /\ UNCHANGED <<objects, edges, plan, at, phase, asking, memo, known, changes>>
    BY DEF AskEdge
<1> QED
    BY <1>1, <1>2, <1>4, <1>6, <1>7

LEMMA KnownGrows ==
    ASSUME NEW withRel, Known(withRel)
    PROVE  /\ known'.ents = known.ents \union {plan[at].key}
           /\ IF withRel THEN known'.rels = known.rels \union {plan[at].rel}
              ELSE known'.rels = known.rels
BY DEF Known

\* Only the action looked up, found, becomes known; its relationship only if
\* the caches hold it.
LEMMA KnownFacts ==
    ASSUME PlaceInv, TargetDone \/ SourceDone \/ EdgeDone
    PROVE  /\ plan' = plan /\ phase # "done" /\ at \in DOMAIN plan
           /\ \/ known' = known
              \/ /\ known'.ents = known.ents \union {plan[at].key}
                 /\ \/ known'.rels = known.rels
                    \/ /\ known'.rels = known.rels \union {plan[at].rel}
                       /\ phase = "edge" /\ Link \in DOMAIN links /\ links[Link]
<1>1. plan' = plan /\ phase # "done"
    BY DEF TargetDone, SourceDone, EdgeDone
<1>2. at \in DOMAIN plan
    BY <1>1, SubjectIsEnd
<1>3. CASE TargetDone
  <2>1. known' = known \/ Known(FALSE)
      BY <1>3 DEF TargetDone
  <2> QED
      BY <2>1, <1>1, <1>2, KnownGrows
<1>4. CASE SourceDone
  <2>1. known' = known \/ Known(FALSE)
      BY <1>4 DEF SourceDone
  <2> QED
      BY <2>1, <1>1, <1>2, KnownGrows
<1>5. CASE EdgeDone
  <2>1. phase = "edge" /\ Link \in DOMAIN links /\ Known(links[Link])
      BY <1>5 DEF EdgeDone
  <2>2. known'.ents = known.ents \union {plan[at].key}
      BY <2>1, KnownGrows
  <2>3. known'.rels = known.rels \/ (known'.rels = known.rels \union {plan[at].rel} /\ links[Link])
      BY <2>1, KnownGrows
  <2> QED
      BY <2>1, <2>2, <2>3, <1>1, <1>2
<1> QED
    BY <1>3, <1>4, <1>5

---------------------------------------------------------------------------
(* Type correctness *)

ValueInv ==
    /\ objects \subseteq ObjectPool /\ edges \subseteq EdgePool
    /\ \A k \in DOMAIN memo : memo[k] \in ObjectPool \union {NoMatch}
    /\ \A l \in DOMAIN links : links[l] \in BOOLEAN
    /\ known.ents \subseteq {plan[i].key : i \in DOMAIN plan}
    /\ known.rels \subseteq {plan[i].rel : i \in DOMAIN plan}
    /\ failures \in 0 .. MaxFailures /\ changes \in 0 .. MaxChanges

LEMMA Bounds == MaxFailures \in Nat /\ MaxChanges \in Nat
BY LookupAssumption

LEMMA LookupInit == Init => PlaceInv /\ AskingInv /\ ValueInv
<1> SUFFICES ASSUME Init PROVE PlaceInv /\ AskingInv /\ ValueInv
    OBVIOUS
<1>1. plan \in Plans /\ at = 1 /\ Len(plan) \in Nat /\ DOMAIN plan = 1 .. Len(plan)
    BY PlanFacts DEF Init
<1>2. PlaceInv
    BY <1>1 DEF Init, Begin, PlaceInv
<1>3. Looking => asking = Queries(Subject)
    BY <1>1 DEF Init, Begin, Looking, Subject, Cand
<1>4. AskingInv
    BY <1>2, <1>3, SubjectIsEnd, QueriesAskFor DEF AskingInv, Looking
<1>5. ValueInv
    BY Bounds DEF Init, ValueInv
<1> QED
    BY <1>2, <1>4, <1>5

LEMMA ValueStep == PlaceInv /\ AskingInv /\ ValueInv /\ [Next]_vars => ValueInv'
<1> SUFFICES ASSUME PlaceInv, AskingInv, ValueInv, [Next]_vars PROVE ValueInv'
    OBVIOUS
<1>1. CASE Asks /\ Ask
  <2>1. PICK found \in Answers(Head(asking), Subject, objects) :
            \/ /\ \E o \in found : Remember(Subject, o)
               /\ UNCHANGED failures
            \/ /\ found = {} /\ asking' = Tail(asking) /\ UNCHANGED <<memo, failures>>
            \/ /\ failures < MaxFailures /\ failures' = failures + 1
               /\ asking' = Tail(asking) /\ UNCHANGED memo
      BY <1>1, AskFacts
  <2>2. IsQuery(Head(asking), Subject)
        /\ UNCHANGED <<objects, edges, plan, at, phase, links, known, changes>>
      BY <1>1, AskFacts
  <2>3. \A o \in found : o \in ObjectPool
      BY <2>2, AnswersFit DEF ValueInv
  <2>4. CASE (\E o \in found : Remember(Subject, o)) /\ UNCHANGED failures
    <3>1. PICK o \in found : Remember(Subject, o)
        BY <2>4
    <3>2. \A k \in DOMAIN memo' : memo'[k] \in ObjectPool \union {NoMatch}
        BY <3>1, <2>3, RememberFacts, ZenonT(60) DEF ValueInv
    <3> QED
        BY <3>2, <2>2, <2>4 DEF ValueInv
  <2>5. CASE UNCHANGED <<memo, failures>>
      BY <2>5, <2>2 DEF ValueInv
  <2>6. CASE failures < MaxFailures /\ failures' = failures + 1 /\ UNCHANGED memo
    <3>1. failures' \in 0 .. MaxFailures
        BY <2>6, Bounds DEF ValueInv
    <3> QED
        BY <3>1, <2>6, <2>2 DEF ValueInv
  <2> QED
      BY <2>1, <2>4, <2>5, <2>6
<1>2. CASE Asks /\ Miss
  <2>1. \A k \in DOMAIN memo' : memo'[k] \in ObjectPool \union {NoMatch}
      BY <1>2, MissFacts, RememberFacts, ZenonT(60) DEF ValueInv
  <2> QED
      BY <2>1, <1>2, MissFacts DEF ValueInv
<1>3. CASE Turns /\ (TargetDone \/ SourceDone \/ EdgeDone)
  <2>1. /\ known'.ents \subseteq {plan[i].key : i \in DOMAIN plan}
        /\ known'.rels \subseteq {plan[i].rel : i \in DOMAIN plan}
      BY <1>3, KnownFacts DEF ValueInv
  <2>2. plan' = plan
      BY <1>3, KnownFacts
  <2> QED
      BY <1>3, <2>1, <2>2 DEF ValueInv, Turns
<1>4. CASE Links
  <2>0. AskEdge
      BY <1>4 DEF Links
  <2>1. \A l \in DOMAIN links' : links'[l] \in BOOLEAN
      BY <2>0, LinkFacts DEF ValueInv
  <2>2. failures' \in 0 .. MaxFailures
      BY <2>0, LinkFacts, Bounds DEF ValueInv
  <2> QED
      BY <2>0, <2>1, <2>2, LinkFacts DEF ValueInv
<1>5. CASE Change
  <2>1. changes' \in 0 .. MaxChanges
      BY <1>5, Bounds DEF Change, ValueInv
  <2>2. objects' \subseteq ObjectPool /\ edges' \subseteq EdgePool
      BY <1>5 DEF Change, ValueInv
  <2> QED
      BY <1>5, <2>1, <2>2 DEF Change, ValueInv
<1>6. CASE UNCHANGED vars
    BY <1>6 DEF vars, ValueInv
<1> QED
    BY <1>1, <1>2, <1>3, <1>4, <1>5, <1>6, StepKinds

\* The lookup: the variables keep their types, for any plans and any OpenCTI.
THEOREM LookupTypes == Spec => []TypeOK
<1>1. PlaceInv /\ AskingInv /\ ValueInv /\ [Next]_vars => (PlaceInv /\ AskingInv /\ ValueInv)'
    BY StepKinds, AskingStep, ValueStep
<1>2. PlaceInv /\ ValueInv => TypeOK
    BY DEF PlaceInv, ValueInv, TypeOK
<1> QED
    BY LookupInit, <1>1, <1>2, PTL DEF Spec

---------------------------------------------------------------------------
(* Nothing is asked twice *)

EdgeQuery == [kind |-> "edge", coll |-> "", value |-> ""]

\* Who was asked about is decided in a cache, or is looked up now and the query
\* is not among those that are left.
Answered(e) ==
    \/ e[2].kind = "edge" /\ e[1] \in DOMAIN links
    \/ e[2].kind # "edge" /\ e[1] \in DOMAIN memo
    \/ /\ Looking /\ ~Cached(Subject)
       /\ e[2].kind # "edge" /\ e[1] = CacheKey(Subject) /\ e[2] \notin ToSet(asking)

AskedInv == EachOnce(asked) /\ \A e \in ToSet(asked) : Answered(e)

LEMMA AskedInit == Init => AskedInv
BY NoQuery DEF Init, AskedInv

LEMMA AskedStep ==
    PlaceInv /\ AskingInv /\ AskedInv /\ [Next]_vars => AskedInv'
<1> SUFFICES ASSUME PlaceInv, AskingInv, AskedInv, [Next]_vars PROVE AskedInv'
    OBVIOUS
<1>1. CASE Asks /\ Ask
  <2> DEFINE new == <<CacheKey(Subject), Head(asking)>>
  <2>1. /\ asked' = Append(asked, new) /\ links' = links /\ asking # <<>>
        /\ Head(asking) \in ToSet(asking) /\ IsQuery(Head(asking), Subject)
      BY <1>1, AskFacts
  <2>2. Looking /\ ~Cached(Subject) /\ Subject' = Subject /\ Looking'
      BY <1>1 DEF Asks
  <2>3. new[2].kind # "edge" /\ new[1] = CacheKey(Subject) /\ new[1] \notin DOMAIN memo
      BY <2>1, <2>2 DEF IsQuery, Cached
  <2>4. new \notin ToSet(asked)
      BY <2>1, <2>3 DEF AskedInv, Answered
  <2>5. EachOnce(asked') /\ ToSet(asked') = ToSet(asked) \union {new}
      BY <2>1, <2>4, AppendEachOnce DEF AskedInv
  <2>6. \/ DOMAIN memo' = DOMAIN memo \union {CacheKey(Subject)}
        \/ memo' = memo /\ asking' = Tail(asking)
      BY <1>1, AskFacts, RememberFacts
  <2>7. ToSet(Tail(asking)) = ToSet(asking) \ {Head(asking)}
      BY <2>1, <2>2, TailEachOnce DEF AskingInv, AsksFor
  <2>8. ASSUME NEW e \in ToSet(asked) \union {new} PROVE Answered(e)'
    <3>1. CASE DOMAIN memo' = DOMAIN memo \union {CacheKey(Subject)}
        BY <2>1, <2>3, <3>1 DEF Answered, AskedInv
    <3>2. CASE memo' = memo /\ asking' = Tail(asking)
      <4>1. Cached(Subject)' = Cached(Subject)
          BY <2>2, <3>2 DEF Cached
      <4>2. CASE e = new
          BY <2>2, <2>3, <2>7, <3>2, <4>1, <4>2 DEF Answered
      <4>3. CASE e \in ToSet(asked)
          BY <2>1, <2>2, <2>7, <3>2, <4>1, <4>3 DEF Answered, AskedInv
      <4> QED
          BY <4>2, <4>3
    <3> QED
        BY <2>6, <3>1, <3>2
  <2> QED
      BY <2>5, <2>8 DEF AskedInv
<1>2. CASE Asks /\ Miss
  <2>1. DOMAIN memo' = DOMAIN memo \union {CacheKey(Subject)} /\ UNCHANGED <<asked, links>>
      BY <1>2, MissFacts, RememberFacts
  <2>2. ASSUME NEW e \in ToSet(asked) PROVE Answered(e)'
      BY <2>1 DEF AskedInv, Answered
  <2> QED
      BY <2>1, <2>2 DEF AskedInv
<1>3. CASE Turns
  <2>1. \A e \in ToSet(asked) : (e[2].kind = "edge" /\ e[1] \in DOMAIN links)
                               \/ (e[2].kind # "edge" /\ e[1] \in DOMAIN memo)
      BY <1>3 DEF AskedInv, Answered, Turns
  <2> QED
      BY <1>3, <2>1 DEF AskedInv, Answered, Turns
<1>4. CASE Links
  <2> DEFINE new == <<Link, EdgeQuery>>
  <2>1. AskEdge /\ asked' = Append(asked, new) /\ memo' = memo /\ ~Looking
      BY <1>4 DEF Links, AskEdge, EdgeQuery
  <2>2. DOMAIN links' = DOMAIN links \union {Link} /\ Link \notin DOMAIN links
      BY <2>1, LinkFacts
  <2>3. new \notin ToSet(asked)
      BY <2>1, <2>2 DEF AskedInv, Answered, EdgeQuery
  <2>4. EachOnce(asked') /\ ToSet(asked') = ToSet(asked) \union {new}
      BY <2>1, <2>3, AppendEachOnce DEF AskedInv
  <2>5. ASSUME NEW e \in ToSet(asked) \union {new} PROVE Answered(e)'
    <3>1. CASE e = new
        BY <2>2, <3>1 DEF Answered, EdgeQuery
    <3>2. CASE e \in ToSet(asked)
        BY <2>1, <2>2, <3>2 DEF AskedInv, Answered
    <3> QED
        BY <3>1, <3>2
  <2> QED
      BY <2>4, <2>5 DEF AskedInv
<1>5. CASE Change \/ UNCHANGED vars
    BY <1>5 DEF Change, vars, AskedInv, Answered, Looking, Cached, Subject, Cand
<1> QED
    BY <1>1, <1>2, <1>3, <1>4, <1>5, StepKinds

\* The lookup: no query is asked twice for one end and no relationship twice
\* for one pair, whatever failed or was missed before.
THEOREM AskedOnce == Spec => []NothingAskedTwice
<1>1. PlaceInv /\ AskingInv /\ AskedInv /\ [Next]_vars => (PlaceInv /\ AskingInv /\ AskedInv)'
    BY StepKinds, AskingStep, AskedStep
<1>2. AskedInv => NothingAskedTwice
    BY DEF AskedInv, NothingAskedTwice, EachOnce
<1> QED
    BY LookupInit, AskedInit, <1>1, <1>2, PTL DEF Spec

---------------------------------------------------------------------------
(* What is taken is there and is unambiguous *)

LEMMA TakenStep ==
    ASSUME PlaceInv, AskingInv, [Next]_vars,
           NEW k \in DOMAIN memo' \ DOMAIN memo, memo'[k] # NoMatch
    PROVE  \E c \in Ends :
              /\ CacheKey(c) = k /\ memo'[k] \in objects
              /\ Chosen(memo'[k], Last(asked')[2], c)
<1>1. Asks /\ Ask
  <2>1. Turns => memo' = memo
      BY DEF Turns
  <2>2. Links => memo' = memo
      BY LinkFacts DEF Links
  <2>3. ~(Asks /\ Miss)
      BY MissFacts, RememberFacts
  <2> QED
      BY StepKinds, <2>1, <2>2, <2>3 DEF Change, vars
<1>2. Last(asked')[2] = Head(asking) /\ IsQuery(Head(asking), Subject)
    BY <1>1, AskFacts DEF Last
<1>3. PICK found \in Answers(Head(asking), Subject, objects) :
            \E o \in found : Remember(Subject, o)
    BY <1>1, AskFacts
<1>4. PICK o \in found : Remember(Subject, o)
    BY <1>3
<1>5. k = CacheKey(Subject) /\ memo'[k] = o
    BY <1>4, RememberFacts
<1>6. o \in objects /\ Chosen(o, Head(asking), Subject)
    BY <1>2, AnswersFit
<1>7. Subject \in Ends
    BY <1>1, SubjectIsEnd DEF Asks, Looking
<1> QED
    BY <1>2, <1>5, <1>6, <1>7

\* The lookup: what a candidate is taken for is in OpenCTI at that moment and
\* is decided by an id, a name, the preferred name or the only alias.
THEOREM TakenFits == Spec => TakenIsTheOne
<1>1. PlaceInv /\ AskingInv /\ [Next]_vars => (PlaceInv /\ AskingInv)'
    BY StepKinds, AskingStep
<1>2. PlaceInv /\ AskingInv /\ [Next]_vars =>
        [\A k \in DOMAIN memo' \ DOMAIN memo :
          memo'[k] # NoMatch =>
             \E c \in Ends :
                /\ CacheKey(c) = k /\ memo'[k] \in objects
                /\ \/ FitsById(memo'[k], c) \/ FitsByName(memo'[k], c)
                   \/ /\ FitsByAlias(memo'[k], c)
                      /\ \/ \E g \in Groups(c) : memo'[k].name = g.preferred
                         \/ \E page \in Pages(Last(asked')[2], objects) :
                              Fitting(c, page) = {memo'[k]}]_vars
    BY TakenStep DEF Chosen
<1> QED
    BY LookupInit, <1>1, <1>2, PTL DEF Spec, TakenIsTheOne

---------------------------------------------------------------------------
(* A relationship is called known only if OpenCTI has it *)

\* While OpenCTI does not change, what the caches hold is in it.
MemoFits ==
    \A k \in DOMAIN memo : memo[k] # NoMatch =>
        memo[k] \in objects /\ \E d \in Ends : CacheKey(d) = k /\ Fits(memo[k], d)
LinksExist == \A l \in DOMAIN links : links[l] => l \in edges
EdgeEnds == phase = "edge" => /\ Cached(Cand) /\ Match(Cand) # NoMatch
                              /\ Cached(SourceOf(Cand)) /\ Match(SourceOf(Cand)) # NoMatch
TargetFound == phase = "source" => Cached(Cand) /\ Match(Cand) # NoMatch

RelExists(r) ==
    \E j \in DOMAIN plan : \E s, t \in objects :
        /\ plan[j].rel = r
        /\ FitsKey(s, SourceOf(plan[j].cand)) /\ FitsKey(t, plan[j].cand)
        /\ <<s.id, plan[j].cand.relType, t.id>> \in edges

ExistsInv == /\ EdgeEnds /\ TargetFound /\ changes \in Nat
             /\ changes = 0 => MemoFits /\ LinksExist /\ \A r \in known.rels : RelExists(r)

LEMMA ExistsInit == Init => ExistsInv
BY DEF Init, ExistsInv, EdgeEnds, TargetFound, MemoFits, LinksExist, Begin

\* What is remembered stays as it is.
LEMMA MemoKept ==
    ASSUME PlaceInv, AskingInv, [Next]_vars
    PROVE  \A k \in DOMAIN memo : k \in DOMAIN memo' /\ memo'[k] = memo[k]
<1>1. CASE Asks /\ Ask
  <2>1. memo' = memo \/ \E o : Remember(Subject, o)
      BY <1>1, AskFacts
  <2>2. CacheKey(Subject) \notin DOMAIN memo
      BY <1>1 DEF Asks, Cached
  <2> QED
      BY <2>1, <2>2, RememberFacts
<1>2. CASE Asks /\ Miss
  <2>1. Remember(Subject, NoMatch) /\ CacheKey(Subject) \notin DOMAIN memo
      BY <1>2, MissFacts DEF Asks, Cached
  <2> QED
      BY <2>1, RememberFacts
<1>3. CASE Turns
    BY <1>3 DEF Turns
<1>4. CASE Links
    BY <1>4, LinkFacts DEF Links
<1>5. CASE Change \/ UNCHANGED vars
    BY <1>5 DEF Change, vars
<1> QED
    BY <1>1, <1>2, <1>3, <1>4, <1>5, StepKinds

LEMMA EndsFoundStep ==
    PlaceInv /\ AskingInv /\ EdgeEnds /\ TargetFound /\ [Next]_vars => (EdgeEnds /\ TargetFound)'
<1> SUFFICES ASSUME PlaceInv, AskingInv, EdgeEnds, TargetFound, [Next]_vars
             PROVE  (EdgeEnds /\ TargetFound)'
    OBVIOUS
<1>1. \A k \in DOMAIN memo : k \in DOMAIN memo' /\ memo'[k] = memo[k]
    BY MemoKept
<1>2. CASE UNCHANGED <<plan, at, phase>>
    BY <1>1, <1>2 DEF EdgeEnds, TargetFound, Cached, Match, Cand
<1>3. CASE TargetDone \/ SourceDone \/ EdgeDone
  <2>1. phase # "done" /\ plan' = plan
      BY <1>3 DEF TargetDone, SourceDone, EdgeDone
  <2>2. CASE NextAction
    <3>1. phase' \in {"target", "done"}
        BY <2>1, <2>2, NextPlace
    <3> QED
        BY <3>1 DEF EdgeEnds, TargetFound
  <2>3. CASE TargetDone /\ ~NextAction
      BY <1>1, <2>3 DEF TargetDone, EdgeEnds, TargetFound, Goto, Cached, Match, Cand
  <2>4. CASE SourceDone /\ ~NextAction
      BY <1>1, <2>4 DEF SourceDone, EdgeEnds, TargetFound, Goto, Cached, Match, Cand
  <2> QED
      BY <1>3, <2>2, <2>3, <2>4 DEF EdgeDone
<1> QED
    BY <1>2, <1>3, StepKinds DEF Ask, Miss, Links, AskEdge, Change, vars

\* The relationship of the action is where both caches say it is.
LEMMA EdgeExists ==
    ASSUME PlaceInv, EdgeEnds, MemoFits, LinksExist, phase = "edge",
           Link \in DOMAIN links, links[Link]
    PROVE  RelExists(plan[at].rel)
<1> DEFINE s == Match(SourceOf(Cand))  t == Match(Cand)
<1>1. s \in objects /\ FitsKey(s, SourceOf(Cand))
    BY DEF EdgeEnds, MemoFits, Match, Cached, FitsKey
<1>2. t \in objects /\ FitsKey(t, Cand)
    BY DEF EdgeEnds, MemoFits, Match, Cached, FitsKey
<1>3. <<s.id, Cand.relType, t.id>> \in edges
    BY DEF LinksExist, Link
<1>4. at \in DOMAIN plan
    BY SubjectIsEnd
<1> QED
    BY <1>1, <1>2, <1>3, <1>4 DEF RelExists, Cand

LEMMA MemoFitsStep ==
    ASSUME PlaceInv, AskingInv, MemoFits, [Next]_vars, objects' = objects
    PROVE  MemoFits'
<1>1. Ends' = Ends
    BY StepKinds DEF Ends, Ask, Miss, TargetDone, SourceDone, EdgeDone, Links, AskEdge,
                     Change, vars
<1>2. \A k \in DOMAIN memo : k \in DOMAIN memo' /\ memo'[k] = memo[k]
    BY MemoKept
<1>3. \A k \in DOMAIN memo' \ DOMAIN memo : memo'[k] # NoMatch =>
         \E c \in Ends : CacheKey(c) = k /\ memo'[k] \in objects /\ Fits(memo'[k], c)
    BY TakenStep DEF Chosen, Fits
<1> QED
    BY <1>1, <1>2, <1>3 DEF MemoFits

LEMMA ExistsStep ==
    PlaceInv /\ AskingInv /\ ExistsInv /\ [Next]_vars => ExistsInv'
<1> SUFFICES ASSUME PlaceInv, AskingInv, ExistsInv, [Next]_vars PROVE ExistsInv'
    OBVIOUS
<1>1. (EdgeEnds /\ TargetFound)'
    BY EndsFoundStep DEF ExistsInv
<1>2. changes' \in Nat /\ (changes' = 0 => changes = 0 /\ UNCHANGED <<objects, edges>>)
  <2>1. CASE Change
      BY <2>1 DEF Change, ExistsInv
  <2>2. CASE UNCHANGED <<objects, edges, changes>>
      BY <2>2 DEF ExistsInv
  <2> QED
      BY <2>1, <2>2, StepKinds DEF Ask, Miss, Turns, Links, AskEdge, vars
<1>3. plan' = plan
    BY StepKinds DEF Ask, Miss, TargetDone, SourceDone, EdgeDone, Links, AskEdge, Change, vars
<1>4. ASSUME changes' = 0 PROVE (MemoFits /\ LinksExist /\ \A r \in known.rels : RelExists(r))'
  <2>0. /\ UNCHANGED <<objects, edges, plan>> /\ MemoFits /\ LinksExist
        /\ \A r \in known.rels : RelExists(r)
      BY <1>2, <1>3, <1>4 DEF ExistsInv
  <2>1. MemoFits'
      BY <2>0, MemoFitsStep
  <2>2. LinksExist'
    <3>1. CASE Links
        BY <3>1, <2>0, LinkFacts DEF Links, LinksExist
    <3>2. CASE links' = links
        BY <3>2, <2>0 DEF LinksExist
    <3> QED
        BY <3>1, <3>2, StepKinds DEF Ask, Miss, Turns, Change, vars
  <2>3. \A r : RelExists(r)' <=> RelExists(r)
      BY <2>0 DEF RelExists, FitsKey, Ends
  <2>4. \A r \in known'.rels : RelExists(r)
    <3>1. CASE TargetDone \/ SourceDone \/ EdgeDone
      <4>1. \/ known'.rels = known.rels
            \/ /\ known'.rels = known.rels \union {plan[at].rel}
               /\ phase = "edge" /\ Link \in DOMAIN links /\ links[Link]
          BY <3>1, KnownFacts
      <4> QED
          BY <4>1, <2>0, EdgeExists DEF ExistsInv
    <3>2. CASE known' = known
        BY <3>2, <2>0
    <3> QED
        BY <3>1, <3>2, StepKinds DEF Ask, Miss, Links, Change, vars
  <2> QED
      BY <2>1, <2>2, <2>3, <2>4
<1> QED
    BY <1>1, <1>2, <1>4 DEF ExistsInv

\* The lookup: a relationship is called known only if OpenCTI has it, with its
\* type and direction, between objects that fit its two ends.
THEOREM KnownIsThere == Spec => []KnownRelationshipExists
<1>1. PlaceInv /\ AskingInv /\ ExistsInv /\ [Next]_vars => (PlaceInv /\ AskingInv /\ ExistsInv)'
    BY StepKinds, AskingStep, ExistsStep
<1>2. ExistsInv => KnownRelationshipExists
    BY DEF ExistsInv, KnownRelationshipExists, RelExists
<1> QED
    BY LookupInit, ExistsInit, <1>1, <1>2, PTL DEF Spec

---------------------------------------------------------------------------
(* What OpenCTI has is found *)

NothingFor(q, c) == {} \in Answers(q, c, objects)

\* While no query fails and nothing changes, a miss means that every query of
\* some end with that key had no answer.
MissesAreMisses ==
    \A k \in DOMAIN memo : memo[k] = NoMatch =>
        \E d \in Ends : /\ CacheKey(d) = k /\ WellNamed(d)
                       /\ \A q \in ToSet(Queries(d)) : NothingFor(q, d)
AskedInVain ==
    Looking /\ ~Cached(Subject) =>
        \A q \in ToSet(Queries(Subject)) : q \in ToSet(asking) \/ NothingFor(q, Subject)
\* An action that is behind is known or was missed.
PassedInv ==
    \A i \in DOMAIN plan : i < at =>
        \/ plan[i].key \in known.ents
        \/ Cached(plan[i].cand) /\ Match(plan[i].cand) = NoMatch

FoundInv == failures = 0 /\ changes = 0 => MissesAreMisses /\ AskedInVain

LEMMA PassedStep ==
    PlaceInv /\ AskingInv /\ PassedInv /\ [Next]_vars => PassedInv'
<1> SUFFICES ASSUME PlaceInv, AskingInv, PassedInv, [Next]_vars PROVE PassedInv'
    OBVIOUS
<1>1. \A k \in DOMAIN memo : k \in DOMAIN memo' /\ memo'[k] = memo[k]
    BY MemoKept
<1>2. CASE UNCHANGED <<plan, at, known>>
    BY <1>1, <1>2 DEF PassedInv, Cached, Match
<1>3. CASE TargetDone \/ SourceDone \/ EdgeDone
  <2>1. /\ plan' = plan /\ known.ents \subseteq known'.ents /\ at \in Nat
        /\ at \in DOMAIN plan /\ phase # "done"
    <3>1. plan' = plan /\ known.ents \subseteq known'.ents /\ at \in DOMAIN plan /\ phase # "done"
        BY <1>3, KnownFacts
    <3>2. at \in Nat
        BY PlanFacts DEF PlaceInv
    <3> QED
        BY <3>1, <3>2
  <2>2. CASE at' = at
      BY <1>1, <2>1, <2>2 DEF PassedInv, Cached, Match
  <2>3. CASE at' = at + 1 /\ (plan[at].key \in known'.ents
                              \/ (Cached(Cand) /\ Match(Cand) = NoMatch))
    <3>1. \A i \in DOMAIN plan : i < at' => i < at \/ i = at
        BY <2>1, <2>3, PlanFacts DEF PlaceInv
    <3> QED
        BY <1>1, <2>1, <2>3, <3>1 DEF PassedInv, Cached, Match, Cand
  <2>4. NextAction => at' = at + 1
      BY DEF NextAction
  <2>5. \A w \in BOOLEAN : Known(w) => plan[at].key \in known'.ents
      BY KnownGrows
  <2>6. CASE TargetDone
      BY <2>2, <2>3, <2>4, <2>5, <2>6 DEF TargetDone
  <2>7. CASE SourceDone
      BY <2>2, <2>3, <2>4, <2>5, <2>7 DEF SourceDone
  <2>8. CASE EdgeDone
    <3>1. NextAction /\ Known(links[Link])
        BY <2>8 DEF EdgeDone
    <3>2. plan[at].key \in known'.ents
        BY <3>1, KnownGrows
    <3> QED
        BY <2>3, <2>4, <3>1, <3>2
  <2> QED
      BY <1>3, <2>6, <2>7, <2>8
<1> QED
    BY <1>2, <1>3, StepKinds DEF Asks, Ask, Miss, Links, AskEdge, Change, vars

\* Every object has an id.
LEMMA IdsGiven == \A o \in ObjectPool : o.id # ""
BY LookupAssumption

LEMMA FoundStep ==
    PlaceInv /\ AskingInv /\ ValueInv /\ FoundInv /\ [Next]_vars => FoundInv'
<1> SUFFICES ASSUME PlaceInv, AskingInv, ValueInv, FoundInv, [Next]_vars,
                    failures' = 0, changes' = 0
             PROVE  (MissesAreMisses /\ AskedInVain)'
    BY DEF FoundInv
<1>1. ~Change /\ (failures' = failures \/ failures' = failures + 1)
      /\ UNCHANGED <<objects, plan, changes>>
  <2>1. ~Change
      BY Bounds DEF Change, ValueInv
  <2> QED
      BY <2>1, StepKinds DEF Ask, Miss, TargetDone, SourceDone, EdgeDone, Links, AskEdge, vars
<1>2. failures = 0 /\ changes = 0 /\ failures' = failures
    BY <1>1, Bounds DEF ValueInv
<1>3. MissesAreMisses /\ AskedInVain
    BY <1>2 DEF FoundInv
<1>4. /\ \A q, c : NothingFor(q, c)' <=> NothingFor(q, c)
      /\ Ends' = Ends
    BY <1>1 DEF NothingFor, Ends
<1>5. CASE memo' = memo
  <2>1. MissesAreMisses'
      BY <1>3, <1>4, <1>5 DEF MissesAreMisses
  <2>2. CASE Asks /\ Ask
    <3>1. Head(asking) \in ToSet(asking) /\ Subject' = Subject /\ Looking /\ ~Cached(Subject)
        BY <2>2, AskFacts DEF Asks
    <3>2. asking' = Tail(asking) /\ {} \in Answers(Head(asking), Subject, objects)
      <4>1. \A o : ~Remember(Subject, o)
          BY <1>5, <3>1, RememberFacts DEF Cached
      <4>2. failures' # failures + 1
          BY <1>2
      <4> QED
          BY <2>2, <4>1, <4>2, AskFacts
    <3>3. ToSet(Tail(asking)) = ToSet(asking) \ {Head(asking)}
        BY <2>2, <3>1, AskFacts, TailEachOnce DEF AskingInv, AsksFor
    <3>4. \A q \in ToSet(Queries(Subject)) : q \in ToSet(asking') \/ NothingFor(q, Subject)
        BY <1>3, <3>1, <3>2, <3>3 DEF AskedInVain, NothingFor
    <3> QED
        BY <1>4, <2>1, <3>1, <3>4 DEF AskedInVain
  <2>3. CASE Asks /\ Miss
      BY <1>5, <2>3, MissFacts, RememberFacts DEF Asks, Cached
  <2>4. CASE Turns
      BY <1>4, <2>1, <2>4 DEF Turns, AskedInVain
  <2>5. CASE Links
      BY <2>1, <2>5 DEF Links, AskedInVain
  <2>6. CASE UNCHANGED vars
    <3>1. UNCHANGED <<Looking, Cached(Subject), Subject, asking>>
        BY <2>6 DEF vars, Looking, Cached, Subject, Cand
    <3> QED
        BY <1>3, <1>4, <2>1, <3>1 DEF AskedInVain
  <2> QED
      BY <1>1, <2>2, <2>3, <2>4, <2>5, <2>6, StepKinds
<1>6. CASE memo' # memo
  <2>1. Asks /\ (Ask \/ Miss)
      BY <1>1, <1>6, StepKinds, LinkFacts DEF Turns, Links, vars
  <2>2. Subject' = Subject /\ Looking /\ ~Cached(Subject) /\ Subject \in Ends /\ WellNamed(Subject)
      BY <2>1, SubjectIsEnd DEF Asks, Looking
  <2>3. PICK o : Remember(Subject, o) /\ ( \/ o # NoMatch
                                         \/ \A q \in ToSet(Queries(Subject)) : NothingFor(q, Subject) )
    <3>1. CASE Ask
      <4>1. PICK found \in Answers(Head(asking), Subject, objects) :
                \E o \in found : Remember(Subject, o)
          BY <1>6, <2>1, <3>1, AskFacts
      <4>2. PICK o \in found : Remember(Subject, o)
          BY <4>1
      <4>3. o \in ObjectPool
          BY <2>1, <3>1, AskFacts, AnswersFit DEF ValueInv
      <4>4. o.id # "" /\ NoMatch.id = ""
          BY <4>3, IdsGiven DEF NoMatch
      <4>5. o # NoMatch
          BY <4>4
      <4> QED
          BY <4>2, <4>5
    <3>2. CASE Miss
      <4>1. Remember(Subject, NoMatch) /\ ToSet(asking) = {}
          BY <2>1, <3>2, MissFacts, NoQuery
      <4> QED
          BY <1>3, <2>2, <4>1 DEF AskedInVain
    <3> QED
        BY <2>1, <3>1, <3>2
  <2>4. /\ DOMAIN memo' = DOMAIN memo \union {CacheKey(Subject)} /\ memo'[CacheKey(Subject)] = o
        /\ \A k \in DOMAIN memo : memo'[k] = memo[k]
      BY <2>2, <2>3, RememberFacts DEF Cached
  <2>5. MissesAreMisses'
      BY <1>3, <1>4, <2>2, <2>3, <2>4 DEF MissesAreMisses
  <2>6. AskedInVain'
      BY <2>2, <2>4 DEF AskedInVain, Cached
  <2> QED
      BY <2>5, <2>6
<1> QED
    BY <1>5, <1>6

LEMMA FoundInit == Init => PassedInv /\ FoundInv
<1> SUFFICES ASSUME Init PROVE PassedInv /\ FoundInv
    OBVIOUS
<1>1. MissesAreMisses
    BY DEF Init, MissesAreMisses
<1>2. Looking => asking = Queries(Subject)
  <2>1. Len(plan) \in Nat /\ at = 1
      BY PlanFacts DEF Init
  <2> QED
      BY <2>1 DEF Init, Begin, Looking, Subject, Cand
<1>3. AskedInVain
    BY <1>2 DEF AskedInVain
<1>4. \A i \in DOMAIN plan : ~(i < at)
    BY PlanFacts DEF Init
<1> QED
    BY <1>1, <1>3, <1>4 DEF PassedInv, FoundInv

LEMMA FoundIsKnown ==
    ASSUME PlaceInv, ValueInv, PassedInv, FoundInv
    PROVE  PresentIsKnown
<1> SUFFICES ASSUME phase = "done", changes = 0, failures = 0,
                    NEW i \in DOMAIN plan,
                    NEW o \in objects,
                    o.coll = Collection(plan[i].cand), o.name = plan[i].cand.name,
                    \A d \in Ends : CacheKey(d) = CacheKey(plan[i].cand) =>
                        /\ SearchedByName(d) /\ d.name = plan[i].cand.name
                        /\ Collection(d) = Collection(plan[i].cand),
                    plan[i].key \notin known.ents
             PROVE  FALSE
    BY DEF PresentIsKnown
<1> DEFINE c == plan[i].cand
<1>1. i < at
    BY PlanFacts DEF PlaceInv
<1>2. Cached(c) /\ Match(c) = NoMatch
    BY <1>1 DEF PassedInv
<1>3. PICK d \in Ends : /\ CacheKey(d) = CacheKey(c) /\ WellNamed(d)
                       /\ \A q \in ToSet(Queries(d)) : NothingFor(q, d)
    BY <1>2 DEF FoundInv, MissesAreMisses, Cached, Match
<1>4. SearchedByName(d) /\ d.name = c.name /\ Collection(d) = o.coll /\ o.coll # ""
    BY <1>3, LookupAssumption DEF ValueInv
<1> DEFINE q == Query("name", d, d.name)
<1>5. NothingFor(q, d)
    BY <1>3, <1>4, NameIsAsked
<1>6. Hits(q, objects) = {}
    BY <1>5 DEF NothingFor, Answers, Query
<1>7. o \in Hits(q, objects)
    BY <1>4 DEF Hits, Query
<1> QED
    BY <1>6, <1>7

\* The lookup: while no query fails, what OpenCTI holds under the name of a
\* candidate is known at the end of the plan.
THEOREM PresentIsFound == Spec => []PresentIsKnown
<1> DEFINE Inv == PlaceInv /\ AskingInv /\ ValueInv /\ PassedInv /\ FoundInv
<1>1. Init => Inv
    BY LookupInit, FoundInit
<1>2. Inv /\ [Next]_vars => Inv'
    BY StepKinds, AskingStep, ValueStep, PassedStep, FoundStep
<1>3. Inv => PresentIsKnown
    BY FoundIsKnown
<1> QED
    BY <1>1, <1>2, <1>3, PTL DEF Spec

=============================================================================
