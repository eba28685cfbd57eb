------------------------- MODULE GraphExportProofs -------------------------
(***************************************************************************)
(* What the export files and OpenCTI's descriptions keep, for any items,   *)
(* evidence, installations, failures and analysts.                         *)
(***************************************************************************)
EXTENDS GraphExport, ListProofs, TLAPS

\* The relationship keys of a sequence of candidates, and of a plan.
RelsOf(s) == {RelationshipKey(c) : c \in ToSet(s)}

\* Every action of a plan stands for a candidate.
LEMMA PlanNamesCandidates ==
    ASSUME NEW s, NEW known
    PROVE  \A a \in ToSet(PlanActions(s, known)) : a.rel \in RelsOf(s)
BY DEF PlanActions, ToSet, RelsOf

LEMMA MarkedIsPlanned ==
    ASSUME NEW s, NEW idx
    PROVE  Marked(idx, PlanActions(s, NothingKnown)).rels \subseteq idx.rels \union RelsOf(s)
<1> DEFINE plan == PlanActions(s, NothingKnown)
<1>1. \A a \in ToSet(plan) : a.rel \in RelsOf(s)
    BY PlanNamesCandidates
<1> HIDE DEF plan
<1>2. {a.rel : a \in {a \in ToSet(plan) : a.action = "exported"}} \subseteq RelsOf(s)
    BY <1>1
<1>3. Marked(idx, plan).rels =
          idx.rels \union {a.rel : a \in {a \in ToSet(plan) : a.action = "exported"}}
    BY DEF Marked
<1> QED
    BY <1>2, <1>3 DEF plan

---------------------------------------------------------------------------
(* Records and candidates *)

\* All that the policy accepts of any item.
AllAccepted == UNION {ToSet(Accepts[i]) : i \in Items}

\* c has the fields of a record, and those of d but for what OpenCTI has.
IsRecord(c) == c = [f \in RecordFields |-> c[f]]
Alike(c, d) == IsRecord(c) /\ \A f \in RecordFields \ {"existing"} : c[f] = d[f]

\* The fields that candidates of the same content share.
LEMMA AlikeFields ==
    ASSUME NEW c, NEW d, Alike(c, d)
    PROVE  /\ c.source = d.source /\ c.item = d.item /\ c.ent = d.ent /\ c.type = d.type
           /\ c.val = d.val /\ c.rel = d.rel /\ c.anchor = d.anchor /\ c.number = d.number
           /\ c.place = d.place /\ c.obs = d.obs /\ c.hash = d.hash
           /\ c.pattern = d.pattern /\ c.compat = d.compat /\ c.wellformed = d.wellformed
BY DEF Alike, RecordFields

LEMMA AlikeKeys ==
    ASSUME NEW c, NEW d, Alike(c, d)
    PROVE  /\ EntityKey(c) = EntityKey(d) /\ RelationshipKey(c) = RelationshipKey(d)
           /\ RefPrefixes(c) = RefPrefixes(d)
BY AlikeFields DEF EntityKey, RelationshipKey, RefPrefixes

\* What the object of a candidate depends on.
LEMMA ObjectByFields ==
    ASSUME NEW c, NEW d,
           c.ent = d.ent, c.type = d.type, c.val = d.val, c.number = d.number,
           c.place = d.place, c.obs = d.obs, c.hash = d.hash, c.pattern = d.pattern,
           c.compat = d.compat, c.wellformed = d.wellformed
    PROVE  /\ EntityKey(c) = EntityKey(d)
           /\ ObjectRef(c) = ObjectRef(d) /\ Builds(c) = Builds(d)
<1>1. ObjectType(c) = ObjectType(d)
    BY DEF ObjectType, RuleType
<1>2. ObjectRef(c) = ObjectRef(d)
    BY <1>1 DEF ObjectRef, ObjectPrefix, IdDetail, IdentityClass
<1>3. Builds(c) = Builds(d)
    BY <1>1 DEF Builds, ObservableBuilds, LocationBuilds
<1>4. EntityKey(c) = EntityKey(d)
    BY DEF EntityKey
<1> QED
    BY <1>2, <1>3, <1>4

LEMMA AlikeObjects ==
    ASSUME NEW c, NEW d, Alike(c, d)
    PROVE  ObjectRef(c) = ObjectRef(d) /\ Builds(c) = Builds(d)
BY AlikeFields, ObjectByFields

\* What a candidate of an item is: the candidate of a record the policy
\* accepts, with the record's entity and object.
LEMMA AcceptedIsRecord ==
    ASSUME NEW i \in Items, NEW d \in ToSet(Accepts[i])
    PROVE  \E r \in ToSet(Evidence[i]) :
              IsRecord(r) /\ d = Candidate(r) /\ IsRecord(d) /\ IsAccepted(d)
<1>1. Accepts[i] = Accepted(Evidence[i])
    BY DEF Accepts
<1>2. PICK p \in DOMAIN Evidence[i] : d = Candidate(Evidence[i][p]) /\ IsAccepted(d)
    BY <1>1 DEF Accepted, Passed, Candidates, ToSet
<1>3. Evidence[i][p] \in ToSet(Evidence[i])
    BY <1>2 DEF ToSet
<1>4. IsRecord(Evidence[i][p])
    BY <1>3, ExportAssumption DEF IsRecord
<1>5. IsRecord(d)
    BY <1>2, <1>4, ZenonT(60) DEF IsRecord, Candidate, RecordFields
<1> QED
    BY <1>2, <1>3, <1>4, <1>5

LEMMA CandidateFields ==
    ASSUME NEW r, IsRecord(r)
    PROVE  LET d == Candidate(r) IN
           /\ d.ent = r.ent /\ d.type = r.type /\ d.val = r.val /\ d.number = r.number
           /\ d.place = r.place /\ d.obs = r.obs /\ d.hash = r.hash
           /\ d.pattern = r.pattern /\ d.compat = r.compat /\ d.wellformed = r.wellformed
           /\ d.validate = r.validate /\ d.victim = r.victim
BY DEF IsRecord, Candidate, RecordFields

LEMMA CandidateObject ==
    ASSUME NEW r, IsRecord(r)
    PROVE  /\ EntityKey(Candidate(r)) = EntityKey(r)
           /\ ObjectRef(Candidate(r)) = ObjectRef(r) /\ Builds(Candidate(r)) = Builds(r)
BY CandidateFields, ObjectByFields

\* The positions of what is accepted are those of a sequence of records.
LEMMA Positions ==
    ASSUME NEW i \in Items
    PROVE  \E n \in Nat : DOMAIN Accepts[i] \subseteq 1 .. n
<1>1. Evidence[i] \in Seq(ToSet(Evidence[i]))
    BY ExportAssumption
<1>2. DOMAIN Evidence[i] = 1 .. Len(Evidence[i]) /\ Len(Evidence[i]) \in Nat
    BY <1>1
<1>3. DOMAIN Accepts[i] \subseteq DOMAIN Evidence[i]
    BY DEF Accepts, Accepted, Candidates
<1> QED
    BY <1>2, <1>3

---------------------------------------------------------------------------
(* What is exportable *)

\* An action of the plan stands for one accepted candidate, with its keys.
LEMMA OneNamed ==
    ASSUME NEW i \in Items, NEW known, NEW p \in DOMAIN Accepts[i]
    PROVE  LET a == PlanActions(Accepts[i], known)[p] IN
           \E d \in ToSet(Accepts[i]) :
              /\ Named(a, Accepts[i]) = {d}
              /\ a.rel = RelationshipKey(d) /\ a.ent = EntityKey(d)
<1> DEFINE acc == Accepts[i]
           a == PlanActions(acc, known)[p]
           T == {q \in DOMAIN acc : Fingerprint(acc[q]) = a.fingerprint}
<1>1. /\ a.fingerprint = Fingerprint(acc[p])
      /\ a.rel = RelationshipKey(acc[p]) /\ a.ent = EntityKey(acc[p])
    BY DEF PlanActions
<1>2. PICK n \in Nat : DOMAIN acc \subseteq 1 .. n
    BY Positions
<1> HIDE DEF a, acc
<1>3. PICK m \in T : \A q \in T : q <= m
    BY <1>1, <1>2, GreatestOf DEF acc
<1>4. ASSUME NEW q \in T, \A j \in T : j <= q PROVE q = m
    BY <1>2, <1>3, <1>4
<1>5. Named(a, acc) = {acc[q] : q \in {q \in T : \A j \in T : j <= q}}
    BY DEF Named
<1>6. Named(a, acc) = {acc[m]}
    BY <1>3, <1>4, <1>5
<1>7. Fingerprint(acc[m]) = Fingerprint(acc[p])
    BY <1>1, <1>3
<1>8. RelationshipKey(acc[m]) = a.rel /\ EntityKey(acc[m]) = a.ent
    BY <1>1, <1>7 DEF Fingerprint, RelationshipKey, EntityKey
<1>9. acc[m] \in ToSet(acc)
    BY DEF ToSet
<1> QED
    BY <1>6, <1>8, <1>9 DEF a, acc

\* What is exportable of an item is accepted, not known as a relationship, and
\* known as an entity only with the object OpenCTI has for it.
Exported(c, d, known) ==
    /\ Alike(c, d) /\ RelationshipKey(d) \notin known.rels
    /\ EntityKey(d) \in known.ents =>
          c.existing = UsableRef(d, known) /\ c.existing # None
    /\ EntityKey(d) \notin known.ents => c.existing = None

LEMMA ExportableIsAccepted ==
    ASSUME NEW i \in Items, NEW known,
           NEW c \in ToSet(Exportable(Accepts[i], PlanActions(Accepts[i], known), known))
    PROVE  \E d \in ToSet(Accepts[i]) : Exported(c, d, known)
<1> DEFINE acc == Accepts[i]
           plan == PlanActions(acc, known)
           ref(d) == IF EntityKey(d) \in known.ents THEN UsableRef(d, known) ELSE None
<1>1. DOMAIN plan = DOMAIN acc
    BY DEF PlanActions
<1>2. PICK p \in DOMAIN acc : /\ IsExportable(plan[p], acc, known)
                              /\ c = CHOOSE x \in Annotated(plan[p], acc, known) : TRUE
  <2> DEFINE out == Exportable(acc, plan, known)
  <2>1. PICK p \in DOMAIN out : c = out[p]
      BY DEF ToSet
  <2>2. Mode = "export"
      BY <2>1 DEF Exportable
  <2>3. out = [q \in {q \in DOMAIN plan : IsExportable(plan[q], acc, known)} |->
                  CHOOSE x \in Annotated(plan[q], acc, known) : TRUE]
      BY <2>2 DEF Exportable
  <2> HIDE DEF out, plan, acc
  <2> QED
      BY <1>1, <2>1, <2>3
<1>3. PICK d \in ToSet(acc) : /\ Named(plan[p], acc) = {d}
                              /\ plan[p].rel = RelationshipKey(d)
                              /\ plan[p].ent = EntityKey(d)
    BY OneNamed
<1>4. c = [d EXCEPT !.existing = ref(d)]
    BY <1>2, <1>3 DEF Annotated
<1>5. IsRecord(d)
    BY AcceptedIsRecord
<1>6. Alike(c, d) /\ c.existing = ref(d)
    BY <1>4, <1>5 DEF Alike, IsRecord, RecordFields
<1>7. /\ RelationshipKey(d) \notin known.rels
      /\ EntityKey(d) \in known.ents => UsableRef(d, known) # None
    BY <1>2, <1>3 DEF IsExportable
<1> QED
    BY <1>6, <1>7 DEF Exported

---------------------------------------------------------------------------
(* The bundle *)

\* What no object of a candidate is.
Reserved == {Author, Report, None}

LEMMA BuiltIsOwn ==
    ASSUME NEW c, Builds(c)
    PROVE  ObjectRef(c) \notin Reserved
<1> DEFINE prefix == ObjectPrefix(c)
<1>1. prefix \in ObjectTypes \union Observables
    BY DEF Builds, ObservableBuilds, ObjectPrefix
<1>2. prefix # "" /\ prefix # "report"
    BY <1>1 DEF ObjectTypes, Observables, CustomTypes
<1>3. ObjectRef(c)[1] = prefix /\ ObjectRef(c)[2] = <<c.val, IdDetail(c)>>
    BY DEF ObjectRef
<1>4. prefix = "identity" => IdDetail(c) # ""
  <2>1. prefix = "identity" => ObjectType(c) = "identity"
      BY DEF ObjectPrefix, Builds, ObservableBuilds, Observables
  <2> QED
      BY <2>1 DEF IdDetail, IdentityClass
<1> HIDE DEF prefix
<1>5. ObjectRef(c) # Author
  <2>1. Author[1] = "identity" /\ Author[2] = <<"author", "">>
      BY DEF Author
  <2>2. <<c.val, IdDetail(c)>>[2] = IdDetail(c) /\ <<"author", "">>[2] = ""
      OBVIOUS
  <2> QED
      BY <1>3, <1>4, <2>1, <2>2
<1>6. ObjectRef(c) # Report /\ ObjectRef(c) # None
  <2>1. Report[1] = "report" /\ None[1] = ""
      BY DEF Report, None
  <2> QED
      BY <1>2, <1>3, <2>1
<1> QED
    BY <1>5, <1>6 DEF Reserved

\* The objects OpenCTI has for candidates are none of the item's own.
ForeignRefs(cs) == \A c \in ToSet(cs) : ExistingRef(c) \notin {Author, Report}

\* What a relationship of a bundle may name besides the author, the report and
\* the indicators.
Reach(cs) == Objects(cs) \union ({ExistingRef(c) : c \in ToSet(cs)} \ {None})

LEMMA RegisteredInReach ==
    ASSUME NEW cs, ForeignRefs(cs), NEW i \in Registered(cs)
    PROVE  RefOf(cs[i]) \in Reach(cs) \ Reserved
<1>1. i \in DOMAIN cs /\ cs[i] \in ToSet(cs) /\ Resolves(cs[i])
    BY DEF Registered, ToSet
<1>2. CASE ExistingRef(cs[i]) # None
    BY <1>1, <1>2 DEF RefOf, Reach, ForeignRefs, Reserved
<1>3. CASE ExistingRef(cs[i]) = None
  <2>1. Builds(cs[i]) /\ RefOf(cs[i]) = ObjectRef(cs[i])
      BY <1>1, <1>3 DEF Resolves, RefOf
  <2>2. ObjectRef(cs[i]) \in Objects(cs)
      BY <1>3 DEF Objects, Carried
  <2> QED
      BY <2>1, <2>2, BuiltIsOwn DEF Reach
<1> QED
    BY <1>2, <1>3

LEMMA ObjectInReach ==
    ASSUME NEW cs, ForeignRefs(cs), NEW key, ObjectOf(cs, key) # None
    PROVE  ObjectOf(cs, key) \in Reach(cs) \ Reserved
BY RegisteredInReach DEF ObjectOf

LEMMA AliasInReach ==
    ASSUME NEW cs, ForeignRefs(cs), DOMAIN cs \subseteq Nat,
           NEW uuid, AliasOf(cs, uuid) # None
    PROVE  AliasOf(cs, uuid) \in Reach(cs) \ Reserved
<1> DEFINE found == {i \in Registered(cs) : uuid \in cs[i].uuid}
<1>1. found # {} /\ found \subseteq Nat
    BY DEF AliasOf, Registered
<1>2. \E i \in found : \A j \in found : i <= j
    BY <1>1, LeastOf
<1>3. PICK i \in found : AliasOf(cs, uuid) = RefOf(cs[i])
    BY <1>1, <1>2 DEF AliasOf
<1> QED
    BY <1>3, RegisteredInReach

\* Every relationship leads from one end to another.
Ends(cs, inds) == Reach(cs) \union {IndicatorRef(v) : v \in inds} \union {Author, Report}

LEMMA EdgesBetweenEnds ==
    ASSUME NEW cs, ForeignRefs(cs), DOMAIN cs \subseteq Nat, NEW inds,
           NEW c \in ToSet(cs), NEW e \in CandidateEdges(c, cs, inds)
    PROVE  e.src \in Ends(cs, inds) /\ e.tgt \in Ends(cs, inds) /\ e.src # e.tgt
<1>1. CASE e \in ReferenceEdges(c, cs)
  <2> DEFINE s == AliasOf(cs, c.from)  t == AliasOf(cs, c.to)
  <2>1. s # None /\ t # None /\ s # t /\ e = Edge(s, c.rel, t)
      BY <1>1 DEF ReferenceEdges
  <2>2. s \in Reach(cs) /\ t \in Reach(cs)
      BY <2>1, AliasInReach
  <2> HIDE DEF s, t
  <2> QED
      BY <2>1, <2>2 DEF Edge, Ends
<1>2. CASE e \in SightingEdges(c, cs, inds)
  <2> DEFINE t == SightingTarget(c, cs, inds)
  <2>1. e = Edge(Author, "sighting", t) /\ t[1] \in SightedTypes
      BY <1>2 DEF SightingEdges
  <2>2. t # None
    <3> HIDE DEF t
    <3>1. None[1] = "" /\ "" \notin SightedTypes
        BY DEF None, SightedTypes
    <3> QED
        BY <2>1, <3>1
  <2>3. t \in {IndicatorRef(v) : v \in inds} \union (Reach(cs) \ Reserved)
    <3> DEFINE key == <<"indicator", c.val>>
    <3>1. CASE c.val \in inds
        BY <3>1 DEF SightingTarget
    <3>2. CASE c.val \notin inds /\ ObjectOf(cs, key) # None
      <4>1. t = ObjectOf(cs, key)
          BY <3>2 DEF SightingTarget
      <4> HIDE DEF t, key
      <4> QED
          BY <4>1, <3>2, ObjectInReach
    <3>3. CASE c.val \notin inds /\ ObjectOf(cs, key) = None
      <4>1. t = AliasOf(cs, c.to)
          BY <3>3 DEF SightingTarget
      <4> HIDE DEF t
      <4> QED
          BY <4>1, <2>2, AliasInReach
    <3> HIDE DEF t, key
    <3> QED
        BY <3>1, <3>2, <3>3
  <2>4. \A v \in inds : IndicatorRef(v) # Author
    <3>1. Author[1] = "identity" /\ \A v \in inds : IndicatorRef(v)[1] = "indicator"
        BY DEF IndicatorRef, Author
    <3> QED
        BY <3>1
  <2> HIDE DEF t
  <2> QED
      BY <2>1, <2>3, <2>4 DEF Edge, Ends, Reserved
<1>3. CASE e \in EntityEdges(c, cs)
  <2> DEFINE t == ObjectOf(cs, EntityKey(c))
             s == IF HasAnchor(c) THEN ObjectOf(cs, c.anchor) ELSE None
  <2>1. /\ t # None
        /\ \/ s # None /\ s # t /\ e = SemanticEdge(c, s, t)
           \/ e = ContextEdge(c, t)
      BY <1>3 DEF EntityEdges
  <2>2. t \in Reach(cs) \ Reserved /\ (s # None => s \in Reach(cs) \ Reserved)
      BY <2>1, ObjectInReach
  <2> HIDE DEF s, t
  <2>3. CASE s # None /\ s # t /\ e = SemanticEdge(c, s, t)
      BY <2>2, <2>3 DEF SemanticEdge, Edge, Ends
  <2>4. CASE e = ContextEdge(c, t)
      BY <2>2, <2>4 DEF ContextEdge, Edge, Ends, Reserved
  <2> QED
      BY <2>1, <2>3, <2>4
<1> QED
    BY <1>1, <1>2, <1>3 DEF CandidateEdges

\* The report lists what the bundle has.
LEMMA ReportNamesEnds ==
    ASSUME NEW cs, ForeignRefs(cs), NEW inds
    PROVE  ReportRefs(cs, inds) \subseteq Ends(cs, inds)
BY RegisteredInReach DEF ReportRefs, Ends

---------------------------------------------------------------------------
(* The index does not run ahead of the imports *)

\* After the import OpenCTI has confirmed all that the index may take over.
AfterImport == {"native", "describe", "patch", "save", "audit", "mark"}
Delivery == [ents |-> delivered.ents, rels |-> delivered.rels, sent |-> delivered.sent]
IndexInv ==
    /\ delivered = Delivery
    /\ IndexedIsSent
    /\ pc \in AfterImport => RelsOf(cands) \subseteq delivered.sent

LEMMA IndexInit == Init => IndexInv
BY DEF Init, Idle, EmptyIndex, IndexInv, IndexedIsSent, AfterImport, Delivery

LEMMA TakesOnlyAdds ==
    ASSUME NEW taken, NEW whole, Takes(taken, whole)
    PROVE  /\ delivered' = Delivery' /\ delivered.sent \subseteq delivered'.sent
           /\ whole => RelsOf(cands) \subseteq delivered'.sent
BY DEF Takes, RelsOf, Delivery

\* What a native candidate may leave behind.
NativeStep(c) ==
    /\ todo' = todo \ {c}
    /\ \/ /\ \/ LinkNative(c)
             \/ AddNative(c)
             \/ AddAgain(c)
          /\ delivered' = [delivered EXCEPT !.ents = @ \union {EntityKey(c)},
                                            !.rels = @ \union {RelationshipKey(c)}]
       \/ PassOver(c)

LEMMA NativeDelivers ==
    ASSUME CreateNative
    PROVE  \E c \in todo :
              /\ NativeStep(c)
              /\ \/ delivered' = [delivered EXCEPT !.ents = @ \union {EntityKey(c)},
                                                   !.rels = @ \union {RelationshipKey(c)}]
                 \/ delivered' = delivered
<1>1. PICK c \in todo : NativeStep(c)
    BY DEF CreateNative, NativeStep
<1>2. \/ delivered' = [delivered EXCEPT !.ents = @ \union {EntityKey(c)},
                                        !.rels = @ \union {RelationshipKey(c)}]
      \/ delivered' = delivered
    BY <1>1 DEF NativeStep, PassOver
<1> QED
    BY <1>1, <1>2

LEMMA IndexStep == IndexInv /\ [Next]_vars => IndexInv'
<1> SUFFICES ASSUME IndexInv, [Next]_vars PROVE IndexInv'
    OBVIOUS
<1> USE DEF IndexInv, IndexedIsSent, AfterImport, RelsOf, Delivery
<1>1. ASSUME NEW i \in Items, Begin(i) PROVE IndexInv'
    BY <1>1 DEF Begin, files, platform
<1>2. CASE Import
    <2>1. /\ delivered' = Delivery' /\ delivered.sent \subseteq delivered'.sent
          /\ RelsOf(cands) \subseteq delivered'.sent
        BY <1>2, TakesOnlyAdds DEF Import
    <2> QED
        BY <1>2, <2>1 DEF Import, files
<1>3. CASE Reject
    <2>1. delivered' = Delivery' /\ delivered.sent \subseteq delivered'.sent
        BY <1>3, TakesOnlyAdds DEF Reject
    <2> QED
        BY <1>3, <2>1 DEF Reject, Clear, files
<1>4. CASE CreateNative
    <2>1. delivered' = Delivery' /\ delivered'.sent = delivered.sent
        BY <1>4, NativeDelivers DEF CreateNative
    <2> QED
        BY <1>4, <2>1 DEF CreateNative, files
<1>5. CASE EndNative
    BY <1>5 DEF EndNative, files, platform
<1>6. CASE ReadText
    BY <1>6 DEF ReadText, files, platform
<1>7. CASE PatchText
    BY <1>7 DEF PatchText, files
<1>8. CASE EndDescribe
    BY <1>8 DEF EndDescribe, files, platform
<1>9. CASE SaveState
    BY <1>9 DEF SaveState, platform
<1>10. CASE Audit
    BY <1>10 DEF Audit, files, platform
<1>11. CASE MarkIndex
    <2>1. index'.rels \subseteq index.rels \union RelsOf(cands)
        BY <1>11, MarkedIsPlanned DEF MarkIndex
    <2> QED
        BY <1>11, <2>1 DEF MarkIndex, Clear, platform
<1>12. CASE MarkFails
    BY <1>12 DEF MarkFails, Clear, files, platform
<1>13. CASE Crash
    BY <1>13 DEF Crash, Clear, files, platform
<1>14. CASE LoseState
    BY <1>14 DEF LoseState, local, platform
<1>15. CASE Edit
    BY <1>15 DEF Edit, local, files
<1>16. CASE UNCHANGED vars
    BY <1>16 DEF vars, local, files, platform
<1> QED
    BY <1>1, <1>2, <1>3, <1>4, <1>5, <1>6, <1>7, <1>8, <1>9, <1>10, <1>11, <1>12, <1>13,
       <1>14, <1>15, <1>16 DEF Next, Step, Disturb

\* The local index holds only what was exportable in an import that OpenCTI
\* confirmed, through rejected imports, crashes, failed writes and lost state
\* files (core/graph_deduplication.py mark_exported_plan after send_bundle).
THEOREM IndexIsSent == Spec => []IndexedIsSent
<1>1. IndexInv => IndexedIsSent
    BY DEF IndexInv
<1> QED
    BY IndexInit, IndexStep, <1>1, PTL DEF Spec

---------------------------------------------------------------------------
(* Types, and where the candidates of an export come from *)

\* A candidate in use is an accepted one; what OpenCTI is thought to have for
\* it is something it may have.
FromRecords(c) ==
    \E d \in AllAccepted : Alike(c, d) /\ c.existing \in PossibleRefs[EntityKey(d)]

TypeInv ==
    /\ TypeOK /\ delivered = Delivery
    /\ deployment \in Deployments
    /\ pc # "idle" => item \in Items
    /\ DOMAIN cands \subseteq Nat
    /\ \A c \in ToSet(cands) : FromRecords(c)
    /\ pc = "native" => todo \subseteq ToSet(cands)

\* The key of what is accepted, and of what is in use, is a key of a record.
LEMMA AcceptedKeys ==
    ASSUME NEW d \in AllAccepted
    PROVE  \E r \in AllRecords :
              /\ EntityKey(r) = EntityKey(d) /\ ObjectRef(r) = ObjectRef(d)
              /\ Builds(r) = Builds(d) /\ EntityKey(d) \in Keys
<1>1. PICK i \in Items : d \in ToSet(Accepts[i])
    BY DEF AllAccepted
<1>2. PICK r \in ToSet(Evidence[i]) : IsRecord(r) /\ d = Candidate(r)
    BY <1>1, AcceptedIsRecord
<1>3. r \in AllRecords
    BY <1>2 DEF AllRecords
<1>4. EntityKey(r) \in Keys
    BY <1>3 DEF Keys
<1> QED
    BY <1>2, <1>3, <1>4, CandidateObject

LEMMA InUse ==
    ASSUME NEW c, FromRecords(c)
    PROVE  /\ EntityKey(c) \in Keys /\ c.existing \in PossibleRefs[EntityKey(c)]
           /\ Builds(c) => ObjectRef(c) \in PossibleRefs[EntityKey(c)]
<1>1. PICK d \in AllAccepted : Alike(c, d) /\ c.existing \in PossibleRefs[EntityKey(d)]
    BY DEF FromRecords
<1>2. PICK r \in AllRecords :
         /\ EntityKey(r) = EntityKey(d) /\ ObjectRef(r) = ObjectRef(d)
         /\ Builds(r) = Builds(d) /\ EntityKey(d) \in Keys
    BY AcceptedKeys
<1>3. EntityKey(c) = EntityKey(d) /\ ObjectRef(c) = ObjectRef(d) /\ Builds(c) = Builds(d)
    BY <1>1, AlikeKeys, AlikeObjects
<1>4. ASSUME Builds(c) PROVE ObjectRef(c) \in PossibleRefs[EntityKey(c)]
    BY <1>2, <1>3, <1>4 DEF PossibleRefs
<1> QED
    BY <1>1, <1>2, <1>3, <1>4

\* The plan made of an item's accepted candidates names their keys.
LEMMA FreshNames ==
    ASSUME NEW i \in Items
    PROVE  /\ \A a \in ToSet(Fresh[i]) : a.ent \in Keys
           /\ \A d \in ToSet(Accepts[i]) :
                 \E a \in ToSet(Fresh[i]) : a.ent = EntityKey(d) /\ a.rel = RelationshipKey(d)
<1> DEFINE acc == Accepts[i]
<1>1. Fresh[i] = PlanActions(acc, NothingKnown)
    BY DEF Fresh
<1>2. DOMAIN Fresh[i] = DOMAIN acc
    BY <1>1 DEF PlanActions
<1>3. \A p \in DOMAIN acc : /\ Fresh[i][p].ent = EntityKey(acc[p])
                            /\ Fresh[i][p].rel = RelationshipKey(acc[p])
    BY <1>1 DEF PlanActions
<1>4. \A p \in DOMAIN acc : EntityKey(acc[p]) \in Keys
  <2> TAKE p \in DOMAIN acc
  <2>1. acc[p] \in AllAccepted
      BY DEF AllAccepted, ToSet
  <2> QED
      BY <2>1, AcceptedKeys
<1> HIDE DEF acc
<1>5. \A a \in ToSet(Fresh[i]) : a.ent \in Keys
    BY <1>2, <1>3, <1>4 DEF ToSet
<1>6. ASSUME NEW d \in ToSet(acc)
      PROVE  \E a \in ToSet(Fresh[i]) : a.ent = EntityKey(d) /\ a.rel = RelationshipKey(d)
    BY <1>2, <1>3, <1>6 DEF ToSet
<1> QED
    BY <1>5, <1>6 DEF acc

\* What is known of an item: the objects OpenCTI has, at least the entities
\* it answered for, and the relationships of the index.
LEMMA KnownOf ==
    ASSUME NEW i \in Items, NEW failing
    PROVE  LET known == Known(Fresh[i], failing) IN
           /\ \A key : MatchOf(known, key) # None =>
                          key \in Keys /\ MatchOf(known, key) = nodes[key]
           /\ deployment.lookup => \A d \in ToSet(Accepts[i]) :
                 Present(EntityKey(d)) /\ EntityKey(d) \notin failing =>
                    EntityKey(d) \in known.ents
           /\ deployment.index => \A d \in ToSet(Accepts[i]) :
                 RelationshipKey(d) \in index.rels => RelationshipKey(d) \in known.rels
<1> DEFINE plan == Fresh[i]
           found == Matches(plan, failing)
           local0 == LocallyKnown(index, plan)
           asked == LookedUp(plan, failing)
           known == Known(plan, failing)
<1>1. /\ DOMAIN found = {key \in {a.ent : a \in ToSet(plan)} \ failing : Present(key)}
      /\ \A key \in DOMAIN found : found[key] = nodes[key]
    BY DEF Matches
<1>2. DOMAIN found \subseteq Keys
    BY <1>1, FreshNames
<1>3. /\ \A key \in DOMAIN asked.matches : key \in DOMAIN found /\ asked.matches[key] = found[key]
      /\ deployment.lookup => asked.ents = DOMAIN found
  <2>1. CASE deployment.lookup
      BY <2>1 DEF LookedUp
  <2>2. CASE ~deployment.lookup
      BY <2>2 DEF LookedUp, NothingKnown
  <2> QED
      BY <2>1, <2>2
<1>4. /\ local0.matches = <<>>
      /\ local0.rels = {a.rel : a \in ToSet(plan)} \intersect index.rels
    BY DEF LocallyKnown
<1> HIDE DEF plan, found, local0, asked
<1>5. known = IF deployment.index THEN Merged(local0, asked) ELSE asked
    BY DEF Known, local0, asked
<1>6. \A key : MatchOf(known, key) # None => key \in Keys /\ MatchOf(known, key) = nodes[key]
  <2>1. \A key \in DOMAIN known.matches :
           key \in DOMAIN asked.matches /\ known.matches[key] = asked.matches[key]
    <3>1. CASE deployment.index
      <4>1. known.matches = [key \in DOMAIN local0.matches \union DOMAIN asked.matches |->
                               IF key \in DOMAIN asked.matches THEN asked.matches[key]
                               ELSE local0.matches[key]]
          BY <1>5, <3>1 DEF Merged
      <4> QED
          BY <1>4, <4>1
    <3>2. CASE ~deployment.index
        BY <1>5, <3>2
    <3> QED
        BY <3>1, <3>2
  <2> QED
      BY <1>1, <1>2, <1>3, <2>1 DEF MatchOf
<1>7. asked.ents \subseteq known.ents /\ (deployment.index => local0.rels \subseteq known.rels)
    BY <1>5 DEF Merged
<1>8. ASSUME deployment.lookup, NEW d \in ToSet(Accepts[i]),
             Present(EntityKey(d)), EntityKey(d) \notin failing
      PROVE  EntityKey(d) \in known.ents
  <2>1. EntityKey(d) \in DOMAIN found
      BY <1>1, <1>8, FreshNames DEF plan
  <2> QED
      BY <1>3, <1>7, <1>8, <2>1
<1>9. ASSUME deployment.index, NEW d \in ToSet(Accepts[i]), RelationshipKey(d) \in index.rels
      PROVE  RelationshipKey(d) \in known.rels
  <2>1. RelationshipKey(d) \in local0.rels
      BY <1>4, <1>9, FreshNames DEF plan
  <2> QED
      BY <1>7, <1>9, <2>1
<1> QED
    BY <1>6, <1>8, <1>9 DEF plan

\* What an export starts with.
LEMMA Started ==
    ASSUME TypeInv, NEW i \in Items, Begin(i)
    PROVE  /\ DOMAIN cands' \subseteq Nat /\ matched' \subseteq Keys /\ lost' \subseteq Keys
           /\ \A c \in ToSet(cands') :
                 /\ FromRecords(c)
                 /\ EntityKey(c) \in matched' =>
                       c.existing # None /\ c.existing[1] \in RefPrefixes(c)
                 /\ deployment.index => RelationshipKey(c) \notin index.rels
                 /\ c.existing # None => c.existing = nodes[EntityKey(c)]
                 /\ \A e \in ToSet(cands') :
                       EntityKey(e) = EntityKey(c) /\ c.existing = None => e.existing = None
<1>1. PICK failing \in SUBSET {EntityKey(d) : d \in ToSet(Accepts[i])} :
         /\ lost' = failing
         /\ cands' = Exportable(Accepts[i],
                        PlanActions(Accepts[i], Known(Fresh[i], failing)),
                        Known(Fresh[i], failing))
         /\ matched' =
               IF deployment.lookup
               THEN {EntityKey(c) : c \in {c \in ToSet(Accepts[i]) :
                       Present(EntityKey(c)) /\ EntityKey(c) \notin failing}}
               ELSE {}
    BY DEF Begin, AcceptedOf
<1> DEFINE known == Known(Fresh[i], failing)
           plan == PlanActions(Accepts[i], known)
<1>2. DOMAIN cands' \subseteq Nat
  <2>1. DOMAIN Exportable(Accepts[i], plan, known) \subseteq DOMAIN Accepts[i]
    <3>1. DOMAIN plan = DOMAIN Accepts[i]
        BY DEF PlanActions
    <3> HIDE DEF plan, known
    <3> QED
        BY <3>1 DEF Exportable
  <2> QED
      BY <1>1, <2>1, Positions
<1>3. \A d \in ToSet(Accepts[i]) : EntityKey(d) \in Keys /\ d \in AllAccepted
    BY AcceptedKeys DEF AllAccepted
<1>4. matched' \subseteq Keys /\ lost' \subseteq Keys
    BY <1>1, <1>3
<1>5. ASSUME NEW c \in ToSet(cands')
      PROVE  /\ FromRecords(c)
             /\ EntityKey(c) \in matched' =>
                   c.existing # None /\ c.existing[1] \in RefPrefixes(c)
             /\ deployment.index => RelationshipKey(c) \notin index.rels
             /\ c.existing # None => c.existing = nodes[EntityKey(c)]
             /\ c.existing = None <=> EntityKey(c) \notin known.ents
  <2>1. PICK d \in ToSet(Accepts[i]) : Exported(c, d, known)
      BY <1>1, <1>5, ExportableIsAccepted
  <2>2. /\ Alike(c, d) /\ EntityKey(c) = EntityKey(d)
        /\ RelationshipKey(c) = RelationshipKey(d) /\ RefPrefixes(c) = RefPrefixes(d)
      BY <2>1, AlikeKeys DEF Exported
  <2>3. EntityKey(d) \in Keys /\ d \in AllAccepted
      BY <1>3
  <2>4. c.existing \in {UsableRef(d, known), None}
      BY <2>1 DEF Exported
  <2>5. UsableRef(d, known) # None =>
           /\ UsableRef(d, known) = nodes[EntityKey(d)]
           /\ UsableRef(d, known)[1] \in RefPrefixes(d)
    <3> HIDE DEF known
    <3>1. MatchOf(known, EntityKey(d)) # None => MatchOf(known, EntityKey(d)) = nodes[EntityKey(d)]
        BY KnownOf DEF known
    <3> QED
        BY <3>1 DEF UsableRef
  <2>6. None \in PossibleRefs[EntityKey(d)] /\ nodes[EntityKey(d)] \in PossibleRefs[EntityKey(d)]
      BY <2>3 DEF TypeInv, TypeOK, PossibleRefs, NoNode
  <2>7. FromRecords(c)
      BY <2>2, <2>3, <2>4, <2>5, <2>6 DEF FromRecords
  <2>8. ASSUME EntityKey(c) \in matched'
        PROVE  c.existing # None /\ c.existing[1] \in RefPrefixes(c)
    <3>1. deployment.lookup /\ Present(EntityKey(d)) /\ EntityKey(d) \notin failing
        BY <1>1, <2>2, <2>8
    <3>2. EntityKey(d) \in known.ents
        BY <3>1, KnownOf
    <3> HIDE DEF known
    <3> QED
        BY <2>1, <2>2, <2>5, <3>2 DEF Exported
  <2>9. deployment.index => RelationshipKey(c) \notin index.rels
    <3>1. deployment.index =>
             (RelationshipKey(d) \in index.rels => RelationshipKey(d) \in known.rels)
        BY KnownOf
    <3> HIDE DEF known
    <3> QED
        BY <2>1, <2>2, <3>1 DEF Exported
  <2>10. c.existing # None => c.existing = nodes[EntityKey(c)]
      BY <2>2, <2>4, <2>5
  <2>11. c.existing = None <=> EntityKey(c) \notin known.ents
    <3> HIDE DEF known
    <3> QED
        BY <2>1, <2>2 DEF Exported
  <2> QED
      BY <2>7, <2>8, <2>9, <2>10, <2>11
<1> HIDE DEF known, plan
<1> QED
    BY <1>2, <1>4, <1>5

---------------------------------------------------------------------------
(* The steps of an export *)

Texts == {"none", "connector", "analyst"}

LEMMA DescribeTyped ==
    ASSUME TypeInv, NEW over
    PROVE  Describe(over) \in [Keys -> Texts]
BY DEF TypeInv, TypeOK, Describe, Texts

\* What OpenCTI takes of a bundle.
LEMMA Taken ==
    ASSUME TypeInv, NEW taken \in SUBSET (DOMAIN cands), NEW whole, Takes(taken, whole)
    PROVE  /\ DOMAIN nodes' = Keys /\ \A k \in Keys : nodes'[k] \in PossibleRefs[k]
           /\ delivered'.ents \subseteq Keys
           /\ delivered'.rels \subseteq delivered.rels \union RelsOf(cands)
           /\ text' \in [Keys -> Texts] /\ authored' \subseteq Keys
<1> DEFINE ents == {EntityKey(cands[j]) : j \in taken \intersect Carried(cands)}
           RefFor(k) == IF KeepsIds
                        THEN ObjectRef(cands[CHOOSE j \in Carried(cands) :
                                                EntityKey(cands[j]) = k])
                        ELSE StandardRef(k)
<1>1. \A j \in Carried(cands) :
         /\ cands[j] \in ToSet(cands) /\ Builds(cands[j])
         /\ EntityKey(cands[j]) \in Keys
         /\ ObjectRef(cands[j]) \in PossibleRefs[EntityKey(cands[j])]
  <2> TAKE j \in Carried(cands)
  <2>1. cands[j] \in ToSet(cands)
      BY DEF Carried, Registered, ToSet
  <2>2. Builds(cands[j])
      BY DEF Carried, Registered, Resolves, Hydrates
  <2> QED
      BY <2>1, <2>2, InUse DEF TypeInv
<1>2. ents \subseteq Keys
    BY <1>1
<1>3. \A k \in ents : RefFor(k) \in PossibleRefs[k]
  <2> TAKE k \in ents
  <2>1. CASE KeepsIds
    <3>1. PICK j \in Carried(cands) : EntityKey(cands[j]) = k
        OBVIOUS
    <3> DEFINE first == CHOOSE m \in Carried(cands) : EntityKey(cands[m]) = k
    <3>2. first \in Carried(cands) /\ EntityKey(cands[first]) = k
        BY <3>1
    <3>3. RefFor(k) = ObjectRef(cands[first])
        BY <2>1
    <3> HIDE DEF first, RefFor
    <3> QED
        BY <1>1, <3>2, <3>3
  <2>2. CASE ~KeepsIds
      BY <1>2, <2>2 DEF PossibleRefs
  <2> QED
      BY <2>1, <2>2
<1>4. /\ nodes' = [k \in Keys |-> IF k \in {e \in ents : ~Present(e)} THEN RefFor(k)
                                   ELSE nodes[k]]
      /\ authored' = authored \union {e \in ents : ~Present(e)}
      /\ delivered'.ents = delivered.ents \union ents
    BY DEF Takes
<1>7. \E over : text' = Describe(over)
    BY DEF Takes
<1>5. delivered'.rels \subseteq delivered.rels \union RelsOf(cands)
  <2> DEFINE gave == {j \in taken : CandidateEdges(cands[j], cands, Indicators[item]) # {}}
  <2>1. delivered'.rels = delivered.rels \union {RelationshipKey(cands[j]) : j \in gave}
      BY DEF Takes
  <2>2. \A j \in gave : cands[j] \in ToSet(cands)
      BY DEF ToSet
  <2> QED
      BY <2>1, <2>2 DEF RelsOf
<1> HIDE DEF ents, RefFor
<1>6. \A k \in Keys : nodes'[k] \in PossibleRefs[k]
    BY <1>3, <1>4 DEF TypeInv, TypeOK
<1>8. text' \in [Keys -> Texts]
    BY <1>7, DescribeTyped
<1> QED
    BY <1>2, <1>4, <1>5, <1>6, <1>8 DEF TypeInv, TypeOK

LEMMA TypeInit == Init => TypeInv
<1> SUFFICES ASSUME Init PROVE TypeInv
    OBVIOUS
<1>1. nodes \in [Keys -> UNION {PossibleRefs[k] : k \in Keys}] /\ DOMAIN nodes = Keys
      /\ \A k \in Keys : nodes[k] \in PossibleRefs[k]
    BY DEF Init, PossibleRefs
<1>2. deployment.faults \in Nat /\ deployment.edits \in Nat
    BY ExportAssumption DEF Init
<1>3. TypeOK
    BY <1>1, <1>2 DEF Init, Idle, EmptyIndex, TypeOK
<1>4. DOMAIN cands = {} /\ ToSet(cands) = {}
    BY DEF Init, Idle, ToSet
<1> QED
    BY <1>3, <1>4 DEF Init, Idle, TypeInv, Delivery

\* The parts of the invariant about the export at hand, and about the rest.
ExportTyped ==
    /\ pc \in {"idle", "import", "native", "describe", "patch", "save", "audit", "mark"}
    /\ item \in Items \union {NoItem} /\ (pc # "idle" => item \in Items)
    /\ matched \subseteq Keys /\ lost \subseteq Keys
    /\ DOMAIN cands \subseteq Nat /\ \A c \in ToSet(cands) : FromRecords(c)
    /\ pc = "native" => todo \subseteq ToSet(cands)
FilesTyped == done \subseteq Items /\ index.ents \subseteq Keys
PlatformTyped ==
    /\ DOMAIN nodes = Keys /\ \A k \in Keys : nodes[k] \in PossibleRefs[k]
    /\ text \in [Keys -> Texts] /\ authored \subseteq Keys
    /\ delivered.ents \subseteq Keys /\ delivered = Delivery
BoundsTyped ==
    /\ faults \in 0 .. deployment.faults /\ edits \in 0 .. deployment.edits
    /\ deployment \in Deployments

LEMMA InParts == TypeInv <=> ExportTyped /\ FilesTyped /\ PlatformTyped /\ BoundsTyped
BY DEF TypeInv, TypeOK, ExportTyped, FilesTyped, PlatformTyped, BoundsTyped, Texts

\* Steps that leave a part alone, and what ends an export.
LEMMA PartsKept ==
    /\ ExportTyped /\ UNCHANGED local => ExportTyped'
    /\ FilesTyped /\ UNCHANGED files => FilesTyped'
    /\ PlatformTyped /\ UNCHANGED platform => PlatformTyped'
    /\ BoundsTyped /\ UNCHANGED deployment /\ (Fault \/ UNCHANGED bounds) => BoundsTyped'
    /\ Clear => ExportTyped'
<1>1. ExportTyped /\ UNCHANGED local => ExportTyped'
    BY DEF ExportTyped, local, FromRecords
<1>2. FilesTyped /\ UNCHANGED files => FilesTyped'
    BY DEF FilesTyped, files
<1>3. PlatformTyped /\ UNCHANGED platform => PlatformTyped'
    BY DEF PlatformTyped, platform, Delivery
<1>4. BoundsTyped /\ UNCHANGED deployment /\ (Fault \/ UNCHANGED bounds) => BoundsTyped'
  <2> SUFFICES ASSUME BoundsTyped, UNCHANGED deployment, Fault \/ UNCHANGED bounds
               PROVE  BoundsTyped'
      OBVIOUS
  <2>1. deployment.faults \in Nat /\ deployment.edits \in Nat
      BY ExportAssumption DEF BoundsTyped
  <2> QED
      BY <2>1 DEF BoundsTyped, Fault, bounds
<1>5. Clear => ExportTyped'
  <2>1. Clear => DOMAIN cands' = {} /\ ToSet(cands') = {}
      BY DEF Clear, ToSet
  <2> QED
      BY <2>1 DEF Clear, ExportTyped
<1> QED
    BY <1>1, <1>2, <1>3, <1>4, <1>5

LEMMA MarkedEnts ==
    ASSUME TypeInv
    PROVE  Marked(index, PlanActions(cands, NothingKnown)).ents \subseteq Keys
<1> DEFINE plan == PlanActions(cands, NothingKnown)
           exported == {a \in ToSet(plan) : a.action = "exported"}
<1>1. DOMAIN plan = DOMAIN cands /\ \A j \in DOMAIN cands : plan[j].ent = EntityKey(cands[j])
    BY DEF PlanActions
<1>2. \A j \in DOMAIN cands : EntityKey(cands[j]) \in Keys
  <2>1. \A j \in DOMAIN cands : FromRecords(cands[j])
      BY DEF TypeInv, ToSet
  <2> QED
      BY <2>1, InUse
<1> HIDE DEF plan
<1>3. \A a \in ToSet(plan) : a.ent \in Keys
    BY <1>1, <1>2 DEF ToSet
<1>4. Marked(index, plan).ents = index.ents \union {a.ent : a \in exported}
    BY DEF Marked
<1>5. {a.ent : a \in exported} \subseteq Keys
    BY <1>3
<1> QED
    BY <1>4, <1>5 DEF plan, TypeInv, TypeOK

LEMMA TypeStep == TypeInv /\ [Next]_vars => TypeInv'
<1> SUFFICES ASSUME TypeInv, [Next]_vars PROVE TypeInv'
    OBVIOUS
<1>p. ExportTyped /\ FilesTyped /\ PlatformTyped /\ BoundsTyped
    BY InParts
<1>d. UNCHANGED deployment
    BY DEF Next, Step, Disturb, vars
<1>e. ASSUME ExportTyped', FilesTyped', PlatformTyped', BoundsTyped' PROVE TypeInv'
  <2> QED
      BY <1>e, InParts, PTL
<1>1. ASSUME NEW i \in Items, Begin(i) PROVE TypeInv'
  <2>1. ExportTyped'
    <3>1. \A c \in ToSet(cands') : FromRecords(c)'
        BY <1>1, Started DEF FromRecords
    <3> QED
        BY <1>1, <3>1, Started DEF Begin, ExportTyped
  <2>2. UNCHANGED bounds \/ Fault
      BY <1>1 DEF Begin
  <2> QED
      BY <1>1, <1>d, <1>e, <1>p, <2>1, <2>2, PartsKept DEF Begin
<1>2. CASE Import
  <2>1. PlatformTyped'
      BY <1>2, <1>p, Taken, TakesOnlyAdds DEF Import, PlatformTyped
  <2>2. ExportTyped'
      BY <1>2, <1>p DEF Import, ExportTyped, FromRecords
  <2> QED
      BY <1>2, <1>d, <1>e, <1>p, <2>1, <2>2, PartsKept DEF Import
<1>3. CASE Reject
  <2>1. PlatformTyped'
      BY <1>3, <1>p, Taken, TakesOnlyAdds DEF Reject, PlatformTyped
  <2> QED
      BY <1>3, <1>d, <1>e, <1>p, <2>1, PartsKept DEF Reject
<1>4. CASE CreateNative
  <2>1. PICK c \in todo :
           /\ NativeStep(c)
           /\ \/ delivered' = [delivered EXCEPT !.ents = @ \union {EntityKey(c)},
                                                !.rels = @ \union {RelationshipKey(c)}]
              \/ delivered' = delivered
      BY <1>4, NativeDelivers
  <2>2. EntityKey(c) \in Keys
      BY <1>4, InUse DEF CreateNative, TypeInv
  <2>3. StandardRef(EntityKey(c)) \in PossibleRefs[EntityKey(c)]
      BY <2>2 DEF PossibleRefs
  <2>4. PlatformTyped'
    <3>1. /\ \/ nodes' = nodes
             \/ nodes' = [nodes EXCEPT ![EntityKey(c)] = StandardRef(EntityKey(c))]
          /\ \/ text' = text
             \/ text' = Describe({EntityKey(c)})
          /\ authored' \subseteq authored \union {EntityKey(c)}
        BY <2>1 DEF NativeStep, LinkNative, AddNative, AddAgain, PassOver
    <3>2. DOMAIN nodes' = Keys /\ \A k \in Keys : nodes'[k] \in PossibleRefs[k]
        BY <1>p, <2>3, <3>1 DEF PlatformTyped
    <3>3. text' \in [Keys -> Texts] /\ authored' \subseteq Keys
        BY <1>p, <2>2, <3>1, DescribeTyped DEF PlatformTyped
    <3>4. delivered'.ents \subseteq Keys /\ delivered' = Delivery'
      <4>1. /\ delivered'.ents \subseteq delivered.ents \union {EntityKey(c)}
            /\ delivered' = Delivery'
          BY <1>p, <2>1 DEF PlatformTyped, Delivery
      <4> QED
          BY <1>p, <2>2, <4>1 DEF PlatformTyped
    <3> QED
        BY <3>2, <3>3, <3>4 DEF PlatformTyped
  <2>5. ExportTyped'
      BY <1>4, <1>p, <2>1 DEF CreateNative, NativeStep, ExportTyped, FromRecords
  <2>6. UNCHANGED bounds \/ Fault
      BY <2>1 DEF NativeStep, LinkNative, AddNative, AddAgain, PassOver
  <2> QED
      BY <1>4, <1>d, <1>e, <1>p, <2>4, <2>5, <2>6, PartsKept DEF CreateNative
<1>5. CASE EndNative
  <2>1. ExportTyped'
      BY <1>5, <1>p DEF EndNative, ExportTyped, FromRecords
  <2> QED
      BY <1>5, <1>d, <1>e, <1>p, <2>1, PartsKept DEF EndNative
<1>6. CASE ReadText
  <2>1. ExportTyped'
      BY <1>6, <1>p DEF ReadText, ExportTyped, FromRecords
  <2> QED
      BY <1>6, <1>d, <1>e, <1>p, <2>1, PartsKept DEF ReadText
<1>7. CASE PatchText
  <2>1. ExportTyped'
      BY <1>7, <1>p DEF PatchText, ExportTyped, FromRecords
  <2>2. PlatformTyped'
      BY <1>7, <1>p, DescribeTyped DEF PatchText, PlatformTyped, Delivery
  <2> QED
      BY <1>7, <1>d, <1>e, <1>p, <2>1, <2>2, PartsKept DEF PatchText
<1>8. CASE EndDescribe
  <2>1. ExportTyped'
      BY <1>8, <1>p DEF EndDescribe, ExportTyped, FromRecords
  <2> QED
      BY <1>8, <1>d, <1>e, <1>p, <2>1, PartsKept DEF EndDescribe
<1>9. CASE SaveState
  <2>1. ExportTyped'
      BY <1>9, <1>p DEF SaveState, ExportTyped, FromRecords
  <2>2. FilesTyped'
      BY <1>9, <1>p DEF SaveState, ExportTyped, FilesTyped
  <2> QED
      BY <1>9, <1>d, <1>e, <1>p, <2>1, <2>2, PartsKept DEF SaveState
<1>10. CASE Audit
  <2>1. ExportTyped'
      BY <1>10, <1>p DEF Audit, ExportTyped, FromRecords
  <2> QED
      BY <1>10, <1>d, <1>e, <1>p, <2>1, PartsKept DEF Audit
<1>11. CASE MarkIndex
  <2>1. FilesTyped'
      BY <1>11, <1>p, MarkedEnts DEF MarkIndex, FilesTyped
  <2> QED
      BY <1>11, <1>d, <1>e, <1>p, <2>1, PartsKept DEF MarkIndex
<1>12. CASE MarkFails
    BY <1>12, <1>d, <1>e, <1>p, PartsKept DEF MarkFails
<1>13. CASE Crash
    BY <1>13, <1>d, <1>e, <1>p, PartsKept DEF Crash
<1>14. CASE LoseState
  <2>1. FilesTyped'
      BY <1>14, <1>p DEF LoseState, FilesTyped
  <2> QED
      BY <1>14, <1>d, <1>e, <1>p, <2>1, PartsKept DEF LoseState
<1>15. CASE Edit
  <2>1. PlatformTyped'
    <3>1. PICK k \in Keys :
             \/ /\ \E t \in {"none", "analyst"} : text' = [text EXCEPT ![k] = t]
                /\ UNCHANGED <<nodes, authored>>
             \/ /\ nodes' = [nodes EXCEPT ![k] = NoNode]
                /\ text' = [text EXCEPT ![k] = "none"]
                /\ authored' = authored \ {k}
        BY <1>15 DEF Edit
    <3>2. NoNode \in PossibleRefs[k]
        BY DEF PossibleRefs
    <3>3. DOMAIN nodes' = Keys /\ \A j \in Keys : nodes'[j] \in PossibleRefs[j]
        BY <1>p, <3>1, <3>2 DEF PlatformTyped
    <3>4. text' \in [Keys -> Texts] /\ authored' \subseteq Keys
        BY <1>p, <3>1 DEF PlatformTyped, Texts
    <3> QED
        BY <1>15, <1>p, <3>3, <3>4 DEF Edit, PlatformTyped, Delivery
  <2>2. BoundsTyped'
    <3>1. deployment.faults \in Nat /\ deployment.edits \in Nat
        BY <1>p, ExportAssumption DEF BoundsTyped
    <3> QED
        BY <1>15, <1>d, <1>p, <3>1 DEF Edit, BoundsTyped
  <2> QED
      BY <1>15, <1>e, <1>p, <2>1, <2>2, PartsKept DEF Edit
<1>16. CASE UNCHANGED vars
    BY <1>16, <1>d, <1>e, <1>p, PartsKept DEF vars
<1> QED
    BY <1>1, <1>2, <1>3, <1>4, <1>5, <1>6, <1>7, <1>8, <1>9, <1>10, <1>11, <1>12, <1>13,
       <1>14, <1>15, <1>16 DEF Next, Step, Disturb

\* The types of the variables: the state file holds items, the index and the
\* reports of OpenCTI hold keys of records, and what OpenCTI has for a key is
\* its own object or one built for a record of that key.
THEOREM ExportTypes == Spec => []TypeOK
<1>1. TypeInv => TypeOK
    BY DEF TypeInv
<1> QED
    BY TypeInit, TypeStep, <1>1, PTL DEF Spec

---------------------------------------------------------------------------
(* The bundle is closed *)

LEMMA CandsAreForeign == TypeInv => ForeignRefs(cands)
<1> SUFFICES ASSUME TypeInv, NEW c \in ToSet(cands)
             PROVE  ExistingRef(c) \notin {Author, Report}
    BY DEF ForeignRefs
<1>1. EntityKey(c) \in Keys /\ c.existing \in PossibleRefs[EntityKey(c)]
    BY InUse DEF TypeInv
<1>2. \A k \in Keys : PossibleRefs[k] \intersect {Author, Report} = {}
  <2> TAKE k \in Keys
  <2>1. StandardRef(k)[3] = "opencti" /\ Author[3] = "narrowcti" /\ Report[3] = "narrowcti"
      BY DEF StandardRef, Author, Report
  <2>2. StandardRef(k) \notin {Author, Report}
      BY <2>1
  <2>3. None \notin {Author, Report}
    <3>1. None[1] = "" /\ Author[1] = "identity" /\ Report[1] = "report"
        BY DEF None, Author, Report
    <3> QED
        BY <3>1
  <2>4. \A r \in AllRecords : Builds(r) => ObjectRef(r) \notin {Author, Report}
      BY BuiltIsOwn DEF Reserved
  <2> QED
      BY <2>2, <2>3, <2>4 DEF PossibleRefs, NoNode
<1>3. None \notin {Author, Report}
  <2>1. None[1] = "" /\ Author[1] = "identity" /\ Report[1] = "report"
      BY DEF None, Author, Report
  <2> QED
      BY <2>1
<1> QED
    BY <1>1, <1>2, <1>3 DEF ExistingRef

LEMMA ClosedByTypes == TypeInv => BundleIsClosed
<1> SUFFICES ASSUME TypeInv PROVE BundleIsClosed
    OBVIOUS
<1> DEFINE inds == Indicators[item]
           ends == BundleOf.objects \union {Author, Report}
                   \union ({ExistingRef(c) : c \in ToSet(cands)} \ {None})
<1>1. /\ BundleOf.objects = {IndicatorRef(v) : v \in inds} \union Objects(cands)
      /\ BundleOf.edges = UNION {CandidateEdges(c, cands, inds) : c \in ToSet(cands)}
      /\ BundleOf.refs = ReportRefs(cands, inds)
    BY DEF BundleOf, Bundle
<1>2. Ends(cands, inds) = ends
    BY <1>1 DEF Ends, Reach
<1>3. BundleOf.refs \subseteq Ends(cands, inds)
    BY <1>1, CandsAreForeign, ReportNamesEnds
<1>4. ASSUME NEW e \in BundleOf.edges
      PROVE  e.src \in Ends(cands, inds) /\ e.tgt \in Ends(cands, inds) /\ e.src # e.tgt
  <2>1. PICK c \in ToSet(cands) : e \in CandidateEdges(c, cands, inds)
      BY <1>1, <1>4
  <2> QED
      BY <2>1, CandsAreForeign, EdgesBetweenEnds DEF TypeInv
<1> QED
    BY <1>2, <1>3, <1>4 DEF BundleIsClosed

\* Whatever was left out of a bundle by the policy, by what is known or by the
\* builder, no relationship and no report of it names an object that is neither
\* in it nor one OpenCTI was found to have, and no relationship leads from an
\* object to itself (exporters/stix_builder.py build_graph_content).
THEOREM ClosedBundle == Spec => []BundleIsClosed
BY TypeInit, TypeStep, ClosedByTypes, PTL DEF Spec

---------------------------------------------------------------------------
(* What is known is not sent again *)

\* The candidates of an import are those known with an object of their type, or
\* not found at all, and none is in the index.  Nothing enters the index of an
\* installation that has none.
ImportInv ==
    /\ ~deployment.index => index.rels = {}
    /\ pc = "import" =>
          \A c \in ToSet(cands) :
             /\ RelationshipKey(c) \notin index.rels
             /\ EntityKey(c) \in matched =>
                   c.existing # None /\ c.existing[1] \in RefPrefixes(c)

LEMMA ImportInit == Init => ImportInv
BY DEF Init, Idle, EmptyIndex, ImportInv

LEMMA ImportStep == TypeInv /\ ImportInv /\ [Next]_vars => ImportInv'
<1> SUFFICES ASSUME TypeInv, ImportInv, [Next]_vars PROVE ImportInv'
    OBVIOUS
<1>d. UNCHANGED deployment
    BY DEF Next, Step, Disturb, vars
<1>k. ASSUME UNCHANGED <<index, cands, matched>>, pc' # "import" \/ pc' = pc PROVE ImportInv'
    BY <1>d, <1>k DEF ImportInv
<1>c. ASSUME pc' # "import", deployment.index \/ UNCHANGED index PROVE ImportInv'
    BY <1>d, <1>c DEF ImportInv
<1>1. ASSUME NEW i \in Items, Begin(i) PROVE ImportInv'
  <2>1. index' = index
      BY <1>1 DEF Begin, files
  <2> QED
      BY <1>1, <1>d, <2>1, Started DEF ImportInv
<1>2. CASE Import
    BY <1>2, <1>k DEF Import, files
<1>3. CASE Reject
    BY <1>3, <1>c DEF Reject, Clear, files
<1>4. CASE CreateNative
    BY <1>4, <1>k DEF CreateNative, files
<1>5. CASE EndNative
    BY <1>5, <1>k DEF EndNative, files
<1>6. CASE ReadText
    BY <1>6, <1>k DEF ReadText, files
<1>7. CASE PatchText
    BY <1>7, <1>k DEF PatchText, files
<1>8. CASE EndDescribe
    BY <1>8, <1>k DEF EndDescribe, files
<1>9. CASE SaveState
    BY <1>9, <1>k DEF SaveState
<1>10. CASE Audit
    BY <1>10, <1>k DEF Audit, files
<1>11. CASE MarkIndex
  <2>1. deployment.index \/ UNCHANGED index
      BY <1>11 DEF MarkIndex
  <2> QED
      BY <1>11, <1>c, <2>1 DEF MarkIndex, Clear
<1>12. CASE MarkFails
    BY <1>12, <1>c DEF MarkFails, Clear, files
<1>13. CASE Crash
    BY <1>13, <1>c DEF Crash, Clear, files
<1>14. CASE LoseState
    BY <1>14, <1>k DEF LoseState, local
<1>15. CASE Edit
    BY <1>15, <1>k DEF Edit, local, files
<1>16. CASE UNCHANGED vars
    BY <1>16, <1>k DEF vars, local, files
<1> QED
    BY <1>1, <1>2, <1>3, <1>4, <1>5, <1>6, <1>7, <1>8, <1>9, <1>10, <1>11, <1>12, <1>13,
       <1>14, <1>15, <1>16 DEF Next, Step, Disturb

\* What the index holds is not sent again, also when the state file is lost and
\* the item is processed anew (core/graph_export_plan.py
\* exportable_graph_candidate_policy with core/graph_deduplication.py).
THEOREM IndexSparesImports == Spec => []IndexedIsNotResent
<1>1. ImportInv => IndexedIsNotResent
    BY DEF ImportInv, IndexedIsNotResent
<1> QED
    BY TypeInit, TypeStep, ImportInit, ImportStep, <1>1, PTL DEF Spec

LEMMA UnreadIsRenamed ==
    ASSUME NEW c, c.existing # None, c.existing[1] \in RefPrefixes(c), ExistingRef(c) = None
    PROVE  c.type \in Renamed
<1>1. c.existing[1] \notin BuilderPrefixes(c)
    BY DEF ExistingRef
<1> QED
    BY <1>1 DEF RefPrefixes, BuilderPrefixes, Renamed

\* The builder takes the object OpenCTI was found to have, but for the types
\* whose prefix in OpenCTI it does not know.
LEMMA ReusedByImport == TypeInv /\ ImportInv => ExistingIsReused
<1> SUFFICES ASSUME ImportInv, pc = "import", NEW o \in Objects(cands)
             PROVE  \E c \in ToSet(cands) :
                       \/ o = ExistingRef(c)
                       \/ o = ObjectRef(c) /\ (EntityKey(c) \notin matched \/ c.type \in Renamed)
    BY DEF ExistingIsReused
<1>1. PICK i \in Carried(cands) : o = ObjectRef(cands[i])
    BY DEF Objects
<1> DEFINE c == cands[i]
<1>2. c \in ToSet(cands) /\ (ExistingRef(c) = None \/ Hydrates(c))
    BY DEF Carried, Registered, ToSet
<1>3. CASE Hydrates(c)
    BY <1>1, <1>2, <1>3 DEF Hydrates
<1>4. ASSUME ExistingRef(c) = None, EntityKey(c) \in matched PROVE c.type \in Renamed
    BY <1>2, <1>4, UnreadIsRenamed DEF ImportInv
<1> HIDE DEF c
<1> QED
    BY <1>1, <1>2, <1>3, <1>4 DEF c

\* An entity that OpenCTI was found to have is referenced and never built again
\* under an id of our own, whoever created it (core/graph_export_plan.py
\* candidate_with_existing_opencti_ref, exporters/stix_builder.py).
THEOREM ExistingStays == Spec => []ExistingIsReused
BY TypeInit, TypeStep, ImportInit, ImportStep, ReusedByImport, PTL DEF Spec

---------------------------------------------------------------------------
(* Descriptions *)

\* What the plan found goes with an export to its end: the object of every key
\* that was found is on the candidates of that key, and one with an id of ours
\* is still ours, or gone.
Found(c) ==
    /\ EntityKey(c) \in matched => c.existing # None /\ c.existing[1] \in RefPrefixes(c)
    /\ c.existing # None /\ c.existing[3] = "narrowcti" =>
          ~Present(EntityKey(c)) \/ EntityKey(c) \in authored
    /\ \A e \in ToSet(cands) :
          EntityKey(e) = EntityKey(c) /\ c.existing = None => e.existing = None

OwnIds == \A k \in Keys : Present(k) /\ nodes[k][3] = "narrowcti" => k \in authored

Sending == {"import", "native", "describe", "patch"}
TextInv ==
    /\ OwnIds
    /\ pc \in Sending => \A c \in ToSet(cands) : Found(c)
    /\ pc = "patch" => read \in Keys /\ (~Present(read) \/ read \in authored)

LEMMA TextInit == Init => TextInv
<1> SUFFICES ASSUME Init PROVE TextInv
    OBVIOUS
<1>1. \A k \in Keys : Present(k) => nodes[k][3] = "opencti"
    BY DEF Init, Present, StandardRef
<1> QED
    BY <1>1 DEF Init, Idle, TextInv, OwnIds, Sending

\* What appears is ours, or has an id of OpenCTI's for a key that was not found;
\* what is ours stays so until it is gone.
Appears ==
    \A k \in Keys :
       /\ Present(k)' => nodes'[k] = nodes[k] \/ k \in authored' \/ nodes'[k][3] = "opencti"
       /\ Present(k)' /\ ~Present(k) =>
             k \in authored' \/ \E c \in ToSet(cands) : EntityKey(c) = k /\ c.existing = None
       /\ Present(k)' /\ k \in authored => k \in authored'

LEMMA OwnIdsKept ==
    ASSUME TypeInv, OwnIds, Appears
    PROVE  OwnIds'
<1> SUFFICES ASSUME NEW k \in Keys, Present(k)', nodes'[k][3] = "narrowcti"
             PROVE  k \in authored'
    BY DEF OwnIds
<1>1. CASE nodes'[k] = nodes[k]
    BY <1>1 DEF Appears, OwnIds, Present
<1>2. CASE nodes'[k] # nodes[k]
    BY <1>2 DEF Appears
<1> QED
    BY <1>1, <1>2

LEMMA FoundKept ==
    ASSUME TypeInv, Appears, UNCHANGED <<cands, matched>>, \A c \in ToSet(cands) : Found(c)
    PROVE  \A c \in ToSet(cands') : Found(c)'
<1> SUFFICES ASSUME NEW c \in ToSet(cands) PROVE Found(c)'
    OBVIOUS
<1> DEFINE k == EntityKey(c)
<1>1. k \in Keys
    BY InUse DEF TypeInv
<1>2. ASSUME c.existing # None, c.existing[3] = "narrowcti", Present(k)'
      PROVE  k \in authored'
  <2>1. CASE Present(k)
      BY <1>1, <1>2, <2>1 DEF Found, Appears
  <2>2. CASE ~Present(k)
    <3>1. k \in authored' \/ \E e \in ToSet(cands) : EntityKey(e) = k /\ e.existing = None
        BY <1>1, <1>2, <2>2 DEF Appears
    <3>2. \A e \in ToSet(cands) : EntityKey(e) = k => e.existing # None
        BY <1>2 DEF Found
    <3> QED
        BY <3>1, <3>2
  <2> QED
      BY <2>1, <2>2
<1> QED
    BY <1>2 DEF Found

\* An import and what is tried natively bring up nothing else, and write on no
\* object of another author that was found.
Spared ==
    \A k \in matched :
        (/\ Present(k) /\ k \notin authored
         /\ \A c \in ToSet(cands) : EntityKey(c) = k => c.type \notin Renamed)
        => text'[k] = text[k]

LEMMA NotWritten ==
    ASSUME TypeInv, NEW over, text' = Describe(over), NEW k \in Keys, k \notin over
    PROVE  text'[k] = text[k]
BY DEF TypeInv, TypeOK, Describe

LEMMA TakesSpares ==
    ASSUME TypeInv, \A c \in ToSet(cands) : Found(c),
           NEW taken, NEW whole, Takes(taken, whole)
    PROVE  Appears /\ Spared
<1> DEFINE sent == taken \intersect Carried(cands)
           new == {e \in {EntityKey(cands[j]) : j \in sent} : ~Present(e)}
           described == {EntityKey(cands[j]) : j \in {j \in sent : HasText(cands[j])}}
<1>1. \A k \in Keys \ new : nodes'[k] = nodes[k]
    BY DEF Takes
<1>2. authored' = authored \union new
    BY DEF Takes
<1>3. PICK over \in SUBSET described : text' = Describe(over)
    BY DEF Takes
<1>4. \A k \in new : ~Present(k)
    OBVIOUS
<1> HIDE DEF new
<1>5. Appears
    BY <1>1, <1>2, <1>4 DEF Appears, Present
<1>6. ASSUME NEW k \in matched, Present(k), k \notin authored,
             \A c \in ToSet(cands) : EntityKey(c) = k => c.type \notin Renamed
      PROVE  k \notin described
  <2> SUFFICES ASSUME NEW j \in Carried(cands), EntityKey(cands[j]) = k PROVE FALSE
      OBVIOUS
  <2> DEFINE c == cands[j]
  <2>1. c \in ToSet(cands) /\ (ExistingRef(c) = None \/ Hydrates(c))
      BY DEF Carried, Registered, ToSet
  <2>2. EntityKey(c) = k /\ Found(c)
      BY <2>1
  <2> HIDE DEF c
  <2>3. c.existing # None /\ c.existing[1] \in RefPrefixes(c)
      BY <2>2 DEF Found
  <2>4. ExistingRef(c) # None
      BY <1>6, <2>1, <2>2, <2>3, UnreadIsRenamed
  <2>5. ObjectRef(c) = c.existing
      BY <2>1, <2>4 DEF Hydrates, ExistingRef
  <2>6. c.existing[3] = "narrowcti"
      BY <2>5 DEF ObjectRef
  <2> QED
      BY <1>6, <2>2, <2>3, <2>6 DEF Found
<1>7. matched \subseteq Keys
    BY DEF TypeInv, TypeOK
<1> HIDE DEF described
<1>8. Spared
    BY <1>3, <1>6, <1>7, NotWritten DEF Spared
<1> QED
    BY <1>5, <1>8

LEMMA NativeSpares ==
    ASSUME TypeInv, \A c \in ToSet(cands) : Found(c), CreateNative
    PROVE  Appears /\ Spared
<1>1. PICK c \in todo : NativeStep(c)
    BY NativeDelivers
<1> DEFINE k == EntityKey(c)
<1>2. c \in ToSet(cands) /\ k \in Keys /\ matched \subseteq Keys
    BY InUse DEF CreateNative, TypeInv, TypeOK
<1>3. c.existing = None => k \notin matched
    BY <1>2 DEF Found
<1>4. CASE nodes' = nodes /\ authored' = authored /\ text' = text
    BY <1>4 DEF Appears, Spared, Present
<1>5. CASE AddNative(c)
  <2>1. c.existing = None /\ ~Present(k) /\ text' = Describe({k}) /\ authored \subseteq authored'
      BY <1>5 DEF AddNative
  <2>2. nodes' = [nodes EXCEPT ![k] = StandardRef(k)]
      BY <1>5 DEF AddNative
  <2>3. \A e \in Keys \ {k} : nodes'[e] = nodes[e]
      BY <2>2
  <2>4. nodes'[k] = StandardRef(k)
      BY <1>2, <2>2 DEF TypeInv, TypeOK
  <2>5. StandardRef(k)[3] = "opencti"
      BY DEF StandardRef
  <2>6. ASSUME NEW e \in Keys
        PROVE  /\ Present(e)' => nodes'[e] = nodes[e] \/ nodes'[e][3] = "opencti"
               /\ Present(e)' /\ ~Present(e) => e = k
               /\ e \in authored => e \in authored'
    <3> HIDE DEF k
    <3> QED
        BY <2>1, <2>3, <2>4, <2>5 DEF Present
  <2>7. \E d \in ToSet(cands) : EntityKey(d) = k /\ d.existing = None
      BY <1>2, <2>1
  <2> HIDE DEF k
  <2>8. Appears
      BY <2>6, <2>7 DEF Appears, Present
  <2>9. \A e \in Keys : e # k => text'[e] = text[e]
      BY <2>1, NotWritten
  <2>10. k \notin matched /\ matched \subseteq Keys
      BY <1>2, <1>3, <2>1
  <2>11. Spared
      BY <2>9, <2>10 DEF Spared
  <2> QED
      BY <2>8, <2>11
<1>6. CASE AddAgain(c)
  <2>1. c.existing = None /\ text' = Describe({k}) /\ nodes' = nodes /\ authored' = authored
      BY <1>6 DEF AddAgain
  <2>2. Appears
      BY <2>1 DEF Appears, Present
  <2> HIDE DEF k
  <2>3. Spared
      BY <1>2, <1>3, <2>1, NotWritten DEF Spared
  <2> QED
      BY <2>2, <2>3
<1> QED
    BY <1>1, <1>4, <1>5, <1>6 DEF NativeStep, LinkNative, PassOver

LEMMA BeginFinds ==
    ASSUME TypeInv, OwnIds, NEW i \in Items, Begin(i)
    PROVE  \A c \in ToSet(cands') : Found(c)'
<1> SUFFICES ASSUME NEW c \in ToSet(cands') PROVE Found(c)'
    OBVIOUS
<1>1. /\ EntityKey(c) \in matched' => c.existing # None /\ c.existing[1] \in RefPrefixes(c)
      /\ c.existing # None => c.existing = nodes[EntityKey(c)]
      /\ \A e \in ToSet(cands') :
            EntityKey(e) = EntityKey(c) /\ c.existing = None => e.existing = None
      /\ FromRecords(c)
    BY Started
<1>2. EntityKey(c) \in Keys
    BY <1>1, InUse
<1>3. nodes' = nodes /\ authored' = authored
    BY DEF Begin, platform
<1>4. c.existing # None /\ c.existing[3] = "narrowcti" => EntityKey(c) \in authored'
    BY <1>1, <1>2, <1>3 DEF OwnIds, Present, NoNode
<1> QED
    BY <1>1, <1>4 DEF Found

\* What a step may write.
LEMMA StepSpares ==
    ASSUME TypeInv, TextInv, [Next]_vars
    PROVE  Appears /\ (edits' = edits => Spared)
<1>k. ASSUME UNCHANGED platform PROVE Appears /\ Spared
    BY <1>k DEF platform, Appears, Spared, Present
<1>1. CASE Import
    BY <1>1, TakesSpares DEF Import, TextInv, Sending
<1>2. CASE Reject
    BY <1>2, TakesSpares DEF Reject, TextInv, Sending
<1>3. CASE CreateNative
    BY <1>3, NativeSpares DEF CreateNative, TextInv, Sending
<1>4. CASE PatchText
  <2>1. nodes' = nodes /\ authored' = authored /\ pc = "patch" /\ matched \subseteq Keys
      BY <1>4 DEF PatchText, TypeInv, TypeOK
  <2>2. Appears
      BY <2>1 DEF Appears, Present
  <2>3. CASE Present(read)
    <3>1. text' = Describe({read}) /\ read \in authored
        BY <1>4, <2>1, <2>3 DEF PatchText, TextInv
    <3> QED
        BY <2>1, <2>2, <3>1, NotWritten DEF Spared
  <2>4. CASE ~Present(read)
      BY <1>4, <2>2, <2>4 DEF PatchText, Spared
  <2> QED
      BY <2>3, <2>4
<1>5. CASE Edit
  <2>1. PICK k \in Keys :
           \/ UNCHANGED <<nodes, authored>>
           \/ nodes' = [nodes EXCEPT ![k] = NoNode] /\ authored' = authored \ {k}
      BY <1>5 DEF Edit
  <2>2. Appears
      BY <2>1 DEF Appears, Present, TypeInv, TypeOK
  <2>3. edits' # edits
    <3>1. edits \in 0 .. deployment.edits
        BY DEF TypeInv, TypeOK
    <3>2. edits \in Int /\ edits' = edits + 1
        BY <1>5, <3>1 DEF Edit
    <3> QED
        BY <3>2
  <2> QED
      BY <2>2, <2>3
<1>6. UNCHANGED platform \/ Import \/ Reject \/ CreateNative \/ PatchText \/ Edit
    BY DEF Next, Step, Disturb, Begin, EndNative, ReadText, EndDescribe, SaveState, Audit,
           MarkIndex, MarkFails, Crash, LoseState, vars
<1> QED
    BY <1>k, <1>1, <1>2, <1>3, <1>4, <1>5, <1>6

LEMMA TextStep == TypeInv /\ TextInv /\ [Next]_vars => TextInv'
<1> SUFFICES ASSUME TypeInv, TextInv, [Next]_vars PROVE TextInv'
    OBVIOUS
<1>o. OwnIds'
    BY StepSpares, OwnIdsKept DEF TextInv
<1>1. ASSUME NEW i \in Items, Begin(i) PROVE TextInv'
  <2>1. pc' # "patch"
      BY <1>1 DEF Begin
  <2> QED
      BY <1>o, <1>1, <2>1, BeginFinds DEF TextInv
<1>2. CASE pc' \notin Sending
    BY <1>o, <1>2 DEF TextInv, Sending
<1>3. ASSUME pc \in Sending, UNCHANGED <<cands, matched>>,
             pc' = "patch" => read' \in Keys /\ (~Present(read)' \/ read' \in authored')
      PROVE  TextInv'
    BY <1>o, <1>3, StepSpares, FoundKept DEF TextInv
<1>4. CASE Import \/ CreateNative \/ EndNative \/ PatchText
    BY <1>3, <1>4 DEF Import, CreateNative, EndNative, PatchText, Sending
<1>5. CASE ReadText
  <2>1. pc = "describe" /\ UNCHANGED <<cands, matched, nodes, authored>>
      BY <1>5 DEF ReadText, platform
  <2>2. pc' = "patch" => Ours(read')
      BY <1>5 DEF ReadText
  <2>3. ASSUME NEW c \in ToSet(cands), Hydrates(c)
        PROVE  EntityKey(c) \in Keys /\ (~Present(EntityKey(c)) \/ EntityKey(c) \in authored)
    <3>1. ObjectRef(c) = ExistingRef(c) /\ ObjectRef(c) # None
        BY <2>3, BuiltIsOwn DEF Hydrates, Reserved
    <3>2. c.existing = ObjectRef(c) /\ c.existing # None
        BY <3>1 DEF ExistingRef
    <3>3. c.existing[3] = "narrowcti"
        BY <3>2 DEF ObjectRef
    <3> QED
        BY <2>1, <3>2, <3>3, InUse DEF TextInv, TypeInv, Found, Sending
  <2>4. pc' = "patch" => read' \in Keys /\ (~Present(read)' \/ read' \in authored')
      BY <2>1, <2>2, <2>3 DEF Ours, Present, TypeInv, TypeOK
  <2> QED
      BY <1>3, <2>1, <2>4 DEF Sending
<1>6. CASE Edit
  <2>1. PICK k \in Keys :
           \/ UNCHANGED <<nodes, authored>>
           \/ nodes' = [nodes EXCEPT ![k] = NoNode] /\ authored' = authored \ {k}
      BY <1>6 DEF Edit
  <2>2. UNCHANGED <<pc, cands, matched, read>>
      BY <1>6 DEF Edit, local
  <2>3. nodes' = [nodes EXCEPT ![k] = NoNode] => nodes'[k] = NoNode
      BY DEF TypeInv, TypeOK
  <2>4. ASSUME NEW e \in Keys, ~Present(e) \/ e \in authored
        PROVE  ~Present(e)' \/ e \in authored'
    <3>1. nodes' = [nodes EXCEPT ![k] = NoNode] /\ e # k => nodes'[e] = nodes[e]
        BY DEF TypeInv, TypeOK
    <3> QED
        BY <2>1, <2>3, <2>4, <3>1 DEF Present
  <2>5. pc' = "patch" => read' \in Keys /\ (~Present(read)' \/ read' \in authored')
      BY <2>2, <2>4 DEF TextInv, Present
  <2> QED
      BY <1>2, <1>3, <2>2, <2>5
<1>7. CASE UNCHANGED vars
    BY <1>2, <1>3, <1>7 DEF vars, local, platform, TextInv, Present
<1>8. CASE LoseState
    BY <1>8, <1>2 DEF LoseState, local, Sending
<1>9. CASE Reject \/ EndDescribe \/ SaveState \/ Audit \/ MarkIndex \/ MarkFails \/ Crash
    BY <1>2, <1>9 DEF Reject, EndDescribe, SaveState, Audit, MarkIndex, MarkFails, Crash,
           Clear, Sending
<1> QED
    BY <1>1, <1>4, <1>5, <1>6, <1>7, <1>8, <1>9 DEF Next, Step, Disturb

LEMMA SparedIsKept ==
    ASSUME edits' = edits => Spared
    PROVE  \A k \in matched :
              (/\ Present(k) /\ k \notin authored
               /\ \A c \in ToSet(cands) : EntityKey(c) = k => c.type \notin Renamed
               /\ edits' = edits)
              => text'[k] = text[k]
BY DEF Spared

\* The description of an object of another author, be it empty, outlasts every
\* export whose lookup found that object: neither the bundle nor the native
\* objects nor the hydration write on it, whatever fails in between and whoever
\* deletes it or other objects (exporters/stix_builder.py
\* graph_candidate_hydrates_existing_ref, exporters/opencti.py send_bundle).
THEOREM FoundTextStays == Spec => FoundTextIsKept
<1>1. TypeInv /\ TextInv /\ [Next]_vars =>
         \A k \in matched :
            (/\ Present(k) /\ k \notin authored
             /\ \A c \in ToSet(cands) : EntityKey(c) = k => c.type \notin Renamed
             /\ edits' = edits)
            => text'[k] = text[k]
    BY StepSpares, SparedIsKept
<1> QED
    BY TypeInit, TypeStep, TextInit, TextStep, <1>1, PTL DEF Spec, FoundTextIsKept

---------------------------------------------------------------------------
(* What is held is not delivered *)

DeliveredInv == delivered.rels \subseteq {RelationshipKey(d) : d \in AllAccepted}

LEMMA DeliveredInit == Init => DeliveredInv
BY DEF Init, DeliveredInv

LEMMA InUseAccepted ==
    ASSUME TypeInv
    PROVE  RelsOf(cands) \subseteq {RelationshipKey(d) : d \in AllAccepted}
<1> SUFFICES ASSUME NEW c \in ToSet(cands)
             PROVE  \E d \in AllAccepted : RelationshipKey(c) = RelationshipKey(d)
    BY DEF RelsOf
<1>1. PICK d \in AllAccepted : Alike(c, d)
    BY DEF TypeInv, FromRecords
<1> QED
    BY <1>1, AlikeKeys

LEMMA DeliveredStep == TypeInv /\ DeliveredInv /\ [Next]_vars => DeliveredInv'
<1> SUFFICES ASSUME TypeInv, DeliveredInv, [Next]_vars PROVE DeliveredInv'
    OBVIOUS
<1>k. ASSUME delivered'.rels \subseteq delivered.rels \union RelsOf(cands) PROVE DeliveredInv'
    BY <1>k, InUseAccepted DEF DeliveredInv
<1>1. CASE UNCHANGED delivered
    BY <1>1, <1>k
<1>2. CASE Import
    BY <1>2, <1>k, Taken DEF Import
<1>3. CASE Reject
    BY <1>3, <1>k, Taken DEF Reject
<1>4. CASE CreateNative
  <2>1. PICK c \in todo :
           \/ delivered' = [delivered EXCEPT !.ents = @ \union {EntityKey(c)},
                                             !.rels = @ \union {RelationshipKey(c)}]
           \/ delivered' = delivered
      BY <1>4, NativeDelivers
  <2>2. c \in ToSet(cands)
      BY <1>4 DEF CreateNative, TypeInv
  <2>3. delivered'.rels \subseteq delivered.rels \union {RelationshipKey(c)}
      BY <2>1 DEF TypeInv, Delivery
  <2> QED
      BY <1>k, <2>2, <2>3 DEF RelsOf
<1>5. UNCHANGED delivered \/ Import \/ Reject \/ CreateNative
    BY DEF Next, Step, Disturb, Begin, EndNative, ReadText, PatchText, EndDescribe, SaveState,
           Audit, MarkIndex, MarkFails, Crash, LoseState, Edit, platform, vars
<1> QED
    BY <1>1, <1>2, <1>3, <1>4, <1>5

\* No reason holds when the set of those that do is empty.
LEMMA NoReason ==
    ASSUME NEW a \in BOOLEAN, NEW b \in BOOLEAN, NEW c \in BOOLEAN, NEW d \in BOOLEAN,
           NEW e \in BOOLEAN, NEW f \in BOOLEAN,
           LET holds == [entity_confidence_below_min |-> a,
                         relationship_confidence_below_min |-> b,
                         entity_type_not_allowed |-> c,
                         stix_object_type_not_allowed |-> d,
                         relationship_provenance_required |-> e,
                         relationship_requires_opencti_validation |-> f]
           IN {r \in DOMAIN holds : holds[r]} = {}
    PROVE  ~a /\ ~b /\ ~f
OBVIOUS

LEMMA AcceptedIsSure ==
    ASSUME NEW d, IsAccepted(d)
    PROVE  /\ d.validate => AllowVictimology /\ d.victim
           /\ ~(d.conf < MinEntityConfidence \/ d.rconf < MinRelationshipConfidence)
<1> DEFINE low == d.conf < MinEntityConfidence
           weak == d.rconf < MinRelationshipConfidence
           entity == ~Admits(Allowed(AllowedEntityTypes, SafeEntityTypes), d.ent)
           type == ~Admits(Allowed(AllowedStixTypes, SafeStixTypes), d.type)
           bare == RequireProvenance /\ ~d.prov
           waits == d.validate /\ ~(AllowVictimology /\ IsVictimology(d))
           holds == [entity_confidence_below_min |-> low,
                     relationship_confidence_below_min |-> weak,
                     entity_type_not_allowed |-> entity,
                     stix_object_type_not_allowed |-> type,
                     relationship_provenance_required |-> bare,
                     relationship_requires_opencti_validation |-> waits]
<1>1. {r \in DOMAIN holds : holds[r]} = {}
    BY DEF IsAccepted, HeldReasons
<1>2. /\ low \in BOOLEAN /\ weak \in BOOLEAN /\ entity \in BOOLEAN
      /\ type \in BOOLEAN /\ bare \in BOOLEAN /\ waits \in BOOLEAN
    OBVIOUS
<1> HIDE DEF low, weak, entity, type, bare, waits
<1>3. ~low /\ ~weak /\ ~waits
    BY <1>1, <1>2, NoReason
<1> QED
    BY <1>3 DEF low, weak, waits, IsVictimology

LEMMA NotHeld == DeliveredInv => HeldIsNotDelivered
<1> SUFFICES ASSUME DeliveredInv, NEW key \in delivered.rels
             PROVE  \E r \in AllRecords :
                       LET c == Candidate(r) IN
                       /\ RelationshipKey(c) = key
                       /\ c.validate => AllowVictimology /\ c.victim
                       /\ ~(c.conf < MinEntityConfidence \/ c.rconf < MinRelationshipConfidence)
    BY DEF HeldIsNotDelivered
<1>1. PICK d \in AllAccepted : key = RelationshipKey(d)
    BY DEF DeliveredInv
<1>2. PICK i \in Items : d \in ToSet(Accepts[i])
    BY DEF AllAccepted
<1>3. PICK r \in ToSet(Evidence[i]) : d = Candidate(r) /\ IsAccepted(d)
    BY <1>2, AcceptedIsRecord
<1>4. r \in AllRecords
    BY <1>3 DEF AllRecords
<1> QED
    BY <1>1, <1>3, <1>4, AcceptedIsSure

\* Nothing the policy holds back reaches OpenCTI, by itself, as the anchor of
\* another candidate or in a second export: a relationship that is delivered is
\* that of a record which is sure enough and waits for no validation it has not
\* got (core/graph_candidates.py apply_graph_candidate_policy).
THEOREM HeldStays == Spec => []HeldIsNotDelivered
BY TypeInit, TypeStep, DeliveredInit, DeliveredStep, NotHeld, PTL DEF Spec
=============================================================================
