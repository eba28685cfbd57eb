----------------------- MODULE QuarantineReviewProofs -----------------------
(***************************************************************************)
(* Proofs about QuarantineReview, for any number of records, indicator     *)
(* types, requests, commands and gateways, and any bound on deliveries.    *)
(*                                                                         *)
(*   TypeCorrect         every step keeps the variables in their types     *)
(*   AuditStands         the release audit is never contradicted by the    *)
(*                       repository, when reviewers are serialized         *)
(*   ReleaseIsRespected  OpenCTI only receives what the current review     *)
(*                       releases, when reviewers are serialized           *)
(*                                                                         *)
(* The first part is about the append-only file alone.                     *)
(***************************************************************************)
EXTENDS QuarantineReview, SequenceTheorems, WellFoundedInduction, TLAPS

\* A non-empty set of positions of a finite file has a last element, so the
\* CHOOSE of LastPosition always finds one.
LEMMA LastExists ==
    ASSUME NEW n \in Nat, NEW T, T \subseteq 1 .. n, T # {}
    PROVE  \E m \in T : \A j \in T : j <= m
<1> DEFINE U == {k \in Nat : \E i \in T : k = n - i}
<1>1. U \subseteq Nat
  OBVIOUS
<1>2. PICK i \in T : TRUE
  OBVIOUS
<1>3. i \in 1 .. n
  BY <1>2
<1>4. n - i \in U
  BY <1>2, <1>3
<1>5. PICK x \in U : \A y \in U : ~ (<<y, x>> \in OpToRel(<, Nat))
  <2> HIDE DEF U
  <2> QED BY <1>1, <1>4, NatLessThanWellFounded, WFMin
<1>6. PICK m \in T : x = n - m
  OBVIOUS
<1>7. ASSUME NEW j \in T PROVE j <= m
  <2>1. j \in 1 .. n /\ m \in 1 .. n
    BY <1>6
  <2>2. n - j \in U
    BY <2>1
  <2>3. ~ (<<n - j, x>> \in OpToRel(<, Nat))
    BY <1>5, <2>2
  <2>4. ~ (n - j < x)
    BY <2>3, <1>1, <2>2 DEF OpToRel
  <2> QED
    BY <2>1, <2>4, <1>6
<1> QED
  BY <1>7

\* The current record of a known id is a line of the file with that id.
LEMMA CurrentIsALine ==
    ASSUME NEW l \in Seq(Record), NEW id, IsKnown(l, id)
    PROVE  /\ LastPosition(l, id) \in Positions(l, id)
           /\ \A j \in Positions(l, id) : j <= LastPosition(l, id)
           /\ CurrentRecord(l, id) \in Record
           /\ CurrentRecord(l, id).id = id
<1>1. Positions(l, id) \subseteq 1 .. Len(l) /\ Len(l) \in Nat
  BY LenProperties DEF Positions
<1>2. \E m \in Positions(l, id) : \A j \in Positions(l, id) : j <= m
  BY <1>1, LastExists DEF IsKnown
<1>3. /\ LastPosition(l, id) \in Positions(l, id)
      /\ \A j \in Positions(l, id) : j <= LastPosition(l, id)
  BY <1>2 DEF LastPosition
<1> QED
  BY <1>1, <1>3, ElementOfSeq DEF CurrentRecord, Positions

\* Appending a line makes it the current record of its id, and leaves the
\* current records of all other ids alone.
LEMMA AppendedIsCurrent ==
    ASSUME NEW l \in Seq(Record), NEW r \in Record
    PROVE  /\ Append(l, r) \in Seq(Record)
           /\ IsKnown(Append(l, r), r.id)
           /\ CurrentRecord(Append(l, r), r.id) = r
           /\ \A id : id # r.id =>
                 /\ IsKnown(Append(l, r), id) <=> IsKnown(l, id)
                 /\ IsKnown(l, id) =>
                       CurrentRecord(Append(l, r), id) = CurrentRecord(l, id)
<1> DEFINE n == Len(l)
           k == Append(l, r)
<1>1. /\ n \in Nat /\ DOMAIN l = 1 .. n
      /\ k \in Seq(Record) /\ DOMAIN k = 1 .. n + 1
      /\ \A i \in 1 .. n : k[i] = l[i]
      /\ k[n + 1] = r
  BY LenProperties, AppendProperties
<1>2. n + 1 \in Positions(k, r.id)
  BY <1>1 DEF Positions
<1>3. LastPosition(k, r.id) = n + 1
  <2>1. \A j \in Positions(k, r.id) : j \in 1 .. n + 1
    BY <1>1 DEF Positions
  <2>2. LastPosition(k, r.id) \in Positions(k, r.id) /\ n + 1 <= LastPosition(k, r.id)
    BY <1>1, <1>2, CurrentIsALine DEF IsKnown
  <2> QED
    BY <1>1, <2>1, <2>2
<1>4. ASSUME NEW id, id # r.id
      PROVE  Positions(k, id) = Positions(l, id)
  BY <1>1, <1>4 DEF Positions
<1>5. ASSUME NEW id, id # r.id, IsKnown(l, id)
      PROVE  CurrentRecord(k, id) = CurrentRecord(l, id)
  <2>1. LastPosition(k, id) = LastPosition(l, id)
    BY <1>4, <1>5 DEF LastPosition
  <2>2. LastPosition(l, id) \in 1 .. n
    BY <1>1, <1>5, CurrentIsALine DEF Positions
  <2> QED
    BY <1>1, <2>1, <2>2 DEF CurrentRecord
<1> QED
  BY <1>1, <1>2, <1>3, <1>4, <1>5 DEF IsKnown, CurrentRecord

-----------------------------------------------------------------------------
(* Types                                                                    *)

\* The fields of an operation have their types.
LEMMA OperationFields ==
    \A o \in Operation : /\ o.id \in RecordIds
                         /\ o.action \in Decisions \cup {"add", "export"}
                         /\ o.types \in SUBSET IndicatorTypes
  BY DEF Operation, Decisions

\* The fields of a record have their types.
LEMMA RecordFields ==
    \A r \in Record : /\ r.id \in RecordIds
                      /\ r.status \in Statuses
                      /\ r.types \in SUBSET IndicatorTypes
                      /\ r.exported \in BOOLEAN
  BY DEF Record

\* add writes a record.
LEMMA NewRecordType == \A id \in RecordIds : NewRecord(id) \in Record
  BY DEF NewRecord, Record, Statuses

\* What a decision and an export mark do to a record.
LEMMA DecidedFields ==
    ASSUME NEW rec \in Record, NEW o \in Operation
    PROVE  /\ Decided(rec, o) \in Record
           /\ Decided(rec, o).id = rec.id
           /\ Decided(rec, o).status \in {"released", "partially-released", "rejected"}
  BY RecordFields, OperationFields
  DEF Decided, DecidedStatus, Record, Statuses, FinalStatuses

\* The export mark changes nothing but the mark.
LEMMA MarkedFields ==
    ASSUME NEW rec \in Record
    PROVE  /\ MarkedExported(rec) \in Record
           /\ MarkedExported(rec).id = rec.id
           /\ MarkedExported(rec).status = rec.status
           /\ MarkedExported(rec).types = rec.types
           /\ MarkedExported(rec).exported
  BY DEF MarkedExported, Record

\* What a record releases are indicator types.
LEMMA ReleasedType ==
    ASSUME NEW rec \in Record
    PROVE  ReleasedIndicators(rec) \subseteq IndicatorTypes
  BY RecordFields, HoldsAssumption DEF ReleasedIndicators

\* Where an actor is in its operation says what it carries.
Carried ==
    /\ \A g \in Gateways :
          /\ pc[g] \in {"idle", "append"}
          /\ pc[g] = "append" => op[g] \in Operation
    /\ \A r \in Reviewers :
          /\ pc[r] # "idle" => op[r] \in Operation /\ op[r].action # "add"
          /\ pc[r] \in {"sending", "marking", "append", "audit"} =>
                snap[r] \in Record /\ snap[r].id = op[r].id

TypeInv == TypeOK /\ Carried

\* The end of an operation, and of a killed process, disturbs nobody else.
LEMMA FinishTypes ==
    ASSUME TypeInv, NEW a \in Actors, Finish(a)
    PROVE  /\ lock' \in Requests \cup {None}
           /\ pc' \in [Actors -> Steps]
           /\ op' \in [Actors -> Operation \cup {None}]
           /\ snap' \in [Actors -> Record \cup {None}]
           /\ Carried'
<1> USE DEF TypeInv, TypeOK, Finish, Goto
<1>1. /\ lock' \in Requests \cup {None}
      /\ pc' \in [Actors -> Steps]
      /\ op' \in [Actors -> Operation \cup {None}]
      /\ snap' \in [Actors -> Record \cup {None}]
  BY DEF Steps
<1>2. \A b \in Actors : \/ b = a /\ pc'[b] = "idle"
                        \/ /\ b # a /\ pc'[b] = pc[b]
                           /\ op'[b] = op[b] /\ snap'[b] = snap[b]
  OBVIOUS
<1>3. Carried'
  BY <1>2 DEF Carried, Actors, Reviewers
<1> QED
  BY <1>1, <1>3

\* The record a reviewer appends is well-formed and keeps its id.
LEMMA UpdatedRecord ==
    ASSUME TypeInv, NEW r \in Reviewers, pc[r] = "append"
    PROVE  /\ Updated(r) \in Record
           /\ Updated(r).id = op[r].id
<1>1. /\ op[r] \in Operation /\ snap[r] \in Record
      /\ snap[r].id = op[r].id
  BY DEF TypeInv, Carried
<1> QED
  BY <1>1, DecidedFields, MarkedFields DEF Updated

\* The repository file stays a sequence of records.
LEMMA AppendLineType ==
    ASSUME log \in Seq(Record), NEW rec \in Record, AppendLine(rec)
    PROVE  log' \in Seq(Record)
  BY AppendProperties DEF AppendLine

\* Initially every variable has its type.
LEMMA InitTypes == Init => TypeInv
<1> SUFFICES ASSUME Init PROVE TypeInv
  OBVIOUS
<1>1. log \in Seq(Record) /\ audit \in Seq(AuditEvent)
  BY EmptySeq DEF Init
<1> QED
  BY <1>1 DEF Init, TypeInv, TypeOK, Carried, Actors, Reviewers, Steps

\* Every step of every process keeps the types.
LEMMA NextTypes == TypeInv /\ [Next]_vars => TypeInv'
<1> SUFFICES ASSUME TypeInv, [Next]_vars PROVE TypeInv'
  OBVIOUS
<1> USE DEF TypeInv, TypeOK
<1>1. ASSUME NEW g \in Gateways, NEW id \in RecordIds, GatewayFind(g, id)
      PROVE  TypeInv'
  <2>1. [action |-> "add", id |-> id, types |-> {}] \in Operation
    BY DEF Operation
  <2>2. g \in Actors /\ \A r \in Reviewers : r # g
    BY ActorsAssumption DEF Actors
  <2>3. TypeOK'
    BY <1>1, <2>1, <2>2 DEF GatewayFind, Goto, Steps, files, opencti
  <2>4. Carried'
    BY <1>1, <2>1, <2>2 DEF GatewayFind, Goto, Carried, Actors
  <2> QED
    BY <2>3, <2>4
<1>2. ASSUME NEW g \in Gateways, GatewayAppend(g)
      PROVE  TypeInv'
  <2>1. log' \in Seq(Record)
    BY <1>2, NewRecordType, OperationFields, AppendLineType
    DEF GatewayAppend, Carried
  <2> QED
    BY <1>2, <2>1, FinishTypes DEF GatewayAppend, Actors, opencti
<1>3. ASSUME NEW r \in Reviewers, Submit(r)
      PROVE  TypeInv'
  <2>1. PICK o \in Operation : o.action # "add" /\ op' = [op EXCEPT ![r] = o]
    BY <1>3 DEF Submit
  <2>2. r \in Actors /\ \A g \in Gateways : r # g
    BY ActorsAssumption DEF Actors
  <2>3. TypeOK'
    BY <1>3, <2>1, <2>2 DEF Submit, Goto, Steps, files, opencti
  <2>4. Carried'
    BY <1>3, <2>1, <2>2 DEF Submit, Goto, Carried, Actors
  <2> QED
    BY <2>3, <2>4
<1>4. ASSUME NEW r \in Requests, Acquire(r)
      PROVE  TypeInv'
  <2>1. r \in Reviewers /\ r \in Actors /\ \A g \in Gateways : r # g
    BY ActorsAssumption DEF Actors, Reviewers
  <2>3. TypeOK'
    BY <1>4, <2>1 DEF Acquire, Goto, Steps, files, opencti
  <2>4. Carried'
    BY <1>4, <2>1 DEF Acquire, Goto, Carried, Actors
  <2> QED
    BY <2>3, <2>4
<1>5. ASSUME NEW r \in Reviewers, Read(r)
      PROVE  TypeInv'
  <2>1. /\ r \in Actors /\ \A g \in Gateways : r # g
        /\ op[r] \in Operation
    BY <1>5, ActorsAssumption DEF Actors, Read, Carried
  <2>2. /\ Current(op[r].id) \in Record
        /\ Current(op[r].id).id = op[r].id
    BY <1>5, CurrentIsALine DEF Read, MayProceed, CanRead, Current
  <2>3. TypeOK'
    BY <1>5, <2>1, <2>2 DEF Read, Goto, Steps, files, opencti
  <2>4. Carried'
    BY <1>5, <2>1, <2>2 DEF Read, Goto, Carried, Actors
  <2> QED
    BY <2>3, <2>4
<1>6. ASSUME NEW r \in Reviewers, Refuse(r)
      PROVE  TypeInv'
  BY <1>6, FinishTypes DEF Refuse, Actors, files, opencti
<1>7. ASSUME NEW r \in Reviewers, Send(r)
      PROVE  TypeInv'
  <2>1. /\ r \in Actors /\ \A g \in Gateways : r # g
        /\ op[r].id \in RecordIds /\ snap[r] \in Record
    BY <1>7, ActorsAssumption, OperationFields DEF Actors, Send, Carried
  <2>2. ReleasedIndicators(snap[r]) \subseteq IndicatorTypes
    BY <2>1, ReleasedType
  <2>3. /\ deliveries' \in [RecordIds -> Nat]
        /\ delivered' \in [RecordIds -> SUBSET IndicatorTypes]
    BY <1>7, <2>1, <2>2 DEF Send
  <2>4. TypeOK'
    BY <1>7, <2>1, <2>3 DEF Send, Goto, Steps, files
  <2>5. Carried'
    BY <1>7, <2>1 DEF Send, Goto, Carried, Actors
  <2> QED
    BY <2>4, <2>5
<1>8. ASSUME NEW r \in Reviewers, SendFails(r)
      PROVE  TypeInv'
  BY <1>8, FinishTypes DEF SendFails, Actors, files, opencti
<1>9. ASSUME NEW r \in Reviewers, MarkRead(r)
      PROVE  TypeInv'
  <2>1. /\ r \in Actors /\ \A g \in Gateways : r # g
        /\ op[r] \in Operation
    BY <1>9, ActorsAssumption DEF Actors, MarkRead, Carried
  <2>2. /\ Current(op[r].id) \in Record
        /\ Current(op[r].id).id = op[r].id
    BY <1>9, CurrentIsALine DEF MarkRead, CanRead, Current
  <2>3. TypeOK'
    BY <1>9, <2>1, <2>2 DEF MarkRead, Goto, Steps, files, opencti
  <2>4. Carried'
    BY <1>9, <2>1, <2>2 DEF MarkRead, Goto, Carried, Actors
  <2> QED
    BY <2>3, <2>4
<1>10. ASSUME NEW r \in Reviewers, MarkRefused(r)
       PROVE  TypeInv'
  BY <1>10, FinishTypes DEF MarkRefused, Actors, files, opencti
<1>11. ASSUME NEW r \in Reviewers, AppendUpdate(r)
       PROVE  TypeInv'
  <2>1. r \in Actors /\ \A g \in Gateways : r # g
    BY ActorsAssumption DEF Actors
  <2>2. Updated(r) \in Record /\ Updated(r).id = op[r].id
    BY <1>11, UpdatedRecord DEF AppendUpdate
  <2>3. log' \in Seq(Record)
    BY <1>11, <2>2, AppendLineType DEF AppendUpdate
  <2>4. TypeOK'
    BY <1>11, <2>1, <2>2, <2>3 DEF AppendUpdate, Goto, Steps, opencti
  <2>5. Carried'
    BY <1>11, <2>1, <2>2 DEF AppendUpdate, Goto, Carried, Actors
  <2> QED
    BY <2>4, <2>5
<1>12. ASSUME NEW r \in Reviewers, AppendAudit(r)
       PROVE  TypeInv'
  <2> DEFINE e == [id |-> op[r].id, status |-> snap[r].status, action |-> op[r].action]
  <2>1. /\ op[r] \in Operation /\ op[r].action # "add"
        /\ snap[r] \in Record
    BY <1>12 DEF AppendAudit, Carried
  <2>2. e \in AuditEvent
    BY <2>1, OperationFields, RecordFields DEF AuditEvent
  <2>3. audit' \in Seq(AuditEvent)
    <3> HIDE DEF e
    <3> QED BY <1>12, <2>2, AppendProperties DEF AppendAudit, e
  <2> QED
    BY <1>12, <2>3, FinishTypes DEF AppendAudit, Actors, opencti
<1>13. ASSUME NEW a \in Actors, TearAppend(a) \/ CrashProcess(a)
       PROVE  TypeInv'
  BY <1>13, FinishTypes DEF TearAppend, CrashProcess, files, opencti
<1>14. ASSUME NEW r \in Reviewers, AuditFails(r)
       PROVE  TypeInv'
  BY <1>14, FinishTypes DEF AuditFails, Actors, files, opencti
<1>15. CASE CrashServer
  <2>1. TypeOK'
    BY <1>15 DEF CrashServer, Steps, files, opencti
  <2>2. Carried'
    BY <1>15 DEF CrashServer, Carried, Actors, Reviewers
  <2> QED
    BY <2>1, <2>2
<1>16. CASE UNCHANGED vars
  BY <1>16 DEF vars, Carried
<1> QED
  BY <1>1, <1>2, <1>3, <1>4, <1>5, <1>6, <1>7, <1>8, <1>9, <1>10, <1>11,
     <1>12, <1>13, <1>14, <1>15, <1>16
  DEF Next, GatewayStep, Proceed, Fault

\* Every reachable state is well-typed, and an actor that is about to send,
\* mark, append or audit carries a record with the id it works on: the files
\* never receive a malformed line, in whatever order the processes run.
THEOREM TypeCorrect == Spec => []TypeOK
<1>1. TypeInv => TypeOK
  BY DEF TypeInv
<1> QED
  BY <1>1, InitTypes, NextTypes, PTL DEF Spec

-----------------------------------------------------------------------------
(* Safety of serialized reviews                                             *)

InSection(r) == pc[r] \in {"reading", "sending", "marking", "append", "audit"}

\* A request is inside its operation exactly when it owns the lock.
LockHeld == \A r \in Requests : InSection(r) <=> lock = r

\* What a reviewer read is still the current record when it appends.
ReadIsCurrent ==
    \A r \in Reviewers :
        /\ pc[r] \in {"sending", "marking", "append"} =>
              IsKnown(log, op[r].id) /\ Current(op[r].id) = snap[r]
        /\ pc[r] \in {"sending", "marking"} =>
              op[r].action = "export" /\ CanExport(snap[r])
        /\ pc[r] = "append" =>
              IF op[r].action = "export" THEN CanMarkExported(snap[r])
                                         ELSE CanDecide(snap[r], op[r])
        /\ pc[r] = "audit" =>
              /\ snap[r].status # "pending"
              /\ op[r].action = "export" => snap[r].exported
              /\ readable => /\ IsKnown(log, op[r].id)
                             /\ Current(op[r].id) = snap[r]

\* What a gateway did not find is still not there when it appends.
FindIsCurrent ==
    \A g \in Gateways : pc[g] = "append" => ~IsKnown(log, op[g].id)

AuditIsFinal == \A i \in DOMAIN audit : audit[i].status # "pending"

\* Neither audited facts nor deliveries are inductive by themselves: both need
\* that the reader's snapshot is current, which in turn needs the lock.
ReviewInv ==
    /\ LockHeld
    /\ ReadIsCurrent
    /\ FindIsCurrent
    /\ AuditIsFinal
    /\ AuditedDecisionStands
    /\ DeliveredWithinRelease

\* Serialized reviewers: no two are between a read and its append.
LEMMA OneReviewer ==
    ASSUME Serialized, LockHeld, NEW r \in Reviewers, NEW s \in Reviewers,
           InSection(r), InSection(s)
    PROVE  r = s
  BY DEF Serialized, LockHeld, Reviewers

\* The file after a line was appended, seen through get().
LEMMA AfterAppend ==
    ASSUME log \in Seq(Record), readable \in BOOLEAN,
           NEW rec \in Record, AppendLine(rec)
    PROVE  /\ \A id : IsKnown(log, id) => IsKnown(log', id)
           /\ \A id : id # rec.id =>
                 /\ IsKnown(log', id) <=> IsKnown(log, id)
                 /\ IsKnown(log, id) =>
                       CurrentRecord(log', id) = CurrentRecord(log, id)
           /\ readable => /\ IsKnown(log', rec.id)
                          /\ CurrentRecord(log', rec.id) = rec
           /\ ~readable => log' = log
<1>1. CASE readable
  <2>1. log' = Append(log, rec)
    BY <1>1 DEF AppendLine
  <2> QED
    BY <1>1, <2>1, AppendedIsCurrent
<1>2. CASE ~readable
  BY <1>2 DEF AppendLine
<1> QED
  BY <1>1, <1>2

\* An actor that ends leaves the section; the others stay where they are.
LEMMA FinishLeaves ==
    ASSUME TypeOK, LockHeld, NEW a \in Actors, Finish(a)
    PROVE  /\ \A b \in Actors : \/ b = a /\ pc'[b] = "idle"
                                \/ /\ b # a /\ pc'[b] = pc[b]
                                   /\ op'[b] = op[b] /\ snap'[b] = snap[b]
           /\ LockHeld'
<1>1. \A b \in Actors : \/ b = a /\ pc'[b] = "idle"
                        \/ /\ b # a /\ pc'[b] = pc[b]
                           /\ op'[b] = op[b] /\ snap'[b] = snap[b]
  BY DEF Finish, Goto, TypeOK
<1>2. \A b \in Requests : b \in Actors /\ b # None
  BY NoneAssumption DEF Actors, Reviewers
<1>3. LockHeld'
  BY <1>1, <1>2 DEF LockHeld, InSection, Finish, TypeOK
<1> QED
  BY <1>1, <1>3

\* Ending without touching a file keeps the invariant.
LEMMA FinishKeepsInv ==
    ASSUME TypeOK, ReviewInv, NEW a \in Actors, Finish(a),
           UNCHANGED <<log, audit, delivered>>,
           readable' => readable
    PROVE  ReviewInv'
<1>1. LockHeld'
  BY FinishLeaves DEF ReviewInv
<1>2. \A b \in Actors : \/ b = a /\ pc'[b] = "idle"
                        \/ /\ b # a /\ pc'[b] = pc[b]
                           /\ op'[b] = op[b] /\ snap'[b] = snap[b]
  BY FinishLeaves DEF ReviewInv
<1>3. ReadIsCurrent'
  BY <1>2 DEF ReviewInv, ReadIsCurrent, Actors, Current
<1>4. FindIsCurrent'
  BY <1>2 DEF ReviewInv, FindIsCurrent, Actors
<1>5. AuditIsFinal' /\ AuditedDecisionStands' /\ DeliveredWithinRelease'
  BY DEF ReviewInv, AuditIsFinal, AuditedDecisionStands, DeliveredWithinRelease, Current
<1> QED
  BY <1>1, <1>3, <1>4, <1>5 DEF ReviewInv

\* A step of a reviewer that touches no file and keeps the lock: the invariant
\* holds again if it holds of that reviewer.
LEMMA StepKeepsInv ==
    ASSUME TypeOK, ReviewInv, NEW r \in Reviewers, NEW step,
           Goto(r, step), InSection(r), InSection(r)',
           UNCHANGED <<log, readable, audit, delivered, lock, op>>,
           \A b \in Actors : b # r => snap'[b] = snap[b]
    PROVE  /\ LockHeld' /\ FindIsCurrent' /\ AuditIsFinal'
           /\ AuditedDecisionStands' /\ DeliveredWithinRelease'
           /\ \A b \in Actors : b # r => pc'[b] = pc[b]
<1>1. \A b \in Actors : b # r => pc'[b] = pc[b]
  BY DEF Goto, TypeOK
<1>2. LockHeld'
  BY <1>1 DEF ReviewInv, LockHeld, InSection, Actors, Reviewers
<1>3. FindIsCurrent'
  BY <1>1, ActorsAssumption DEF ReviewInv, FindIsCurrent, Actors
<1>4. AuditIsFinal' /\ AuditedDecisionStands' /\ DeliveredWithinRelease'
  BY DEF ReviewInv, AuditIsFinal, AuditedDecisionStands, DeliveredWithinRelease, Current
<1> QED
  BY <1>1, <1>2, <1>3, <1>4

\* The empty repository satisfies the review invariant.
LEMMA InitInv == Init => ReviewInv
<1> SUFFICES ASSUME Init PROVE ReviewInv
  OBVIOUS
<1>1. LockHeld
  BY NoneAssumption DEF Init, LockHeld, InSection, Actors, Reviewers
<1>2. ReadIsCurrent /\ FindIsCurrent
  BY DEF Init, ReadIsCurrent, FindIsCurrent, Actors, Reviewers
<1>3. AuditIsFinal /\ AuditedDecisionStands /\ DeliveredWithinRelease
  BY DEF Init, AuditIsFinal, AuditedDecisionStands, DeliveredWithinRelease
<1> QED
  BY <1>1, <1>2, <1>3 DEF ReviewInv

\* A new record disturbs no review: no reviewer is at work on its id, nothing
\* is audited or delivered under it.
LEMMA GatewayKeepsInv ==
    ASSUME Serialized, TypeInv, ReviewInv, NEW g \in Gateways, GatewayAppend(g)
    PROVE  ReviewInv'
<1> DEFINE id == op[g].id
           new == NewRecord(id)
<1>1. /\ id \in RecordIds /\ new \in Record /\ new.id = id
      /\ ~IsKnown(log, id) /\ AppendLine(new)
      /\ UNCHANGED <<readable, audit, deliveries, delivered>>
  BY OperationFields, NewRecordType
  DEF GatewayAppend, TypeInv, Carried, ReviewInv, FindIsCurrent, NewRecord, opencti
<1>2. /\ \A k : IsKnown(log, k) => IsKnown(log', k)
      /\ \A k : IsKnown(log, k) => CurrentRecord(log', k) = CurrentRecord(log, k)
  <2> HIDE DEF id, new
  <2> QED BY <1>1, AfterAppend DEF TypeInv, TypeOK
<1>3. /\ g \in Actors /\ g \notin Reviewers
      /\ Finish(g) /\ TypeOK /\ LockHeld
  BY ActorsAssumption DEF Actors, GatewayAppend, TypeInv, ReviewInv
<1>4. /\ \A b \in Actors : \/ b = g /\ pc'[b] = "idle"
                           \/ /\ b # g /\ pc'[b] = pc[b]
                              /\ op'[b] = op[b] /\ snap'[b] = snap[b]
      /\ LockHeld'
  BY <1>3, FinishLeaves
<1>5. ReadIsCurrent'
  <2>1. \A r \in Reviewers : /\ pc'[r] = pc[r] /\ op'[r] = op[r]
                             /\ snap'[r] = snap[r]
    BY <1>3, <1>4 DEF Actors
  <2> QED
    BY <1>1, <1>2, <2>1 DEF ReviewInv, ReadIsCurrent, Current
<1>6. FindIsCurrent'
  BY <1>4 DEF Serialized, FindIsCurrent, Actors
<1>7. AuditIsFinal'
  BY <1>1 DEF ReviewInv, AuditIsFinal
<1>8. AuditedDecisionStands'
  BY <1>1, <1>2 DEF ReviewInv, AuditedDecisionStands, Current
<1>9. DeliveredWithinRelease'
  BY <1>1, <1>2 DEF ReviewInv, DeliveredWithinRelease, Current
<1> QED
  BY <1>4, <1>5, <1>6, <1>7, <1>8, <1>9 DEF ReviewInv

\* A decision is appended to a pending record, of which nothing is audited or
\* delivered; an export mark changes neither the status nor what is released.
LEMMA UpdateKeepsInv ==
    ASSUME Serialized, TypeInv, ReviewInv, NEW r \in Reviewers, AppendUpdate(r)
    PROVE  ReviewInv'
<1> DEFINE id == op[r].id
           new == Updated(r)
<1>1. /\ pc[r] = "append" /\ AppendLine(new) /\ Goto(r, "audit")
      /\ UNCHANGED <<readable, audit, deliveries, delivered, lock, op>>
      /\ snap' = [snap EXCEPT ![r] = new]
  BY DEF AppendUpdate, opencti
<1>2. /\ new \in Record /\ new.id = id
  BY <1>1, UpdatedRecord
<1>3. /\ snap[r] \in Record /\ snap[r].id = id /\ op[r] \in Operation
      /\ IsKnown(log, id) /\ CurrentRecord(log, id) = snap[r]
      /\ IF op[r].action = "export" THEN CanMarkExported(snap[r])
                                    ELSE CanDecide(snap[r], op[r])
  BY <1>1 DEF TypeInv, Carried, ReviewInv, ReadIsCurrent, Current
<1>4. /\ \A k : IsKnown(log, k) => IsKnown(log', k)
      /\ \A k : k # id => /\ IsKnown(log', k) <=> IsKnown(log, k)
                          /\ IsKnown(log, k) =>
                                CurrentRecord(log', k) = CurrentRecord(log, k)
      /\ readable => IsKnown(log', id) /\ CurrentRecord(log', id) = new
      /\ ~readable => log' = log
  <2>1. log \in Seq(Record) /\ readable \in BOOLEAN
    BY DEF TypeInv, TypeOK
  <2> HIDE DEF id, new
  <2> QED BY <1>1, <1>2, <2>1, AfterAppend
<1>5. r \in Actors /\ \A g \in Gateways : g # r
  BY ActorsAssumption DEF Actors
<1>6. \A s \in Actors : s # r => pc'[s] = pc[s] /\ snap'[s] = snap[s]
  BY <1>1, <1>5 DEF Goto, TypeInv, TypeOK
<1>7. pc'[r] = "audit" /\ snap'[r] = new
  BY <1>1, <1>5 DEF Goto, TypeInv, TypeOK
<1>8. LockHeld'
  BY <1>1, <1>6, <1>7 DEF ReviewInv, LockHeld, InSection, Actors, Reviewers
<1>9. \A s \in Reviewers : s # r => ~InSection(s)
  BY <1>1, OneReviewer DEF InSection, ReviewInv
<1>10. /\ new.status # "pending"
       /\ op[r].action = "export" => new.exported
  <2>1. CASE op[r].action = "export"
    BY <1>3, <2>1, MarkedFields DEF Updated, CanMarkExported, ExportableStatuses
  <2>2. CASE op[r].action # "export"
    BY <1>3, <2>2, DecidedFields DEF Updated
  <2> QED
    BY <2>1, <2>2
<1>11. ReadIsCurrent'
  <2>1. ASSUME NEW s \in Reviewers, s # r
        PROVE  pc'[s] \notin {"sending", "marking", "append", "audit"}
    BY <1>6, <1>9, <2>1 DEF InSection, Actors
  <2>2. readable' => IsKnown(log', op'[r].id) /\ CurrentRecord(log', op'[r].id) = new
    BY <1>1, <1>4
  <2> QED
    BY <1>1, <1>7, <1>10, <2>1, <2>2 DEF ReadIsCurrent, Current
<1>12. FindIsCurrent'
  <2>1. \A g \in Gateways : pc'[g] = pc[g] /\ op'[g] = op[g]
    BY <1>1, <1>5, <1>6 DEF Actors
  <2> QED
    BY <1>3, <1>4, <2>1 DEF ReviewInv, FindIsCurrent
<1>13. AuditIsFinal'
  BY <1>1 DEF ReviewInv, AuditIsFinal
<1>14. AuditedDecisionStands'
  <2> SUFFICES ASSUME NEW i \in DOMAIN audit, readable
               PROVE  /\ IsKnown(log', audit[i].id)
                      /\ CurrentRecord(log', audit[i].id).status = audit[i].status
                      /\ audit[i].action = "export" =>
                            CurrentRecord(log', audit[i].id).exported
    BY <1>1 DEF AuditedDecisionStands, Current
  <2>1. /\ IsKnown(log, audit[i].id)
        /\ CurrentRecord(log, audit[i].id).status = audit[i].status
        /\ audit[i].action = "export" => CurrentRecord(log, audit[i].id).exported
        /\ audit[i].status # "pending"
    BY DEF ReviewInv, AuditedDecisionStands, AuditIsFinal, Current
  <2>2. CASE audit[i].id # id
    BY <1>4, <2>1, <2>2
  <2>3. CASE audit[i].id = id
    <3>1. snap[r].status # "pending"
      BY <1>3, <2>1, <2>3
    <3>2. op[r].action = "export"
      BY <1>3, <3>1 DEF CanDecide
    <3>3. new.status = snap[r].status /\ new.exported
      BY <1>3, <3>2, MarkedFields DEF Updated
    <3> QED
      BY <1>3, <1>4, <2>1, <2>3, <3>3
  <2> QED
    BY <2>2, <2>3
<1>15. DeliveredWithinRelease'
  <2> SUFFICES ASSUME NEW k \in RecordIds, delivered[k] # {}
               PROVE  /\ IsKnown(log', k)
                      /\ delivered[k] \subseteq ReleasedIndicators(CurrentRecord(log', k))
    BY <1>1 DEF DeliveredWithinRelease, Current
  <2>1. /\ IsKnown(log, k)
        /\ delivered[k] \subseteq ReleasedIndicators(CurrentRecord(log, k))
    BY DEF ReviewInv, DeliveredWithinRelease, Current
  <2>2. CASE k # id \/ ~readable
    <3> HIDE DEF id, new
    <3> QED BY <1>4, <2>1, <2>2
  <2>3. CASE k = id /\ readable
    <3>1. snap[r].status # "pending"
      BY <1>3, <2>1, <2>3 DEF ReleasedIndicators
    <3>2. op[r].action = "export"
      BY <1>3, <3>1 DEF CanDecide
    <3>3. ReleasedIndicators(new) = ReleasedIndicators(snap[r])
      BY <1>2, <1>3, <3>2, MarkedFields DEF Updated, ReleasedIndicators
    <3> QED
      BY <1>3, <1>4, <2>1, <2>3, <3>3
  <2> QED
    BY <2>2, <2>3
<1> QED
  BY <1>8, <1>11, <1>12, <1>13, <1>14, <1>15 DEF ReviewInv

\* Every step of every process keeps the review invariant.
LEMMA NextInv ==
    ASSUME Serialized
    PROVE  TypeInv /\ ReviewInv /\ [Next]_vars => ReviewInv'
<1> SUFFICES ASSUME TypeInv, ReviewInv, [Next]_vars PROVE ReviewInv'
  OBVIOUS
<1>0. TypeOK /\ LockHeld
  BY DEF TypeInv, ReviewInv
<1>a. \A r \in Reviewers : r \in Actors /\ \A g \in Gateways : g # r
  BY ActorsAssumption DEF Actors
<1>1. ASSUME NEW g \in Gateways, NEW id \in RecordIds, GatewayFind(g, id)
      PROVE  ReviewInv'
  <2>1. /\ pc' = [pc EXCEPT ![g] = "append"] /\ ~IsKnown(log, id)
        /\ op' = [op EXCEPT ![g] = [action |-> "add", id |-> id, types |-> {}]]
        /\ UNCHANGED <<log, readable, audit, delivered, lock, snap>>
    BY <1>1 DEF GatewayFind, Goto, files, opencti
  <2>2. /\ \A r \in Reviewers : pc'[r] = pc[r] /\ op'[r] = op[r]
        /\ g \in Actors
    BY <1>0, <1>a, <2>1 DEF TypeOK, Actors
  <2>3. LockHeld' /\ ReadIsCurrent'
    BY <2>1, <2>2 DEF ReviewInv, LockHeld, InSection, ReadIsCurrent, Current, Reviewers
  <2>4. FindIsCurrent'
    BY <1>0, <2>1 DEF ReviewInv, FindIsCurrent, TypeOK, Actors
  <2>5. AuditIsFinal' /\ AuditedDecisionStands' /\ DeliveredWithinRelease'
    BY <2>1 DEF ReviewInv, AuditIsFinal, AuditedDecisionStands,
                DeliveredWithinRelease, Current
  <2> QED
    BY <2>3, <2>4, <2>5 DEF ReviewInv
<1>2. ASSUME NEW g \in Gateways, GatewayAppend(g)
      PROVE  ReviewInv'
  BY <1>2, GatewayKeepsInv
<1>3. ASSUME NEW r \in Reviewers, Submit(r)
      PROVE  ReviewInv'
  <2>1. /\ pc[r] = "idle" /\ pc'[r] \in {"waiting", "reading"}
        /\ r \in Requests => pc'[r] = "waiting"
        /\ \A b \in Actors : b # r => pc'[b] = pc[b] /\ op'[b] = op[b]
        /\ UNCHANGED <<log, readable, audit, delivered, lock, snap>>
    BY <1>3, <1>0, <1>a DEF Submit, Goto, files, opencti, TypeOK
  <2>2. LockHeld'
    BY <2>1, <1>a DEF ReviewInv, LockHeld, InSection, Reviewers
  <2>3. ReadIsCurrent'
    BY <2>1, <1>a DEF ReviewInv, ReadIsCurrent, Current
  <2>4. FindIsCurrent'
    BY <2>1, <1>a DEF ReviewInv, FindIsCurrent, Actors
  <2>5. AuditIsFinal' /\ AuditedDecisionStands' /\ DeliveredWithinRelease'
    BY <2>1 DEF ReviewInv, AuditIsFinal, AuditedDecisionStands,
                DeliveredWithinRelease, Current
  <2> QED
    BY <2>2, <2>3, <2>4, <2>5 DEF ReviewInv
<1>4. ASSUME NEW r \in Requests, Acquire(r)
      PROVE  ReviewInv'
  <2>1. /\ pc[r] = "waiting" /\ pc'[r] = "reading"
        /\ lock = None /\ lock' = r
        /\ \A b \in Actors : b # r => pc'[b] = pc[b]
        /\ UNCHANGED <<log, readable, audit, delivered, op, snap>>
    BY <1>4, <1>0, <1>a DEF Acquire, Goto, files, opencti, TypeOK, Reviewers
  <2>2. LockHeld'
    BY <2>1, <1>a, NoneAssumption DEF ReviewInv, LockHeld, InSection, Reviewers, Actors
  <2>3. ReadIsCurrent'
    BY <2>1, <1>a DEF ReviewInv, ReadIsCurrent, Current
  <2>4. FindIsCurrent'
    BY <2>1, <1>a DEF ReviewInv, FindIsCurrent, Actors, Reviewers
  <2>5. AuditIsFinal' /\ AuditedDecisionStands' /\ DeliveredWithinRelease'
    BY <2>1 DEF ReviewInv, AuditIsFinal, AuditedDecisionStands,
                DeliveredWithinRelease, Current
  <2> QED
    BY <2>2, <2>3, <2>4, <2>5 DEF ReviewInv
<1>5. ASSUME NEW r \in Reviewers, Read(r) \/ MarkRead(r)
      PROVE  ReviewInv'
  <2> DEFINE step == IF pc[r] = "reading" /\ op[r].action = "export"
                     THEN "sending" ELSE "append"
  <2>1. /\ pc[r] \in {"reading", "marking"} /\ Goto(r, step)
        /\ snap' = [snap EXCEPT ![r] = Current(op[r].id)]
        /\ UNCHANGED <<log, readable, audit, delivered, lock, op>>
        /\ CanRead(op[r].id)
    BY <1>5 DEF Read, MarkRead, MayProceed, files, opencti
  <2>2. pc'[r] = step /\ snap'[r] = Current(op[r].id)
    BY <2>1, <1>0, <1>a DEF Goto, TypeOK
  <2>3. InSection(r) /\ InSection(r)'
    BY <2>1, <2>2 DEF InSection
  <2>4. \A b \in Actors : b # r => snap'[b] = snap[b]
    BY <2>1
  <2>5. /\ LockHeld' /\ FindIsCurrent' /\ AuditIsFinal'
        /\ AuditedDecisionStands' /\ DeliveredWithinRelease'
        /\ \A b \in Actors : b # r => pc'[b] = pc[b]
    <3> HIDE DEF step
    <3> QED BY <1>0, <2>1, <2>3, <2>4, StepKeepsInv
  <2>6. /\ IsKnown(log, op[r].id)
        /\ IF pc[r] = "reading" /\ op[r].action # "export"
           THEN CanDecide(Current(op[r].id), op[r])
           ELSE CanMarkExported(Current(op[r].id))
        /\ pc[r] = "marking" => op[r].action = "export"
        /\ step = "sending" => CanExport(Current(op[r].id))
    BY <1>5, <2>1 DEF Read, MarkRead, MayProceed, CanRead, CanExport,
                      ReviewInv, ReadIsCurrent
  <2>7. ReadIsCurrent'
    <3>1. \A s \in Reviewers : s # r => /\ pc'[s] = pc[s] /\ snap'[s] = snap[s]
      BY <1>a, <2>4, <2>5
    <3>2. ASSUME NEW s \in Reviewers, s # r
          PROVE  ~InSection(s)
      BY <2>3, <3>2, OneReviewer DEF ReviewInv
    <3> QED
      BY <2>1, <2>2, <2>6, <3>1, <3>2 DEF ReadIsCurrent, Current, InSection
  <2> QED
    BY <2>5, <2>7 DEF ReviewInv
<1>6. ASSUME NEW a \in Actors,
             Refuse(a) \/ SendFails(a) \/ MarkRefused(a) \/ AuditFails(a)
             \/ TearAppend(a) \/ CrashProcess(a)
      PROVE  ReviewInv'
  <2>1. /\ Finish(a) /\ UNCHANGED <<log, audit, delivered>>
        /\ readable' => readable
    BY <1>6 DEF Refuse, SendFails, MarkRefused, AuditFails, TearAppend,
                CrashProcess, files, opencti
  <2> QED
    BY <1>0, <2>1, FinishKeepsInv
<1>7. ASSUME NEW r \in Reviewers, Send(r)
      PROVE  ReviewInv'
  <2> DEFINE id == op[r].id
  <2>1. /\ pc[r] = "sending" /\ Goto(r, "marking")
        /\ delivered' = [delivered EXCEPT ![id] = @ \cup ReleasedIndicators(snap[r])]
        /\ UNCHANGED <<log, readable, audit, lock, op, snap>>
    BY <1>7 DEF Send, files
  <2>2. /\ id \in RecordIds /\ IsKnown(log, id) /\ Current(id) = snap[r]
        /\ CanExport(snap[r]) /\ op[r].action = "export"
    BY <2>1, OperationFields DEF TypeInv, Carried, ReviewInv, ReadIsCurrent
  <2>3. /\ pc'[r] = "marking"
        /\ \A b \in Actors : b # r => pc'[b] = pc[b]
    BY <1>0, <1>a, <2>1 DEF Goto, TypeOK
  <2>4. LockHeld'
    BY <1>a, <2>1, <2>3 DEF ReviewInv, LockHeld, InSection, Reviewers
  <2>5. ReadIsCurrent'
    BY <1>a, <2>1, <2>2, <2>3 DEF ReviewInv, ReadIsCurrent, Current
  <2>6. FindIsCurrent'
    BY <1>a, <2>1, <2>3 DEF ReviewInv, FindIsCurrent, Actors
  <2>7. AuditIsFinal' /\ AuditedDecisionStands'
    BY <2>1 DEF ReviewInv, AuditIsFinal, AuditedDecisionStands, Current
  <2>8. DeliveredWithinRelease'
    <3>1. \A k \in RecordIds : delivered'[k] =
             IF k = id THEN delivered[k] \cup ReleasedIndicators(snap[r])
                       ELSE delivered[k]
      BY <1>0, <2>1, <2>2 DEF TypeOK
    <3> QED
      BY <2>1, <2>2, <3>1 DEF ReviewInv, DeliveredWithinRelease, Current
  <2> QED
    BY <2>4, <2>5, <2>6, <2>7, <2>8 DEF ReviewInv
<1>8. ASSUME NEW r \in Reviewers, AppendUpdate(r)
      PROVE  ReviewInv'
  BY <1>8, UpdateKeepsInv
<1>9. ASSUME NEW r \in Reviewers, AppendAudit(r)
      PROVE  ReviewInv'
  <2> DEFINE e == [id |-> op[r].id, status |-> snap[r].status, action |-> op[r].action]
  <2>1. /\ pc[r] = "audit" /\ Finish(r) /\ r \in Actors
        /\ audit' = Append(audit, e)
        /\ UNCHANGED <<log, readable, delivered>>
    BY <1>9, <1>a DEF AppendAudit, opencti
  <2>2. /\ snap[r].status # "pending"
        /\ op[r].action = "export" => snap[r].exported
        /\ readable => IsKnown(log, op[r].id) /\ Current(op[r].id) = snap[r]
    BY <2>1 DEF ReviewInv, ReadIsCurrent
  <2>3. e \in AuditEvent
    BY <2>1, OperationFields, RecordFields DEF TypeInv, Carried, AuditEvent
  <2>4. /\ DOMAIN audit' = 1 .. Len(audit) + 1 /\ DOMAIN audit = 1 .. Len(audit)
        /\ Len(audit) \in Nat
        /\ \A i \in DOMAIN audit : audit'[i] = audit[i]
        /\ audit'[Len(audit) + 1] = e
    <3> HIDE DEF e
    <3> QED BY <1>0, <2>1, <2>3, LenProperties, AppendProperties DEF TypeOK
  <2>5. \A i \in DOMAIN audit' : i \in DOMAIN audit \/ audit'[i] = e
    BY <2>4
  <2>6. LockHeld' /\ ReadIsCurrent' /\ FindIsCurrent' /\ DeliveredWithinRelease'
    <3>1. \A b \in Actors : \/ b = r /\ pc'[b] = "idle"
                            \/ /\ b # r /\ pc'[b] = pc[b]
                               /\ op'[b] = op[b] /\ snap'[b] = snap[b]
      BY <1>0, <2>1, FinishLeaves
    <3>2. LockHeld'
      BY <1>0, <2>1, FinishLeaves
    <3> QED
      BY <2>1, <3>1, <3>2 DEF ReviewInv, ReadIsCurrent, FindIsCurrent,
                              DeliveredWithinRelease, Actors, Current
  <2>7. AuditIsFinal'
    BY <2>2, <2>4, <2>5 DEF ReviewInv, AuditIsFinal
  <2>8. AuditedDecisionStands'
    BY <2>1, <2>2, <2>4, <2>5 DEF ReviewInv, AuditedDecisionStands, Current
  <2> QED
    BY <2>6, <2>7, <2>8 DEF ReviewInv
<1>10. CASE CrashServer
  <2>1. /\ \A a \in Actors : IF a \in Requests THEN pc'[a] = "idle"
                             ELSE pc'[a] = pc[a] /\ op'[a] = op[a] /\ snap'[a] = snap[a]
        /\ lock' = None
        /\ UNCHANGED <<log, readable, audit, delivered>>
    BY <1>10 DEF CrashServer, files, opencti
  <2>2. LockHeld'
    BY <2>1, <1>a, NoneAssumption DEF LockHeld, InSection, Actors, Reviewers
  <2>3. ReadIsCurrent' /\ FindIsCurrent'
    BY <2>1, <1>a DEF ReviewInv, ReadIsCurrent, FindIsCurrent, Current, Actors, Reviewers
  <2>4. AuditIsFinal' /\ AuditedDecisionStands' /\ DeliveredWithinRelease'
    BY <2>1 DEF ReviewInv, AuditIsFinal, AuditedDecisionStands,
                DeliveredWithinRelease, Current
  <2> QED
    BY <2>2, <2>3, <2>4 DEF ReviewInv
<1>11. CASE UNCHANGED vars
  <2>1. UNCHANGED <<log, readable, audit, delivered, lock, pc, op, snap>>
    BY <1>11 DEF vars
  <2> QED
    BY <2>1 DEF ReviewInv, LockHeld, InSection, ReadIsCurrent, FindIsCurrent,
                AuditIsFinal, AuditedDecisionStands, DeliveredWithinRelease, Current
<1> QED
  BY <1>a, <1>1, <1>2, <1>3, <1>4, <1>5, <1>6, <1>7, <1>8, <1>9, <1>10, <1>11
  DEF Next, GatewayStep, Proceed, Fault

\* When everybody who decides goes through the API's lock, or one command runs
\* at a time, and one connector queues candidates, every line of the release
\* audit agrees with the repository for ever: no crash, torn write or order of
\* requests makes a decision that was acknowledged come undone.
THEOREM AuditStands ==
    ASSUME Serialized
    PROVE  Spec => []AuditedDecisionStands
<1>1. ReviewInv => AuditedDecisionStands
  BY DEF ReviewInv
<1>2. TypeInv /\ ReviewInv /\ [Next]_vars => ReviewInv'
  BY NextInv
<1> QED
  BY <1>1, <1>2, InitTypes, NextTypes, InitInv, PTL DEF Spec

\* Under the same condition OpenCTI has received from a record no indicator
\* that its current review does not release.
THEOREM ReleaseIsRespected ==
    ASSUME Serialized
    PROVE  Spec => []DeliveredWithinRelease
<1>1. ReviewInv => DeliveredWithinRelease
  BY DEF ReviewInv
<1>2. TypeInv /\ ReviewInv /\ [Next]_vars => ReviewInv'
  BY NextInv
<1> QED
  BY <1>1, <1>2, InitTypes, NextTypes, InitInv, PTL DEF Spec
=============================================================================
