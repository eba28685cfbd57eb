---------------------- MODULE QuarantineHistoryProofs ----------------------
(***************************************************************************)
(* What the lines of the repository file say of the past, for any number   *)
(* of records, reviewers and failures, and that the file, its processes    *)
(* and its audit implement QuarantineLifecycle.                            *)
(*                                                                         *)
(*   ExportsWereDelivered  a line marked as exported has its delivery      *)
(*   NeverQueuedAgain      no pending line after another of its id         *)
(*   DeliveredOnce         one delivery of a record while nothing fails    *)
(*   AuditTellsTheStory    the audit mirrors the file while nothing fails  *)
(*   Refinement            the abstract lifecycle of every record          *)
(***************************************************************************)
EXTENDS QuarantineReviewProofs, FiniteSetTheorems

OneGateway == \A g, h \in Gateways : g = h

\* Where a reviewer is in its operation says what has happened before it.
ReviewerInv(r) ==
    /\ pc[r] \in {"sending", "marking", "append"} => IsKnown(log, op[r].id)
    /\ pc[r] \in {"sending", "marking"} => op[r].action = "export"
    /\ pc[r] = "marking" => deliveries[op[r].id] > 0
    /\ pc[r] = "append" =>
          /\ Updated(r).status # "pending"
          /\ Updated(r).exported => deliveries[op[r].id] > 0

PendingUnmarked == \A i \in DOMAIN log : log[i].status = "pending" => ~log[i].exported

HistoryInv ==
    /\ \A r \in Reviewers : ReviewerInv(r)
    /\ PendingUnmarked
    /\ ExportedWasDelivered
    /\ OneGateway => FindIsCurrent /\ NeverReopened

LEMMA HistoryInit == Init => HistoryInv
BY DEF Init, HistoryInv, ReviewerInv, PendingUnmarked, ExportedWasDelivered, FindIsCurrent,
       NeverReopened, Actors, Reviewers

\* An actor that ends, or is at the beginning, owes nothing to the past.
LEMMA QuietKeepsHistory ==
    ASSUME TypeInv, HistoryInv, UNCHANGED <<log, deliveries>>,
           \A b \in Actors : \/ pc'[b] \in {"idle", "waiting", "reading", "audit"}
                             \/ pc'[b] = pc[b] /\ op'[b] = op[b] /\ snap'[b] = snap[b]
    PROVE  HistoryInv'
<1>1. ASSUME NEW r \in Reviewers PROVE ReviewerInv(r)'
    <2>1. ReviewerInv(r) /\ r \in Actors
        BY DEF HistoryInv, Actors
    <2>2. \/ pc'[r] \in {"idle", "waiting", "reading", "audit"}
          \/ pc'[r] = pc[r] /\ op'[r] = op[r] /\ snap'[r] = snap[r]
        BY <2>1
    <2> QED
        BY <2>1, <2>2 DEF ReviewerInv, Updated
<1>2. PendingUnmarked' /\ ExportedWasDelivered'
    BY DEF HistoryInv, PendingUnmarked, ExportedWasDelivered
<1>3. FindIsCurrent => FindIsCurrent'
    BY DEF FindIsCurrent, Actors
<1>4. NeverReopened => NeverReopened'
    BY DEF NeverReopened
<1> QED
    BY <1>1, <1>2, <1>3, <1>4 DEF HistoryInv, OneGateway

\* A line that is appended: the file keeps its lines, and has one more at most.
LEMMA LineAppended ==
    ASSUME TypeOK, NEW rec \in Record, AppendLine(rec)
    PROVE  /\ \A i \in DOMAIN log : i \in DOMAIN log' /\ log'[i] = log[i]
           /\ \A i \in DOMAIN log' :
                 i \in DOMAIN log \/ (log'[i] = rec /\ \A j \in DOMAIN log' : j <= i)
           /\ DOMAIN log \subseteq Nat /\ DOMAIN log' \subseteq Nat
<1>1. log \in Seq(Record) /\ Len(log) \in Nat /\ DOMAIN log = 1 .. Len(log)
    BY LenProperties DEF TypeOK
<1>2. CASE readable
    <2>1. /\ DOMAIN log' = 1 .. Len(log) + 1
          /\ \A i \in 1 .. Len(log) : log'[i] = log[i]
          /\ log'[Len(log) + 1] = rec
        BY <1>1, <1>2, AppendProperties, LenProperties DEF AppendLine
    <2> QED
        BY <1>1, <2>1
<1>3. CASE ~readable
    BY <1>1, <1>3 DEF AppendLine
<1> QED
    BY <1>2, <1>3

\* What a new line must be for the file to tell the truth afterwards.
LEMMA LineKeepsHistory ==
    ASSUME TypeOK, HistoryInv, NEW rec \in Record, AppendLine(rec),
           UNCHANGED deliveries,
           rec.status = "pending" => ~rec.exported,
           rec.exported => deliveries[rec.id] > 0,
           OneGateway /\ rec.status = "pending" => ~IsKnown(log, rec.id)
    PROVE  /\ PendingUnmarked' /\ ExportedWasDelivered'
           /\ OneGateway => NeverReopened'
           /\ \A id : IsKnown(log, id) => IsKnown(log', id)
<1>1. /\ \A i \in DOMAIN log : i \in DOMAIN log' /\ log'[i] = log[i]
      /\ \A i \in DOMAIN log' :
            i \in DOMAIN log \/ (log'[i] = rec /\ \A j \in DOMAIN log' : j <= i)
      /\ DOMAIN log \subseteq Nat /\ DOMAIN log' \subseteq Nat
    BY LineAppended
<1>2. PendingUnmarked' /\ ExportedWasDelivered'
    BY <1>1 DEF HistoryInv, PendingUnmarked, ExportedWasDelivered
<1>3. ASSUME OneGateway PROVE NeverReopened'
    <2> SUFFICES ASSUME NEW i \in DOMAIN log', NEW j \in DOMAIN log', i < j,
                        log'[i].id = log'[j].id
                 PROVE  log'[j].status # "pending"
        BY DEF NeverReopened
    <2>1. i \in DOMAIN log
        BY <1>1
    <2>2. CASE j \in DOMAIN log
        BY <1>1, <1>3, <2>1, <2>2 DEF HistoryInv, NeverReopened
    <2>3. CASE j \notin DOMAIN log
        <3>1. log'[j] = rec /\ log[i].id = rec.id
            BY <1>1, <2>1, <2>3
        <3>2. IsKnown(log, rec.id)
            BY <2>1, <3>1 DEF IsKnown, Positions
        <3> QED
            BY <1>3, <3>1, <3>2
    <2> QED
        BY <2>2, <2>3
<1>4. \A id : IsKnown(log, id) => IsKnown(log', id)
    BY <1>1 DEF IsKnown, Positions
<1> QED
    BY <1>2, <1>3, <1>4

LEMMA HistoryStep == TypeInv /\ HistoryInv /\ [Next]_vars => HistoryInv'
<1> SUFFICES ASSUME TypeInv, HistoryInv, [Next]_vars PROVE HistoryInv'
    OBVIOUS
<1>0. TypeOK
    BY DEF TypeInv
<1>a. \A r \in Reviewers : r \in Actors /\ \A g \in Gateways : g # r
    BY ActorsAssumption DEF Actors
<1>f. ASSUME NEW a \in Actors, Finish(a), UNCHANGED <<log, deliveries>> PROVE HistoryInv'
    <2>1. \A b \in Actors : \/ pc'[b] = "idle"
                            \/ pc'[b] = pc[b] /\ op'[b] = op[b] /\ snap'[b] = snap[b]
        BY <1>0, <1>f DEF Finish, Goto, TypeOK
    <2> QED
        BY <1>f, <2>1, QuietKeepsHistory
<1>1. ASSUME NEW g \in Gateways, NEW id \in RecordIds, GatewayFind(g, id) PROVE HistoryInv'
    <2>1. /\ ~IsKnown(log, id) /\ g \in Actors
          /\ op' = [op EXCEPT ![g] = [action |-> "add", id |-> id, types |-> {}]]
          /\ UNCHANGED <<log, deliveries, snap>>
          /\ \A b \in Actors : b # g => pc'[b] = pc[b] /\ op'[b] = op[b]
        BY <1>1, <1>0 DEF GatewayFind, Goto, files, opencti, TypeOK, Actors
    <2>2. op'[g].id = id
        BY <1>0, <2>1 DEF TypeOK
    <2>3. \A r \in Reviewers : ReviewerInv(r)'
        BY <1>a, <2>1 DEF HistoryInv, ReviewerInv, Updated
    <2>4. PendingUnmarked' /\ ExportedWasDelivered' /\ (NeverReopened => NeverReopened')
        BY <2>1 DEF HistoryInv, PendingUnmarked, ExportedWasDelivered, NeverReopened
    <2>5. FindIsCurrent => FindIsCurrent'
        BY <2>1, <2>2 DEF FindIsCurrent, Actors
    <2> QED
        BY <2>3, <2>4, <2>5 DEF HistoryInv, OneGateway
<1>2. ASSUME NEW g \in Gateways, GatewayAppend(g) PROVE HistoryInv'
    <2> DEFINE new == NewRecord(op[g].id)
    <2>1. /\ AppendLine(new) /\ UNCHANGED deliveries /\ Finish(g) /\ g \in Actors
          /\ pc[g] = "append" /\ op[g] \in Operation
        BY <1>2 DEF GatewayAppend, opencti, Actors, TypeInv, Carried
    <2>2. /\ new \in Record /\ new.status = "pending" /\ ~new.exported
          /\ new.id = op[g].id
        BY <2>1, OperationFields, NewRecordType DEF NewRecord
    <2>3. OneGateway => ~IsKnown(log, new.id)
        BY <2>1, <2>2 DEF HistoryInv, FindIsCurrent
    <2> HIDE DEF new
    <2>4. /\ PendingUnmarked' /\ ExportedWasDelivered' /\ (OneGateway => NeverReopened')
          /\ \A id : IsKnown(log, id) => IsKnown(log', id)
        BY <1>0, <2>1, <2>2, <2>3, LineKeepsHistory
    <2>5. \A b \in Actors : b # g =>
              pc'[b] = pc[b] /\ op'[b] = op[b] /\ snap'[b] = snap[b]
        BY <1>0, <2>1 DEF Finish, Goto, TypeOK
    <2>6. \A r \in Reviewers : ReviewerInv(r)'
        BY <1>a, <2>1, <2>4, <2>5 DEF HistoryInv, ReviewerInv, Updated
    <2>7. pc'[g] = "idle"
        BY <1>0, <2>1 DEF Finish, Goto, TypeOK
    <2>8. OneGateway => FindIsCurrent'
        BY <2>7 DEF OneGateway, FindIsCurrent
    <2> QED
        BY <2>4, <2>6, <2>8 DEF HistoryInv, OneGateway
<1>3. ASSUME NEW r \in Reviewers, Submit(r) PROVE HistoryInv'
    <2>1. /\ UNCHANGED <<log, deliveries>> /\ pc'[r] \in {"waiting", "reading"}
          /\ \A b \in Actors : b # r =>
                pc'[b] = pc[b] /\ op'[b] = op[b] /\ snap'[b] = snap[b]
        BY <1>3, <1>0, <1>a DEF Submit, Goto, files, opencti, TypeOK
    <2> QED
        BY <2>1, QuietKeepsHistory
<1>4. ASSUME NEW r \in Requests, Acquire(r) PROVE HistoryInv'
    <2>1. /\ UNCHANGED <<log, deliveries>> /\ pc'[r] = "reading"
          /\ \A b \in Actors : b # r =>
                pc'[b] = pc[b] /\ op'[b] = op[b] /\ snap'[b] = snap[b]
        BY <1>4, <1>0, <1>a DEF Acquire, Goto, files, opencti, TypeOK, Reviewers
    <2> QED
        BY <2>1, QuietKeepsHistory
<1>5. ASSUME NEW r \in Reviewers, Read(r) \/ MarkRead(r) PROVE HistoryInv'
    <2> DEFINE cur == Current(op[r].id)
    <2>1. /\ UNCHANGED <<log, deliveries, op>> /\ IsKnown(log, op[r].id)
          /\ op[r] \in Operation /\ cur \in Record
          /\ pc'[r] = (IF pc[r] = "reading" /\ op[r].action = "export"
                       THEN "sending" ELSE "append")
          /\ snap'[r] = cur /\ op'[r] = op[r]
          /\ \A b \in Actors : b # r => pc'[b] = pc[b] /\ op'[b] = op[b] /\ snap'[b] = snap[b]
        <3>1. /\ UNCHANGED <<log, deliveries, op>> /\ IsKnown(log, op[r].id)
              /\ pc[r] \in {"reading", "marking"}
            BY <1>5 DEF Read, MarkRead, MayProceed, CanRead, files, opencti
        <3>2. op[r] \in Operation /\ cur \in Record
            BY <1>0, <3>1, CurrentIsALine DEF TypeInv, Carried, TypeOK, Current
        <3> QED
            BY <1>0, <1>5, <1>a, <3>1, <3>2 DEF Read, MarkRead, Goto, TypeOK
    <2>2. /\ pc[r] = "reading" =>
                IF op[r].action = "export" THEN CanExport(cur) ELSE CanDecide(cur, op[r])
          /\ pc[r] # "reading" => /\ pc[r] = "marking" /\ CanMarkExported(cur)
                                  /\ op[r].action = "export"
                                  /\ deliveries[op[r].id] > 0
        BY <1>5 DEF Read, MarkRead, MayProceed, HistoryInv, ReviewerInv
    <2>3. ReviewerInv(r)'
        <3>1. CASE pc[r] = "reading" /\ op[r].action = "export"
            BY <2>1, <3>1 DEF ReviewerInv
        <3>2. CASE pc[r] = "reading" /\ op[r].action # "export"
            <4>1. Updated(r)' = Decided(cur, op[r])
                BY <2>1, <3>2 DEF Updated
            <4>2. Decided(cur, op[r]).status # "pending" /\ ~Decided(cur, op[r]).exported
                BY <2>1, DecidedFields DEF Decided
            <4> QED
                BY <2>1, <3>2, <4>1, <4>2 DEF ReviewerInv
        <3>3. CASE pc[r] # "reading"
            <4>1. Updated(r)' = MarkedExported(cur)
                BY <2>1, <2>2, <3>3 DEF Updated
            <4>2. MarkedExported(cur).status # "pending"
                BY <2>1, <2>2, <3>3, MarkedFields DEF CanMarkExported, ExportableStatuses
            <4> QED
                BY <2>1, <2>2, <3>3, <4>1, <4>2 DEF ReviewerInv
        <3> QED
            BY <3>1, <3>2, <3>3
    <2>4. \A s \in Reviewers : s # r => ReviewerInv(s)'
        BY <1>a, <2>1 DEF HistoryInv, ReviewerInv, Updated
    <2>5. PendingUnmarked' /\ ExportedWasDelivered' /\ (NeverReopened => NeverReopened')
        BY <2>1 DEF HistoryInv, PendingUnmarked, ExportedWasDelivered, NeverReopened
    <2>6. FindIsCurrent => FindIsCurrent'
        BY <1>a, <2>1 DEF FindIsCurrent, Actors
    <2> QED
        BY <2>3, <2>4, <2>5, <2>6 DEF HistoryInv, OneGateway
<1>6. ASSUME NEW a \in Actors,
             Refuse(a) \/ SendFails(a) \/ MarkRefused(a) \/ AppendAudit(a) \/ AuditFails(a)
             \/ TearAppend(a) \/ CrashProcess(a)
      PROVE  HistoryInv'
    BY <1>6, <1>f DEF Refuse, SendFails, MarkRefused, AppendAudit, AuditFails, TearAppend,
                      CrashProcess, files, opencti
<1>7. ASSUME NEW r \in Reviewers, Send(r) PROVE HistoryInv'
    <2>1. /\ pc[r] = "sending" /\ UNCHANGED <<log, op, snap>> /\ pc'[r] = "marking"
          /\ \A b \in Actors : b # r => pc'[b] = pc[b]
          /\ op[r].id \in RecordIds
          /\ deliveries' = [deliveries EXCEPT ![op[r].id] = @ + 1]
        BY <1>7, <1>0, <1>a, OperationFields DEF Send, Goto, files, TypeOK, TypeInv, Carried
    <2>2. /\ \A id \in RecordIds : deliveries[id] > 0 => deliveries'[id] > 0
          /\ deliveries'[op[r].id] > 0
        BY <1>0, <2>1 DEF TypeOK
    <2>3. \A s \in Reviewers : pc[s] # "idle" => op[s].id \in RecordIds
        BY OperationFields DEF TypeInv, Carried
    <2>4. ReviewerInv(r)'
        BY <2>1, <2>2 DEF HistoryInv, ReviewerInv
    <2>5. \A s \in Reviewers : s # r => ReviewerInv(s)'
        BY <1>a, <2>1, <2>2, <2>3 DEF HistoryInv, ReviewerInv, Updated
    <2>6. \A i \in DOMAIN log : log[i].id \in RecordIds
        BY <1>0, ElementOfSeq, LenProperties, RecordFields DEF TypeOK
    <2>7. ExportedWasDelivered'
        BY <2>1, <2>2, <2>6 DEF HistoryInv, ExportedWasDelivered
    <2>8. PendingUnmarked' /\ (NeverReopened => NeverReopened')
        BY <2>1 DEF HistoryInv, PendingUnmarked, NeverReopened
    <2>9. FindIsCurrent => FindIsCurrent'
        BY <1>a, <2>1 DEF FindIsCurrent, Actors
    <2> QED
        BY <2>4, <2>5, <2>7, <2>8, <2>9 DEF HistoryInv, OneGateway
<1>8. ASSUME NEW r \in Reviewers, AppendUpdate(r) PROVE HistoryInv'
    <2> DEFINE new == Updated(r)
    <2>1. /\ pc[r] = "append" /\ AppendLine(new) /\ UNCHANGED <<deliveries, op>>
          /\ pc'[r] = "audit"
          /\ \A b \in Actors : b # r => pc'[b] = pc[b] /\ snap'[b] = snap[b]
        BY <1>8, <1>0, <1>a DEF AppendUpdate, Goto, opencti, TypeOK
    <2>2. new \in Record /\ new.id = op[r].id
        BY <2>1, UpdatedRecord
    <2>3. new.status # "pending" /\ (new.exported => deliveries[new.id] > 0)
          /\ IsKnown(log, new.id)
        BY <2>1, <2>2 DEF HistoryInv, ReviewerInv
    <2> HIDE DEF new
    <2>4. /\ PendingUnmarked' /\ ExportedWasDelivered' /\ (OneGateway => NeverReopened')
          /\ \A id : IsKnown(log, id) => IsKnown(log', id)
        BY <1>0, <2>1, <2>2, <2>3, LineKeepsHistory
    <2>5. \A s \in Reviewers : ReviewerInv(s)'
        BY <1>a, <2>1, <2>4 DEF HistoryInv, ReviewerInv, Updated
    <2>6. \A id : id # new.id => (IsKnown(log', id) <=> IsKnown(log, id))
        BY <1>0, <2>1, <2>2, AfterAppend DEF TypeOK
    <2>7. OneGateway => FindIsCurrent'
        BY <1>a, <2>1, <2>3, <2>6 DEF HistoryInv, FindIsCurrent, Actors
    <2> QED
        BY <2>4, <2>5, <2>7 DEF HistoryInv, OneGateway
<1>9. CASE CrashServer
    <2>1. /\ UNCHANGED <<log, deliveries>>
          /\ \A b \in Actors : \/ pc'[b] = "idle"
                               \/ pc'[b] = pc[b] /\ op'[b] = op[b] /\ snap'[b] = snap[b]
        BY <1>9 DEF CrashServer, files, opencti
    <2> QED
        BY <2>1, QuietKeepsHistory
<1>10. CASE UNCHANGED vars
    BY <1>10, QuietKeepsHistory DEF vars
<1> QED
    BY <1>a, <1>1, <1>2, <1>3, <1>4, <1>5, <1>6, <1>7, <1>8, <1>9, <1>10
    DEF Next, GatewayStep, Proceed, Fault

\* A line marked as exported has its delivery, whoever else exports, decides
\* or crashes, with or without a common lock (core/quarantine.py
\* mark_exported after the exporter in gateway/quarantine_export.py).
THEOREM ExportsWereDelivered == Spec => []ExportedWasDelivered
<1>1. HistoryInv => ExportedWasDelivered
    BY DEF HistoryInv
<1> QED
    BY <1>1, InitTypes, NextTypes, HistoryInit, HistoryStep, PTL DEF Spec

\* With one connector no record is queued again, in whatever order the
\* reviewers decide beside it (core/quarantine.py add).
THEOREM NeverQueuedAgain ==
    ASSUME OneGateway
    PROVE  Spec => []NeverReopened
<1>1. HistoryInv => NeverReopened
    BY DEF HistoryInv
<1> QED
    BY <1>1, InitTypes, NextTypes, HistoryInit, HistoryStep, PTL DEF Spec
-----------------------------------------------------------------------------
(* One delivery of a record while nothing fails                             *)

\* r has delivered the record and is about to mark it.
Marking(r, id) ==
    pc[r] \in {"marking", "append"} /\ op[r].action = "export" /\ op[r].id = id

\* A record that was delivered is marked, or its mark is on the way.
OnceInv ==
    /\ readable
    /\ \A id \in RecordIds :
          /\ deliveries[id] <= 1
          /\ deliveries[id] > 0 =>
                /\ IsKnown(log, id)
                /\ Current(id).exported \/ \E r \in Reviewers : Marking(r, id)

LEMMA OnceInit == Init => OnceInv
BY DEF Init, OnceInv

\* The record in the hands of an actor that neither delivers nor marks.
LEMMA OthersKeepOnce ==
    ASSUME TypeInv, OnceInv, NEW a \in Actors,
           UNCHANGED <<log, readable, deliveries>>,
           \A b \in Actors : b # a => pc'[b] = pc[b] /\ op'[b] = op[b],
           \A id : a \in Reviewers /\ Marking(a, id) => Marking(a, id)'
    PROVE  OnceInv'
<1>1. \A r \in Reviewers : r \in Actors
    BY DEF Actors
<1>2. \A r \in Reviewers, id \in RecordIds : Marking(r, id) => Marking(r, id)'
    BY <1>1 DEF Marking
<1>3. \A id : IsKnown(log', id) = IsKnown(log, id) /\ Current(id)' = Current(id)
    BY DEF Current
<1> QED
    BY <1>2, <1>3 DEF OnceInv

LEMMA OnceStep ==
    ASSUME Serialized, ~MayFail
    PROVE  TypeInv /\ ReviewInv /\ HistoryInv /\ OnceInv /\ [Next]_vars => OnceInv'
<1> SUFFICES ASSUME TypeInv, ReviewInv, HistoryInv, OnceInv, [Next]_vars PROVE OnceInv'
    OBVIOUS
<1>0. TypeOK /\ readable /\ LockHeld
    BY DEF TypeInv, OnceInv, ReviewInv
<1>a. \A r \in Reviewers : r \in Actors /\ \A g \in Gateways : g # r
    BY ActorsAssumption DEF Actors
<1>b. \A r, s \in Reviewers : InSection(r) /\ InSection(s) => r = s
    BY <1>0, OneReviewer
<1>c. \A r \in Reviewers : pc[r] # "idle" => op[r] \in Operation /\ op[r].id \in RecordIds
    BY OperationFields DEF TypeInv, Carried
<1>1. ASSUME NEW g \in Gateways, NEW id \in RecordIds, GatewayFind(g, id) PROVE OnceInv'
    <2>1. /\ g \in Actors /\ g \notin Reviewers /\ UNCHANGED <<log, readable, deliveries>>
          /\ \A b \in Actors : b # g => pc'[b] = pc[b] /\ op'[b] = op[b]
        BY <1>0, <1>1, <1>a DEF GatewayFind, Goto, files, opencti, TypeOK, Actors
    <2> QED
        BY <2>1, OthersKeepOnce
<1>2. ASSUME NEW g \in Gateways, GatewayAppend(g) PROVE OnceInv'
    <2> DEFINE new == NewRecord(op[g].id)
    <2>1. /\ AppendLine(new) /\ UNCHANGED <<readable, deliveries>> /\ Finish(g)
          /\ pc[g] = "append" /\ op[g] \in Operation /\ g \in Actors
        BY <1>2 DEF GatewayAppend, opencti, Actors, TypeInv, Carried
    <2>2. new \in Record /\ new.id = op[g].id /\ ~IsKnown(log, new.id)
        BY <2>1, OperationFields, NewRecordType DEF NewRecord, ReviewInv, FindIsCurrent
    <2> HIDE DEF new
    <2>3. /\ \A id : IsKnown(log, id) => IsKnown(log', id)
          /\ \A id : id # new.id /\ IsKnown(log, id) => Current(id)' = Current(id)
        BY <1>0, <2>1, <2>2, AfterAppend DEF TypeOK, Current
    <2>4. \A r \in Reviewers : pc'[r] = pc[r] /\ op'[r] = op[r]
        BY <1>0, <1>a, <2>1 DEF Finish, Goto, TypeOK
    <2> QED
        BY <1>0, <2>1, <2>2, <2>3, <2>4 DEF OnceInv, Marking
<1>3. ASSUME NEW r \in Reviewers, pc[r] \notin {"marking", "append"},
             Submit(r) \/ Read(r) \/ Refuse(r) \/ SendFails(r) \/ AppendAudit(r)
      PROVE  OnceInv'
    <2>1. /\ UNCHANGED <<log, readable, deliveries>>
          /\ \A b \in Actors : b # r => pc'[b] = pc[b] /\ op'[b] = op[b]
        BY <1>0, <1>3, <1>a
        DEF Submit, Read, Refuse, SendFails, AppendAudit, Finish, Goto, files, opencti, TypeOK
    <2>2. \A id : ~Marking(r, id)
        BY <1>3 DEF Marking
    <2> QED
        BY <1>a, <2>1, <2>2, OthersKeepOnce
<1>4. ASSUME NEW r \in Requests, Acquire(r) PROVE OnceInv'
    <2>1. /\ r \in Actors /\ UNCHANGED <<log, readable, deliveries>> /\ pc[r] = "waiting"
          /\ \A b \in Actors : b # r => pc'[b] = pc[b] /\ op'[b] = op[b]
        BY <1>0, <1>4 DEF Acquire, Goto, files, opencti, TypeOK, Actors, Reviewers
    <2>2. \A id : ~Marking(r, id)
        BY <2>1 DEF Marking
    <2> QED
        BY <2>1, <2>2, OthersKeepOnce
<1>5. ASSUME NEW r \in Reviewers, MarkRead(r) PROVE OnceInv'
    <2>1. /\ UNCHANGED <<log, readable, deliveries, op>>
          /\ pc' = [pc EXCEPT ![r] = "append"]
        BY <1>5 DEF MarkRead, Goto, files, opencti
    <2>2. \A id : Marking(r, id) => Marking(r, id)'
        BY <1>0, <1>a, <2>1 DEF Marking, TypeOK
    <2>3. \A b \in Actors : b # r => pc'[b] = pc[b] /\ op'[b] = op[b]
        BY <1>0, <2>1 DEF TypeOK
    <2> QED
        BY <1>a, <2>1, <2>2, <2>3, OthersKeepOnce
<1>6. ASSUME NEW r \in Reviewers, MarkRefused(r) PROVE FALSE
    <2>1. /\ pc[r] = "marking" /\ IsKnown(log, op[r].id)
          /\ Current(op[r].id) = snap[r] /\ CanExport(snap[r])
        BY <1>6 DEF MarkRefused, ReviewInv, ReadIsCurrent
    <2> QED
        BY <1>0, <1>6, <2>1 DEF MarkRefused, CanRead, CanExport
<1>7. ASSUME NEW r \in Reviewers, Send(r) PROVE OnceInv'
    <2>1. /\ pc[r] = "sending" /\ UNCHANGED <<log, readable, op>>
          /\ pc' = [pc EXCEPT ![r] = "marking"]
          /\ op[r].id \in RecordIds
          /\ deliveries' = [deliveries EXCEPT ![op[r].id] = @ + 1]
        BY <1>7, <1>c DEF Send, Goto, files
    <2>2. PICK id \in RecordIds : id = op[r].id
        BY <2>1
    <2>3. /\ IsKnown(log, id) /\ ~Current(id).exported /\ op[r].action = "export"
        BY <2>1, <2>2 DEF ReviewInv, ReadIsCurrent, CanExport, CanMarkExported
    <2>4. \A s \in Reviewers : ~Marking(s, id)
        BY <1>b, <2>1 DEF Marking, InSection
    <2>5. ~(deliveries[id] > 0)
        BY <2>3, <2>4 DEF OnceInv
    <2>6. /\ deliveries'[id] = 1
          /\ \A i \in RecordIds : i # id => deliveries'[i] = deliveries[i]
        BY <1>0, <2>1, <2>2, <2>5 DEF TypeOK
    <2>7. Marking(r, id)'
        BY <1>0, <1>a, <2>1, <2>2, <2>3 DEF Marking, TypeOK
    <2>8. \A s \in Reviewers : \A i : Marking(s, i) => Marking(s, i)'
        BY <1>0, <1>a, <2>1 DEF Marking, TypeOK
    <2>9. \A i : (IsKnown(log', i) <=> IsKnown(log, i)) /\ Current(i)' = Current(i)
        BY <2>1 DEF Current
    <2>10. ASSUME NEW i \in RecordIds
           PROVE  /\ deliveries'[i] <= 1
                  /\ deliveries'[i] > 0 =>
                        /\ IsKnown(log', i)
                        /\ Current(i)'.exported \/ \E s \in Reviewers : Marking(s, i)'
        <3>1. CASE i = id
            BY <2>3, <2>6, <2>7, <2>9, <3>1
        <3>2. CASE i # id
            BY <2>6, <2>8, <2>9, <3>2 DEF OnceInv
        <3> QED
            BY <3>1, <3>2
    <2> QED
        BY <1>0, <2>1, <2>10 DEF OnceInv
<1>8. ASSUME NEW r \in Reviewers, AppendUpdate(r) PROVE OnceInv'
    <2>1. /\ pc[r] = "append" /\ AppendLine(Updated(r))
          /\ UNCHANGED <<readable, deliveries, op>>
          /\ \A s \in Actors : s # r => pc'[s] = pc[s]
          /\ op[r].id \in RecordIds
        BY <1>0, <1>8, <1>c DEF AppendUpdate, Goto, opencti, TypeOK
    <2>2. PICK id \in RecordIds : id = op[r].id
        BY <2>1
    <2>3. PICK new \in Record : new = Updated(r) /\ new.id = id
        BY <2>1, <2>2, UpdatedRecord
    <2>4. /\ snap[r] \in Record /\ op[r] \in Operation
          /\ IsKnown(log, id) /\ Current(id) = snap[r]
          /\ IF op[r].action = "export" THEN CanMarkExported(snap[r])
                                        ELSE CanDecide(snap[r], op[r])
        BY <2>1, <2>2, <1>c DEF TypeInv, Carried, ReviewInv, ReadIsCurrent
    <2>5. deliveries[id] > 0 => new.exported
        <3>1. CASE op[r].action = "export"
            BY <2>3, <2>4, <3>1, MarkedFields DEF Updated, MarkedExported
        <3>2. CASE op[r].action # "export"
            <4>1. \A s \in Reviewers : ~Marking(s, id)
                BY <1>b, <2>1, <3>2 DEF Marking, InSection
            <4>2. LastPosition(log, id) \in DOMAIN log /\ log[LastPosition(log, id)] = snap[r]
                BY <2>4, CurrentIsALine
                DEF Current, CurrentRecord, Positions, TypeInv, TypeOK
            <4>3. ~Current(id).exported
                BY <2>4, <3>2, <4>2 DEF HistoryInv, PendingUnmarked, CanDecide
            <4> QED
                BY <4>1, <4>3 DEF OnceInv
        <3> QED
            BY <3>1, <3>2
    <2>6. /\ IsKnown(log', id) /\ Current(id)' = new
          /\ \A i : IsKnown(log, i) => IsKnown(log', i)
          /\ \A i : i # id /\ IsKnown(log, i) => Current(i)' = Current(i)
        BY <1>0, <2>1, <2>3, AfterAppend DEF TypeOK, Current
    <2>7. \A s \in Reviewers : \A i : i # id /\ Marking(s, i) => Marking(s, i)'
        BY <1>a, <2>1, <2>2 DEF Marking
    <2>8. ASSUME NEW i \in RecordIds, deliveries[i] > 0
          PROVE  /\ IsKnown(log', i)
                 /\ Current(i)'.exported \/ \E s \in Reviewers : Marking(s, i)'
        <3>1. CASE i = id
            BY <2>5, <2>6, <2>8, <3>1
        <3>2. CASE i # id
            BY <2>6, <2>7, <2>8, <3>2 DEF OnceInv
        <3> QED
            BY <3>1, <3>2
    <2> QED
        BY <1>0, <2>1, <2>8 DEF OnceInv
<1>9. ASSUME NEW a \in Actors, TearAppend(a) \/ AuditFails(a) \/ CrashProcess(a) \/ CrashServer
      PROVE  FALSE
    BY <1>9 DEF TearAppend, AuditFails, CrashProcess, CrashServer
<1>10. CASE UNCHANGED vars
    <2>1. UNCHANGED <<log, readable, deliveries, pc, op>>
        BY <1>10 DEF vars, files, opencti
    <2>2. \A r \in Reviewers : \A id : Marking(r, id)' <=> Marking(r, id)
        BY <2>1 DEF Marking
    <2>3. \A id : (IsKnown(log', id) <=> IsKnown(log, id)) /\ Current(id)' = Current(id)
        BY <2>1 DEF Current
    <2> QED
        BY <2>1, <2>2, <2>3 DEF OnceInv
<1>11. ASSUME NEW r \in Reviewers, Proceed(r) PROVE OnceInv'
    <2>1. Read(r) \/ Refuse(r) => pc[r] = "reading"
        BY DEF Read, Refuse
    <2>2. /\ SendFails(r) => pc[r] = "sending"
          /\ AppendAudit(r) => pc[r] = "audit"
        BY DEF SendFails, AppendAudit
    <2> QED
        BY <1>3, <1>5, <1>6, <1>7, <1>8, <1>11, <2>1, <2>2 DEF Proceed
<1>12. ASSUME NEW r \in Reviewers, Submit(r) PROVE OnceInv'
    BY <1>3, <1>12 DEF Submit
<1> QED
    BY <1>a, <1>1, <1>2, <1>4, <1>9, <1>10, <1>11, <1>12
    DEF Next, GatewayStep, Fault, CrashServer, Actors, Reviewers

\* While nothing crashes or fails and reviewers are serialized, OpenCTI receives
\* a record once, however many exports of it are asked for at the same time
\* (gateway/quarantine_export.py export_record, core/quarantine.py mark_exported).
THEOREM DeliveredOnce ==
    ASSUME Serialized
    PROVE  Spec => []ExportedOnce
<1>1. CASE MayFail
    <2>1. ExportedOnce
        BY <1>1 DEF ExportedOnce
    <2>2. []ExportedOnce
        BY <2>1, PTL
    <2> QED
        BY <2>2
<1>2. CASE ~MayFail
    <2>1. OnceInv => ExportedOnce
        BY DEF OnceInv, ExportedOnce
    <2>2. TypeInv /\ ReviewInv /\ [Next]_vars => ReviewInv'
        BY NextInv
    <2>3. TypeInv /\ ReviewInv /\ HistoryInv /\ OnceInv /\ [Next]_vars => OnceInv'
        BY <1>2, OnceStep
    <2> QED
        BY <2>1, <2>2, <2>3, InitTypes, NextTypes, InitInv, HistoryInit, HistoryStep,
           OnceInit, PTL DEF Spec
<1> QED
    BY <1>1, <1>2

-----------------------------------------------------------------------------
(* The audit mirrors the file while nothing fails                           *)

\* A file with one more line: the earlier lines keep their rank, and the new
\* one, if it is a review, has the next.
LEMMA RanksOfAppended ==
    ASSUME NEW lines \in Seq(Record), NEW rec \in Record
    PROVE  LET more == Append(lines, rec)  n == Len(lines) + 1 IN
           /\ rec.status = "pending" => ReviewLines(more) = ReviewLines(lines)
           /\ rec.status # "pending" =>
                 /\ ReviewLines(more) = ReviewLines(lines) \union {n}
                 /\ Cardinality(ReviewLines(more)) = Cardinality(ReviewLines(lines)) + 1
                 /\ Rank(more, n) = Cardinality(ReviewLines(lines)) + 1
           /\ Cardinality(ReviewLines(lines)) \in Nat
           /\ \A i \in ReviewLines(lines) :
                 /\ more[i] = lines[i] /\ Rank(more, i) = Rank(lines, i)
                 /\ Rank(lines, i) \in 1 .. Cardinality(ReviewLines(lines))
           /\ more[n] = rec
<1> DEFINE more == Append(lines, rec)
           n == Len(lines) + 1
           R == ReviewLines(lines)
<1>1. /\ Len(lines) \in Nat /\ DOMAIN lines = 1 .. Len(lines)
      /\ DOMAIN more = 1 .. n /\ more[n] = rec /\ n \notin 1 .. Len(lines)
      /\ \A i \in 1 .. Len(lines) : more[i] = lines[i]
    BY AppendProperties, LenProperties
<1>2. R \subseteq 1 .. Len(lines) /\ n \notin R
    BY <1>1 DEF ReviewLines
<1>3. IsFiniteSet(R) /\ Cardinality(R) \in Nat
  <2>1. IsFiniteSet(1 .. Len(lines))
      BY <1>1, FS_Interval
  <2>2. IsFiniteSet(R)
      BY <1>2, <2>1, FS_Subset
  <2> QED
      BY <2>2, FS_CardinalityType
<1>4. rec.status = "pending" => ReviewLines(more) = R
    BY <1>1 DEF ReviewLines
<1>5. rec.status # "pending" => ReviewLines(more) = R \union {n}
    BY <1>1 DEF ReviewLines
<1> HIDE DEF more, n, R
<1>6. Cardinality(R \union {n}) = Cardinality(R) + 1
    BY <1>2, <1>3, FS_AddElement
<1>7. rec.status # "pending" => Rank(more, n) = Cardinality(R) + 1
  <2>1. n \in Int /\ \A j \in R : j \in Int /\ j <= n
      BY <1>1, <1>2 DEF n
  <2>2. \A j \in R \union {n} : j <= n
      BY <2>1
  <2>3. {j \in R \union {n} : j <= n} = R \union {n}
      BY <2>2, Zenon
  <2> QED
      BY <1>5, <1>6, <2>3 DEF Rank
<1>8. ASSUME NEW i \in R
      PROVE  /\ more[i] = lines[i] /\ Rank(more, i) = Rank(lines, i)
             /\ Rank(lines, i) \in 1 .. Cardinality(R)
  <2>a. ~(n <= i)
      BY <1>1, <1>2, <1>8 DEF n
  <2>b. ReviewLines(more) = R \/ ReviewLines(more) = R \union {n}
      BY <1>4, <1>5
  <2>c. \A j : j \in ReviewLines(more) /\ j <= i <=> j \in R /\ j <= i
      BY <2>a, <2>b
  <2>1. {j \in ReviewLines(more) : j <= i} = {j \in R : j <= i}
      BY <2>c, Zenon
  <2> DEFINE upto == {j \in R : j <= i}
  <2>2. /\ IsFiniteSet(upto) /\ Cardinality(upto) <= Cardinality(R)
        /\ Cardinality(upto) \in Nat
      BY <1>3, FS_Subset, FS_CardinalityType
  <2>3. upto # {}
      BY <1>1, <1>2, <1>8
  <2>4. Cardinality(upto) # 0
      BY <2>2, <2>3, FS_EmptySet
  <2> HIDE DEF upto
  <2>5. Rank(lines, i) = Cardinality(upto) /\ Rank(more, i) = Cardinality(upto)
      BY <2>1 DEF Rank, R, upto
  <2> QED
      BY <1>1, <1>2, <1>3, <1>8, <2>2, <2>4, <2>5
<1> QED
    BY <1>1, <1>3, <1>4, <1>5, <1>6, <1>7, <1>8 DEF more, n, R

\* A line that is no review changes nothing, and a review needs its event.
LEMMA MirrorsAppended ==
    ASSUME NEW lines \in Seq(Record), NEW rec \in Record, NEW events \in Seq(AuditEvent),
           Mirrors(events, lines)
    PROVE  /\ rec.status = "pending" => Mirrors(events, Append(lines, rec))
           /\ \A event \in AuditEvent :
                 rec.status # "pending" /\ Tells(event, rec) =>
                    Mirrors(Append(events, event), Append(lines, rec))
<1> DEFINE more == Append(lines, rec)
           n == Len(lines) + 1
           size == Cardinality(ReviewLines(lines))
<1>1. /\ rec.status = "pending" => ReviewLines(more) = ReviewLines(lines)
      /\ rec.status # "pending" =>
            /\ ReviewLines(more) = ReviewLines(lines) \union {n}
            /\ Cardinality(ReviewLines(more)) = size + 1 /\ Rank(more, n) = size + 1
      /\ size \in Nat /\ more[n] = rec
      /\ \A i \in ReviewLines(lines) :
            /\ more[i] = lines[i] /\ Rank(more, i) = Rank(lines, i)
            /\ Rank(lines, i) \in 1 .. size
    BY RanksOfAppended
<1> HIDE DEF more, n, size
<1>2. Len(events) = size /\ \A i \in ReviewLines(lines) : Tells(events[Rank(lines, i)], lines[i])
    BY DEF Mirrors, size
<1>3. rec.status = "pending" => Mirrors(events, more)
    BY <1>1, <1>2 DEF Mirrors, size
<1>4. ASSUME NEW event \in AuditEvent, rec.status # "pending", Tells(event, rec)
      PROVE  Mirrors(Append(events, event), more)
  <2>1. /\ Len(Append(events, event)) = size + 1 /\ Append(events, event)[size + 1] = event
        /\ \A k \in 1 .. size : Append(events, event)[k] = events[k]
      BY <1>2, AppendProperties
  <2>2. \A i \in ReviewLines(more) : Tells(Append(events, event)[Rank(more, i)], more[i])
      BY <1>1, <1>2, <1>4, <2>1
  <2> QED
      BY <1>1, <1>4, <2>1, <2>2 DEF Mirrors
<1> QED
    BY <1>3, <1>4 DEF more

\* The event a reviewer is about to write.
Due(r) == [id |-> op[r].id, status |-> snap[r].status, action |-> op[r].action]

MirrorInv ==
    /\ readable
    /\ (\A r \in Reviewers : pc[r] # "audit") => Mirrors(audit, log)
    /\ \A r \in Reviewers : pc[r] = "audit" => Mirrors(Append(audit, Due(r)), log)

LEMMA MirrorInit == Init => MirrorInv
<1> SUFFICES ASSUME Init PROVE MirrorInv
    OBVIOUS
<1>1. \A r \in Reviewers : pc[r] = "idle"
    BY DEF Init, Actors
<1>2. ReviewLines(log) = {} /\ Len(audit) = 0
    BY DEF Init, ReviewLines
<1>3. Cardinality({}) = 0
    BY FS_EmptySet
<1> QED
    BY <1>1, <1>2, <1>3 DEF Init, MirrorInv, Mirrors

LEMMA MirrorStep ==
    ASSUME Serialized, ~MayFail
    PROVE  TypeInv /\ ReviewInv /\ MirrorInv /\ [Next]_vars => MirrorInv'
<1> SUFFICES ASSUME TypeInv, ReviewInv, MirrorInv, [Next]_vars PROVE MirrorInv'
    OBVIOUS
<1>0. TypeOK /\ readable /\ LockHeld
    BY DEF TypeInv, MirrorInv, ReviewInv
<1>a. \A r \in Reviewers : r \in Actors /\ \A g \in Gateways : g # r
    BY ActorsAssumption DEF Actors
<1>b. \A r, s \in Reviewers : InSection(r) /\ InSection(s) => r = s
    BY <1>0, OneReviewer
<1>k. ASSUME UNCHANGED <<log, readable, audit>>,
             \A r \in Reviewers : IF pc[r] = "audit"
                                  THEN pc'[r] = "audit" /\ op'[r] = op[r] /\ snap'[r] = snap[r]
                                  ELSE pc'[r] # "audit"
      PROVE  MirrorInv'
  <2>1. \A r \in Reviewers : pc'[r] = "audit" <=> pc[r] = "audit"
      BY <1>k
  <2>2. \A r \in Reviewers : pc[r] = "audit" => Due(r)' = Due(r)
      BY <1>k DEF Due
  <2> QED
      BY <1>k, <2>1, <2>2 DEF MirrorInv
<1>1. ASSUME NEW g \in Gateways, NEW id \in RecordIds, GatewayFind(g, id) PROVE MirrorInv'
  <2>1. g \in Actors /\ \A r \in Reviewers : pc'[r] = pc[r] /\ op'[r] = op[r] /\ snap'[r] = snap[r]
      BY <1>0, <1>1, <1>a DEF GatewayFind, Goto, TypeOK, Actors
  <2> QED
      BY <1>1, <1>k, <2>1 DEF GatewayFind, files
<1>2. ASSUME NEW g \in Gateways, GatewayAppend(g) PROVE MirrorInv'
  <2> DEFINE new == NewRecord(op[g].id)
  <2>1. /\ AppendLine(new) /\ UNCHANGED <<readable, audit>> /\ Finish(g)
        /\ op[g] \in Operation /\ g \in Actors
      BY <1>2 DEF GatewayAppend, Actors, TypeInv, Carried
  <2>2. new \in Record /\ new.status = "pending"
      BY <2>1, OperationFields, NewRecordType DEF NewRecord
  <2>3. log' = Append(log, new) /\ log \in Seq(Record) /\ audit \in Seq(AuditEvent)
      BY <1>0, <2>1 DEF AppendLine, TypeOK
  <2> HIDE DEF new
  <2>4. \A r \in Reviewers : pc'[r] = pc[r] /\ op'[r] = op[r] /\ snap'[r] = snap[r]
      BY <1>0, <1>a, <2>1 DEF Finish, Goto, TypeOK
  <2>5. \A r \in Reviewers : pc[r] = "audit" => Due(r) \in AuditEvent /\ Due(r)' = Due(r)
    <3> SUFFICES ASSUME NEW r \in Reviewers, pc[r] = "audit"
                 PROVE  Due(r) \in AuditEvent /\ Due(r)' = Due(r)
        OBVIOUS
    <3>1. op[r] \in Operation /\ op[r].action # "add" /\ snap[r] \in Record
        BY DEF TypeInv, Carried
    <3>2. Due(r) \in AuditEvent
        BY <3>1, OperationFields, RecordFields DEF Due, AuditEvent
    <3> QED
        BY <2>4, <3>2 DEF Due
  <2>6. ASSUME NEW events \in Seq(AuditEvent), Mirrors(events, log) PROVE Mirrors(events, log')
      BY <2>2, <2>3, <2>6, MirrorsAppended
  <2>7. \A r \in Reviewers : pc[r] = "audit" => Append(audit, Due(r)) \in Seq(AuditEvent)
      BY <2>3, <2>5, AppendProperties
  <2> QED
      BY <1>0, <2>1, <2>3, <2>4, <2>5, <2>6, <2>7 DEF MirrorInv
<1>3. ASSUME NEW r \in Reviewers, pc[r] # "audit",
             Submit(r) \/ Read(r) \/ Refuse(r) \/ Send(r) \/ SendFails(r)
             \/ MarkRead(r) \/ MarkRefused(r) \/ (r \in Requests /\ Acquire(r))
      PROVE  MirrorInv'
  <2>1. /\ UNCHANGED <<log, readable, audit>>
        /\ pc'[r] # "audit"
        /\ \A s \in Actors : s # r => pc'[s] = pc[s] /\ op'[s] = op[s] /\ snap'[s] = snap[s]
      BY <1>0, <1>3, <1>a
      DEF Submit, Read, Refuse, Send, SendFails, MarkRead, MarkRefused, Acquire, Finish, Goto,
          files, TypeOK
  <2> QED
      BY <1>3, <1>a, <1>k, <2>1
<1>4. ASSUME NEW r \in Reviewers, AppendUpdate(r) PROVE MirrorInv'
  <2> DEFINE new == Updated(r)
  <2>1. /\ pc[r] = "append" /\ AppendLine(new) /\ Goto(r, "audit")
        /\ UNCHANGED <<readable, audit, op>> /\ snap' = [snap EXCEPT ![r] = new]
      BY <1>4 DEF AppendUpdate
  <2>2. new \in Record /\ new.id = op[r].id
      BY <2>1, UpdatedRecord
  <2>3. /\ snap[r] \in Record /\ op[r] \in Operation /\ op[r].action # "add"
        /\ IF op[r].action = "export" THEN CanMarkExported(snap[r])
                                      ELSE CanDecide(snap[r], op[r])
      BY <2>1 DEF TypeInv, Carried, ReviewInv, ReadIsCurrent
  <2>4. new.status # "pending" /\ (op[r].action = "export") = new.exported
    <3>1. CASE op[r].action = "export"
        BY <2>3, <3>1, MarkedFields DEF Updated, CanMarkExported, ExportableStatuses
    <3>2. CASE op[r].action # "export"
      <4>1. new.exported = FALSE
          BY <3>2 DEF Updated, Decided
      <4> QED
          BY <2>3, <3>2, <4>1, DecidedFields DEF Updated
    <3> QED
        BY <3>1, <3>2
  <2> HIDE DEF new
  <2>5. log' = Append(log, new) /\ log \in Seq(Record) /\ audit \in Seq(AuditEvent)
      BY <1>0, <2>1 DEF AppendLine, TypeOK
  <2>6. \A s \in Reviewers : s # r => pc[s] # "audit" /\ pc'[s] = pc[s]
      BY <1>0, <1>a, <1>b, <2>1 DEF InSection, Goto, TypeOK
  <2>7. pc'[r] = "audit" /\ op'[r] = op[r] /\ snap'[r] = new
      BY <1>0, <1>a, <2>1 DEF Goto, TypeOK
  <2>8. Mirrors(audit, log)
      BY <2>1, <2>6 DEF MirrorInv
  <2>9. Due(r)' \in AuditEvent /\ Tells(Due(r)', new)
    <3>1. Due(r)' = [id |-> op[r].id, status |-> new.status, action |-> op[r].action]
        BY <2>7 DEF Due
    <3> QED
        BY <2>2, <2>3, <2>4, <3>1, OperationFields, RecordFields DEF AuditEvent, Tells
  <2>10. Mirrors(Append(audit, Due(r)'), log')
      BY <2>2, <2>4, <2>5, <2>8, <2>9, MirrorsAppended
  <2> QED
      BY <1>0, <2>1, <2>6, <2>7, <2>10 DEF MirrorInv
<1>5. ASSUME NEW r \in Reviewers, AppendAudit(r) PROVE MirrorInv'
  <2>1. /\ pc[r] = "audit" /\ audit' = Append(audit, Due(r)) /\ Finish(r)
        /\ UNCHANGED <<log, readable>>
      BY <1>5 DEF AppendAudit, Due
  <2>2. Mirrors(audit', log')
      BY <2>1 DEF MirrorInv
  <2>3. pc'[r] = "idle" /\ \A s \in Reviewers : s # r => pc'[s] = pc[s] /\ pc[s] # "audit"
      BY <1>0, <1>a, <1>b, <2>1 DEF Finish, Goto, TypeOK, InSection
  <2> QED
      BY <1>0, <2>1, <2>2, <2>3 DEF MirrorInv
<1>6. CASE UNCHANGED vars
    BY <1>6, <1>k DEF vars
<1>7. ASSUME NEW r \in Reviewers, Submit(r) \/ Proceed(r) \/ (r \in Requests /\ Acquire(r))
      PROVE  MirrorInv'
  <2>1. pc[r] # "audit" \/ AppendAudit(r)
      BY <1>7 DEF Submit, Proceed, Acquire, Read, Refuse, Send, SendFails, MarkRead,
                  MarkRefused, AppendUpdate
  <2> QED
      BY <1>3, <1>4, <1>5, <1>7, <2>1 DEF Proceed
<1> QED
    BY <1>a, <1>1, <1>2, <1>6, <1>7
    DEF Next, GatewayStep, Fault, TearAppend, CrashProcess, AuditFails, CrashServer, Reviewers

\* While nothing crashes or fails and reviewers are serialized, the release
\* audit lists the decisions and exports of the repository, all of them and in
\* their order (core/quarantine.py _append_release_audit).
THEOREM AuditTellsTheStory ==
    ASSUME Serialized
    PROVE  Spec => []AuditMirrorsLog
<1>1. CASE MayFail
    <2>1. AuditMirrorsLog
        BY <1>1 DEF AuditMirrorsLog
    <2>2. []AuditMirrorsLog
        BY <2>1, PTL
    <2> QED
        BY <2>2
<1>2. CASE ~MayFail
    <2>1. MirrorInv => AuditMirrorsLog
        BY DEF MirrorInv, AuditMirrorsLog
    <2>2. TypeInv /\ ReviewInv /\ [Next]_vars => ReviewInv'
        BY NextInv
    <2>3. TypeInv /\ ReviewInv /\ MirrorInv /\ [Next]_vars => MirrorInv'
        BY <1>2, MirrorStep
    <2> QED
        BY <2>1, <2>2, <2>3, InitTypes, NextTypes, InitInv, MirrorInit, PTL DEF Spec
<1> QED
    BY <1>1, <1>2

-----------------------------------------------------------------------------
(* The abstract lifecycle                                                   *)

Keep == UNCHANGED <<LifecycleStatus, LifecycleExported, deliveries>>

\* What a record looks like from outside is decided by its current line.
LEMMA SameLines ==
    ASSUME UNCHANGED <<log, deliveries>>
    PROVE  Keep
BY DEF Keep, LifecycleStatus, LifecycleExported, Current

\* A line that is appended is a step of the record it is about, and of no other.
LEMMA LineMoves ==
    ASSUME TypeOK, NEW rec \in Record, AppendLine(rec), readable
    PROVE  /\ LifecycleStatus' = [LifecycleStatus EXCEPT ![rec.id] = rec.status]
           /\ LifecycleExported' = [LifecycleExported EXCEPT ![rec.id] = rec.exported]
<1>1. /\ \A id : id # rec.id =>
             /\ IsKnown(log', id) <=> IsKnown(log, id)
             /\ IsKnown(log, id) => CurrentRecord(log', id) = CurrentRecord(log, id)
      /\ IsKnown(log', rec.id) /\ CurrentRecord(log', rec.id) = rec
    BY AfterAppend DEF TypeOK
<1>2. ASSUME NEW id \in RecordIds
      PROVE  /\ LifecycleStatus'[id] = IF id = rec.id THEN rec.status ELSE LifecycleStatus[id]
             /\ LifecycleExported'[id] =
                    IF id = rec.id THEN rec.exported ELSE LifecycleExported[id]
    <2>1. CASE id = rec.id
        BY <1>1, <2>1, RecordFields DEF LifecycleStatus, LifecycleExported, Current
    <2>2. CASE id # rec.id
        BY <1>1, <2>2 DEF LifecycleStatus, LifecycleExported, Current
    <2> QED
        BY <2>1, <2>2
<1>3. /\ LifecycleStatus = [id \in RecordIds |-> LifecycleStatus[id]]
      /\ LifecycleStatus' = [id \in RecordIds |-> LifecycleStatus'[id]]
      /\ LifecycleExported = [id \in RecordIds |-> LifecycleExported[id]]
      /\ LifecycleExported' = [id \in RecordIds |-> LifecycleExported'[id]]
    BY DEF LifecycleStatus, LifecycleExported
<1> HIDE DEF LifecycleStatus, LifecycleExported
<1> QED
    BY <1>2, <1>3

LEMMA LifecycleInit == Init => Lifecycle!Init
<1> SUFFICES ASSUME Init PROVE Lifecycle!Init
    OBVIOUS
<1>1. log = <<>> /\ deliveries = [id \in RecordIds |-> 0]
    BY DEF Init
<1>2. \A id : ~IsKnown(log, id)
    <2>1. DOMAIN log = {}
        BY <1>1
    <2> QED
        BY <2>1 DEF IsKnown, Positions
<1>3. LifecycleStatus = [id \in RecordIds |-> "absent"]
    BY <1>2 DEF LifecycleStatus
<1>4. LifecycleExported = [id \in RecordIds |-> FALSE]
    BY <1>2 DEF LifecycleExported
<1> QED
    BY <1>1, <1>3, <1>4 DEF Lifecycle!Init

LEMMA Unreadable ==
    ASSUME NEW rec, AppendLine(rec), ~readable, UNCHANGED deliveries
    PROVE  Keep
BY SameLines DEF AppendLine

\* A current record, and what the lifecycle says of it.
LEMMA LifecycleOf ==
    ASSUME TypeInv, NEW id \in RecordIds
    PROVE  /\ IsKnown(log, id) =>
                /\ LifecycleStatus[id] = Current(id).status
                /\ LifecycleExported[id] = Current(id).exported
           /\ ~IsKnown(log, id) => LifecycleStatus[id] = "absent" /\ ~LifecycleExported[id]
<1>1. /\ LifecycleStatus[id] = IF IsKnown(log, id) THEN Current(id).status ELSE "absent"
      /\ LifecycleExported[id] <=> (IsKnown(log, id) /\ Current(id).exported)
    BY DEF LifecycleStatus, LifecycleExported
<1>2. LifecycleExported[id] \in BOOLEAN
    BY DEF LifecycleExported
<1>3. IsKnown(log, id) => Current(id).exported \in BOOLEAN
    BY CurrentIsALine, RecordFields DEF Current, TypeInv, TypeOK
<1> QED
    BY <1>1, <1>2, <1>3

LEMMA GatewayRefines ==
    ASSUME TypeInv, ReviewInv, NEW g \in Gateways, GatewayAppend(g)
    PROVE  Lifecycle!Next \/ Keep
<1> DEFINE id == op[g].id
           new == NewRecord(id)
<1>1. /\ id \in RecordIds /\ new \in Record /\ new.id = id
      /\ new.status = "pending" /\ new.exported = FALSE
      /\ ~IsKnown(log, id) /\ AppendLine(new) /\ UNCHANGED deliveries
    BY OperationFields, NewRecordType
    DEF GatewayAppend, TypeInv, Carried, ReviewInv, FindIsCurrent, NewRecord, opencti
<1>2. LifecycleStatus[id] = "absent" /\ LifecycleExported[id] = FALSE
    BY <1>1 DEF LifecycleStatus, LifecycleExported
<1> HIDE DEF id, new
<1>3. CASE readable
    <2>1. /\ LifecycleStatus' = [LifecycleStatus EXCEPT ![id] = "pending"]
          /\ LifecycleExported' = [LifecycleExported EXCEPT ![id] = FALSE]
        BY <1>1, <1>3, LineMoves DEF TypeInv
    <2>2. LifecycleExported' = LifecycleExported
        BY <1>1, <1>2, <2>1 DEF LifecycleExported
    <2>3. Lifecycle!Quarantine(id)
        BY <1>1, <1>2, <2>1, <2>2 DEF Lifecycle!Quarantine
    <2> QED
        BY <1>1, <2>3 DEF Lifecycle!Next
<1>4. CASE ~readable
    BY <1>1, <1>4, Unreadable
<1> QED
    BY <1>3, <1>4 DEF TypeInv, TypeOK

LEMMA UpdateRefines ==
    ASSUME TypeInv, ReviewInv, HistoryInv, NEW r \in Reviewers, AppendUpdate(r)
    PROVE  Lifecycle!Next \/ Keep
<1> DEFINE id == op[r].id
           new == Updated(r)
<1>1. /\ pc[r] = "append" /\ AppendLine(new) /\ UNCHANGED deliveries
    BY DEF AppendUpdate, opencti
<1>2. /\ id \in RecordIds /\ new \in Record /\ new.id = id
      /\ snap[r] \in Record /\ op[r] \in Operation
      /\ IsKnown(log, id) /\ Current(id) = snap[r]
      /\ IF op[r].action = "export" THEN CanMarkExported(snap[r])
                                    ELSE CanDecide(snap[r], op[r])
    BY <1>1, UpdatedRecord, OperationFields DEF TypeInv, Carried, ReviewInv, ReadIsCurrent
<1>3. /\ LifecycleStatus[id] = snap[r].status
      /\ LifecycleExported[id] = snap[r].exported
    BY <1>2, LifecycleOf
<1>4. CASE ~readable
    BY <1>1, <1>4, Unreadable
<1>5. CASE readable /\ op[r].action = "export"
    <2>1. new.status = snap[r].status /\ new.exported = TRUE
        BY <1>2, <1>5, MarkedFields, RecordFields DEF Updated
    <2>2. /\ LifecycleStatus' = [LifecycleStatus EXCEPT ![id] = snap[r].status]
          /\ LifecycleExported' = [LifecycleExported EXCEPT ![id] = TRUE]
        <3> HIDE DEF id, new
        <3> QED BY <1>1, <1>2, <1>5, <2>1, LineMoves DEF TypeInv
    <2>3. LifecycleStatus' = LifecycleStatus
        BY <1>2, <1>3, <2>2 DEF LifecycleStatus
    <2>4. snap[r].status \in {"released", "partially-released"} /\ snap[r].exported = FALSE
        BY <1>2, <1>5, RecordFields DEF CanMarkExported, ExportableStatuses
    <2>5. deliveries[id] > 0
        BY <1>1, <2>1 DEF HistoryInv, ReviewerInv
    <2> HIDE DEF id, new
    <2>6. Lifecycle!MarkExported(id)
        BY <1>1, <1>3, <2>2, <2>3, <2>4, <2>5 DEF Lifecycle!MarkExported, Lifecycle!Exportable
    <2> QED
        BY <1>2, <2>6 DEF Lifecycle!Next
<1>6. CASE readable /\ op[r].action # "export"
    <2>1. /\ new.status \in {"released", "partially-released", "rejected"}
          /\ new.exported = FALSE /\ snap[r].status = "pending"
        BY <1>2, <1>6, DecidedFields DEF Updated, Decided, CanDecide
    <2>2. snap[r].exported = FALSE
        <3>1. LastPosition(log, id) \in DOMAIN log /\ log[LastPosition(log, id)] = snap[r]
            BY <1>2, CurrentIsALine DEF Current, CurrentRecord, Positions, TypeInv, TypeOK
        <3> QED
            BY <1>2, <2>1, <3>1, RecordFields DEF HistoryInv, PendingUnmarked
    <2>3. /\ LifecycleStatus' = [LifecycleStatus EXCEPT ![id] = new.status]
          /\ LifecycleExported' = [LifecycleExported EXCEPT ![id] = FALSE]
        <3> HIDE DEF id, new
        <3> QED BY <1>1, <1>2, <1>6, <2>1, LineMoves DEF TypeInv
    <2>4. LifecycleExported' = LifecycleExported
        BY <1>2, <1>3, <2>2, <2>3 DEF LifecycleExported
    <2> HIDE DEF id, new
    <2>5. Lifecycle!Decide(id)
        BY <1>1, <1>3, <2>1, <2>3, <2>4
        DEF Lifecycle!Decide, Lifecycle!Final, Lifecycle!Exportable
    <2> QED
        BY <1>2, <2>5 DEF Lifecycle!Next
<1> QED
    BY <1>4, <1>5, <1>6 DEF TypeInv, TypeOK

LEMMA SendRefines ==
    ASSUME TypeInv, ReviewInv, NEW r \in Reviewers, Send(r)
    PROVE  Lifecycle!Next
<1> DEFINE id == op[r].id
<1>1. /\ pc[r] = "sending" /\ log' = log
      /\ deliveries' = [deliveries EXCEPT ![id] = @ + 1]
    BY DEF Send, files
<1>2. /\ id \in RecordIds /\ IsKnown(log, id) /\ Current(id) = snap[r]
      /\ CanExport(snap[r]) /\ snap[r] \in Record
    BY <1>1, OperationFields DEF TypeInv, Carried, ReviewInv, ReadIsCurrent
<1>3. UNCHANGED <<LifecycleStatus, LifecycleExported>>
    BY <1>1 DEF LifecycleStatus, LifecycleExported, Current
<1>4. /\ LifecycleStatus[id] \in {"released", "partially-released"}
      /\ ~LifecycleExported[id]
    BY <1>2, LifecycleOf DEF CanExport, CanMarkExported, ExportableStatuses
<1> HIDE DEF id
<1>5. Lifecycle!Deliver(id)
    BY <1>1, <1>3, <1>4 DEF Lifecycle!Deliver, Lifecycle!Exportable
<1> QED
    BY <1>2, <1>5 DEF Lifecycle!Next

LEMMA StepRefines ==
    TypeInv /\ ReviewInv /\ HistoryInv /\ [Next]_vars => [Lifecycle!Next]_(Lifecycle!vars)
<1> SUFFICES ASSUME TypeInv, ReviewInv, HistoryInv, [Next]_vars
             PROVE  Lifecycle!Next \/ Keep
    BY DEF Keep, Lifecycle!vars
<1>1. ASSUME NEW g \in Gateways, GatewayAppend(g) PROVE Lifecycle!Next \/ Keep
    BY <1>1, GatewayRefines
<1>2. ASSUME NEW r \in Reviewers, AppendUpdate(r) PROVE Lifecycle!Next \/ Keep
    BY <1>2, UpdateRefines
<1>3. ASSUME NEW r \in Reviewers, Send(r) PROVE Lifecycle!Next
    BY <1>3, SendRefines
<1>4. ASSUME NEW a, NEW id,
             GatewayFind(a, id) \/ Submit(a) \/ Acquire(a) \/ Read(a) \/ Refuse(a)
             \/ SendFails(a) \/ MarkRead(a) \/ MarkRefused(a) \/ AppendAudit(a)
             \/ TearAppend(a) \/ AuditFails(a) \/ CrashProcess(a)
      PROVE  Keep
    <2>1. UNCHANGED <<log, deliveries>>
        BY <1>4 DEF GatewayFind, Submit, Acquire, Read, Refuse, SendFails, MarkRead,
                    MarkRefused, AppendAudit, TearAppend, AuditFails, CrashProcess,
                    files, opencti
    <2> QED
        BY <2>1, SameLines
<1>5. CASE CrashServer
    BY <1>5, SameLines DEF CrashServer, files, opencti
<1>6. CASE UNCHANGED vars
    BY <1>6, SameLines DEF vars
<1> QED
    BY <1>1, <1>2, <1>3, <1>4, <1>5, <1>6 DEF Next, GatewayStep, Proceed, Fault

\* When reviewers are serialized, the repository file, the lock, the reads and
\* the appends of all processes implement the lifecycle of every record: it is
\* decided once, delivered only while released and unmarked, and marked after
\* a delivery (core/quarantine.py, gateway/quarantine_export.py).
THEOREM Refinement ==
    ASSUME Serialized
    PROVE  Spec => ImplementsLifecycle
<1>1. TypeInv /\ ReviewInv /\ [Next]_vars => ReviewInv'
    BY NextInv
<1> QED
    BY <1>1, InitTypes, NextTypes, InitInv, HistoryInit, HistoryStep, LifecycleInit,
       StepRefines, PTL DEF Spec, ImplementsLifecycle, Lifecycle!Spec

=============================================================================
