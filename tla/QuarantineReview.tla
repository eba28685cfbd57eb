-------------------------- MODULE QuarantineReview --------------------------
(***************************************************************************)
(* The quarantine repository under all the processes that share it:        *)
(*                                                                         *)
(*   Gateways  the connector process, which queues quarantined candidates  *)
(*             (QuarantineRepository.add);                                 *)
(*   Requests  handler threads of the review API, one process; every       *)
(*             repository operation runs under its repository_lock;        *)
(*   Commands  runs of the CLI "python -m gateway.quarantine", processes   *)
(*             of their own that take no lock.                             *)
(*                                                                         *)
(* The repository file is an append-only list of JSON lines.  Every        *)
(* operation first reads the whole file, decides, and then appends, so     *)
(* another process may append in between.  A decision or an export also    *)
(* appends to the release audit file, after the repository.                *)
(*                                                                         *)
(* An export is export_pending(quarantine_id) with no artifact             *)
(* deduplication, the default of the review API and of the CLI.            *)
(***************************************************************************)
EXTENDS QuarantineRecords, FiniteSets

CONSTANTS
    Gateways, Requests, Commands,
    MaxDeliveries,      \* bound: deliveries to OpenCTI of one record
    MayFail,            \* TRUE: crashes and failed or torn writes happen
    None                \* no record, no operation, nobody

Reviewers == Requests \cup Commands
Actors == Gateways \cup Reviewers

ASSUME ActorsAssumption ==
    /\ Gateways \cap Reviewers = {}
    /\ Requests \cap Commands = {}

ASSUME BoundsAssumption ==
    /\ MaxDeliveries \in Nat
    /\ MayFail \in BOOLEAN

ASSUME NoneAssumption ==
    None \notin Record \cup Operation \cup Actors

VARIABLES
    log,        \* the parsed lines of the repository file
    readable,   \* FALSE once a torn line makes events() raise
    audit,      \* the release audit file
    deliveries, \* how many bundles OpenCTI accepted for a record
    delivered,  \* the indicator types OpenCTI received from a record
    lock,       \* owner of the API's repository_lock, or None
    pc,         \* where an actor is in its operation
    op,         \* the operation it performs
    snap        \* the record it read, from which it appends

vars == <<log, readable, audit, deliveries, delivered, lock, pc, op, snap>>
files == <<log, readable, audit>>
opencti == <<deliveries, delivered>>

Steps == {"idle", "waiting", "reading", "sending", "marking", "append", "audit"}

AuditEvent == [id : RecordIds, status : Statuses, action : Decisions \cup {"export"}]

TypeOK ==
    /\ log \in Seq(Record)
    /\ readable \in BOOLEAN
    /\ audit \in Seq(AuditEvent)
    /\ deliveries \in [RecordIds -> Nat]
    /\ delivered \in [RecordIds -> SUBSET IndicatorTypes]
    /\ lock \in Requests \cup {None}
    /\ pc \in [Actors -> Steps]
    /\ op \in [Actors -> Operation \cup {None}]
    /\ snap \in [Actors -> Record \cup {None}]

Init ==
    /\ log = << >>
    /\ readable = TRUE
    /\ audit = << >>
    /\ deliveries = [id \in RecordIds |-> 0]
    /\ delivered = [id \in RecordIds |-> {}]
    /\ lock = None
    /\ pc = [a \in Actors |-> "idle"]
    /\ op = [a \in Actors |-> None]
    /\ snap = [a \in Actors |-> None]

-----------------------------------------------------------------------------
Goto(a, step) == pc' = [pc EXCEPT ![a] = step]

\* Mutant: an operation ends without releasing the lock.
FinishHoldingLock(a) ==
    /\ Goto(a, "idle")
    /\ op' = [op EXCEPT ![a] = None]
    /\ snap' = [snap EXCEPT ![a] = None]
    /\ UNCHANGED lock

\* Returning or raising leaves the "with repository_lock" block.
Finish(a) ==
    /\ Goto(a, "idle")
    /\ op' = [op EXCEPT ![a] = None]
    /\ snap' = [snap EXCEPT ![a] = None]
    /\ lock' = IF lock = a THEN None ELSE lock

\* get(): the record the reader sees, unless the file is unreadable or the
\* id unknown, which raise.
CanRead(id) == readable /\ IsKnown(log, id)
Current(id) == CurrentRecord(log, id)

\* A line appended behind a torn one is glued to it and parsed by nobody.
AppendLine(record) ==
    log' = IF readable THEN Append(log, record) ELSE log

-----------------------------------------------------------------------------
(* The gateway: QuarantineRepository.add                                    *)

\* Mutant: add appends without looking for an existing record.
GatewayFindNothing(g, id) ==
    /\ pc[g] = "idle"
    /\ readable
    /\ Len(log) < 4
    /\ Goto(g, "append")
    /\ op' = [op EXCEPT ![g] = [action |-> "add", id |-> id, types |-> {}]]
    /\ UNCHANGED <<files, opencti, lock, snap>>

\* find() knows nothing of the id; otherwise add returns what it found.
GatewayFind(g, id) ==
    /\ pc[g] = "idle"
    /\ readable
    /\ ~IsKnown(log, id)
    /\ Goto(g, "append")
    /\ op' = [op EXCEPT ![g] = [action |-> "add", id |-> id, types |-> {}]]
    /\ UNCHANGED <<files, opencti, lock, snap>>

GatewayAppend(g) ==
    /\ pc[g] = "append"
    /\ AppendLine(NewRecord(op[g].id))
    /\ Finish(g)
    /\ UNCHANGED <<readable, audit, opencti>>

-----------------------------------------------------------------------------
(* Reviewers: the API's handlers and the CLI's commands                     *)

Submit(r) ==
    /\ pc[r] = "idle"
    /\ \E o \in Operation :
        /\ o.action # "add"
        /\ op' = [op EXCEPT ![r] = o]
    /\ Goto(r, IF r \in Requests THEN "waiting" ELSE "reading")
    /\ UNCHANGED <<files, opencti, lock, snap>>

\* with repository_lock
Acquire(r) ==
    /\ pc[r] = "waiting"
    /\ lock = None
    /\ lock' = r
    /\ Goto(r, "reading")
    /\ UNCHANGED <<files, opencti, op, snap>>

MayProceed(o) ==
    /\ CanRead(o.id)
    /\ IF o.action = "export" THEN CanExport(Current(o.id))
                              ELSE CanDecide(Current(o.id), o)

\* The checks of _transition and of export_record pass.
Read(r) ==
    /\ pc[r] = "reading"
    /\ MayProceed(op[r])
    /\ snap' = [snap EXCEPT ![r] = Current(op[r].id)]
    /\ Goto(r, IF op[r].action = "export" THEN "sending" ELSE "append")
    /\ UNCHANGED <<files, opencti, lock, op>>

\* KeyError or ValueError, or an export with action "skip".
Refuse(r) ==
    /\ pc[r] = "reading"
    /\ ~MayProceed(op[r])
    /\ Finish(r)
    /\ UNCHANGED <<files, opencti>>

\* Mutant: the bundle holds every indicator of the record.
SendEverything(r) ==
    /\ pc[r] = "sending"
    /\ deliveries[op[r].id] < MaxDeliveries
    /\ deliveries' = [deliveries EXCEPT ![op[r].id] = @ + 1]
    /\ delivered' = [delivered EXCEPT ![op[r].id] = @ \cup Holds[op[r].id]]
    /\ Goto(r, "marking")
    /\ UNCHANGED <<files, lock, op, snap>>

\* The exporter: one bundle with the released indicators of the record read.
Send(r) ==
    /\ pc[r] = "sending"
    /\ deliveries[op[r].id] < MaxDeliveries
    /\ deliveries' = [deliveries EXCEPT ![op[r].id] = @ + 1]
    /\ delivered' = [delivered EXCEPT
                        ![op[r].id] = @ \cup ReleasedIndicators(snap[r])]
    /\ Goto(r, "marking")
    /\ UNCHANGED <<files, lock, op, snap>>

\* Mutant: the exporter's exception is swallowed and the record marked.
SendFailureIgnored(r) ==
    /\ pc[r] = "sending"
    /\ Goto(r, "marking")
    /\ UNCHANGED <<files, opencti, lock, op, snap>>

\* The exporter raised: export_record answers with action "error".
SendFails(r) ==
    /\ pc[r] = "sending"
    /\ Finish(r)
    /\ UNCHANGED <<files, opencti>>

\* mark_exported reads the record again ...
MarkRead(r) ==
    /\ pc[r] = "marking"
    /\ CanRead(op[r].id)
    /\ CanMarkExported(Current(op[r].id))
    /\ snap' = [snap EXCEPT ![r] = Current(op[r].id)]
    /\ Goto(r, "append")
    /\ UNCHANGED <<files, opencti, lock, op>>

\* ... and raises when the record has changed under it.
MarkRefused(r) ==
    /\ pc[r] = "marking"
    /\ ~(CanRead(op[r].id) /\ CanMarkExported(Current(op[r].id)))
    /\ Finish(r)
    /\ UNCHANGED <<files, opencti>>

\* The record a decision or an export appends: a copy of the one read.
Updated(r) ==
    IF op[r].action = "export" THEN MarkedExported(snap[r])
                               ELSE Decided(snap[r], op[r])

\* Mutant: the audit line is built from the record before its update.
AppendUpdateAuditOld(r) ==
    /\ pc[r] = "append"
    /\ AppendLine(Updated(r))
    /\ Goto(r, "audit")
    /\ UNCHANGED <<readable, audit, opencti, lock, op, snap>>

AppendUpdate(r) ==
    /\ pc[r] = "append"
    /\ AppendLine(Updated(r))
    /\ snap' = [snap EXCEPT ![r] = Updated(r)]
    /\ Goto(r, "audit")
    /\ UNCHANGED <<readable, audit, opencti, lock, op>>

\* _append_release_audit, and the operation returns the updated record.
AppendAudit(r) ==
    /\ pc[r] = "audit"
    /\ audit' = Append(audit, [id |-> op[r].id, status |-> snap[r].status,
                               action |-> op[r].action])
    /\ Finish(r)
    /\ UNCHANGED <<log, readable, opencti>>

-----------------------------------------------------------------------------
(* Failures                                                                 *)

\* The disk fills up in the middle of a line of the repository: _append raises.
TearAppend(a) ==
    /\ MayFail
    /\ pc[a] = "append"
    /\ readable' = FALSE
    /\ Finish(a)
    /\ UNCHANGED <<log, audit, opencti>>

\* The audit file cannot be written: the transition stands, the caller gets
\* an error.
AuditFails(r) ==
    /\ MayFail
    /\ pc[r] = "audit"
    /\ Finish(r)
    /\ UNCHANGED <<files, opencti>>

\* The gateway or a command is killed: nothing but the process is lost.
CrashProcess(a) ==
    /\ MayFail
    /\ a \notin Requests
    /\ pc[a] # "idle"
    /\ Finish(a)
    /\ UNCHANGED <<files, opencti>>

\* The review API is killed with every request it serves.
CrashServer ==
    /\ MayFail
    /\ \E r \in Requests : pc[r] # "idle"
    /\ pc' = [a \in Actors |-> IF a \in Requests THEN "idle" ELSE pc[a]]
    /\ op' = [a \in Actors |-> IF a \in Requests THEN None ELSE op[a]]
    /\ snap' = [a \in Actors |-> IF a \in Requests THEN None ELSE snap[a]]
    /\ lock' = None
    /\ UNCHANGED <<files, opencti>>

-----------------------------------------------------------------------------
GatewayStep(g) == (\E id \in RecordIds : GatewayFind(g, id)) \/ GatewayAppend(g)

\* What a reviewer does by itself once its operation has begun.
Proceed(r) ==
    \/ Read(r) \/ Refuse(r)
    \/ Send(r) \/ SendFails(r)
    \/ MarkRead(r) \/ MarkRefused(r)
    \/ AppendUpdate(r) \/ AppendAudit(r)

Fault ==
    \/ \E a \in Actors : TearAppend(a) \/ CrashProcess(a)
    \/ \E r \in Reviewers : AuditFails(r)
    \/ CrashServer

Next ==
    \/ \E g \in Gateways : GatewayStep(g)
    \/ \E r \in Reviewers : Submit(r) \/ Proceed(r)
    \/ \E r \in Requests : Acquire(r)
    \/ Fault

Spec == Init /\ [][Next]_vars

(***************************************************************************)
(* A reviewer that has begun keeps running: its steps are straight-line    *)
(* code, and the OpenCTI client answers or raises.  RLock does not queue   *)
(* its waiters, so an acquisition needs strong fairness.  Nobody is        *)
(* obliged to submit anything, and the gateway is not needed.              *)
(***************************************************************************)
Fairness ==
    /\ \A r \in Reviewers : WF_vars(Proceed(r))
    /\ \A r \in Requests : SF_vars(Acquire(r))

FairSpec == Spec /\ Fairness

-----------------------------------------------------------------------------
(* Properties                                                               *)

(***************************************************************************)
(* At most one reviewer can be between the read and the append of an       *)
(* operation: everybody goes through the API's lock, or there is a single  *)
(* command at a time and no API.  And there is one connector process.      *)
(***************************************************************************)
Serialized ==
    /\ Commands = {} \/ (Requests = {} /\ \A c, d \in Commands : c = d)
    /\ \A g, h \in Gateways : g = h

\* What the release audit says of a record is still so: the status it was
\* given is its current status, and an audited export is still marked.  It
\* relates the two files across the reads and appends of every process.
AuditedDecisionStands ==
    \A i \in DOMAIN audit :
        readable =>
            /\ IsKnown(log, audit[i].id)
            /\ Current(audit[i].id).status = audit[i].status
            /\ audit[i].action = "export" => Current(audit[i].id).exported

\* OpenCTI has received nothing from a record but what its current review
\* releases: nothing from pending and rejected records, and only the chosen
\* types from a partial release, whatever crashed in between.
DeliveredWithinRelease ==
    \A id \in RecordIds :
        delivered[id] # {} =>
            /\ IsKnown(log, id)
            /\ delivered[id] \subseteq ReleasedIndicators(Current(id))

\* A record decided once is never queued again: the gateway meets the same
\* candidate at every cycle, and add leaves the reviewed record alone.
NeverReopened ==
    \A i, j \in DOMAIN log :
        i < j /\ log[i].id = log[j].id => log[j].status # "pending"

\* A line that says "exported" is only written for a record that OpenCTI
\* accepted: no failed or interrupted export leaves the mark behind.
ExportedWasDelivered ==
    \A i \in DOMAIN log : log[i].exported => deliveries[log[i].id] > 0

\* When nothing crashes or fails, OpenCTI receives a record at most once,
\* however many exports of it are requested at the same time.
ExportedOnce ==
    ~MayFail => \A id \in RecordIds : deliveries[id] <= 1

\* When nothing crashes or fails, the release audit lists the decisions and
\* exports of the repository, all of them and in the same order, but for the
\* one whose audit line is about to be written.
ReviewLines(lines) == {i \in DOMAIN lines : lines[i].status # "pending"}
Rank(lines, i) == Cardinality({j \in ReviewLines(lines) : j <= i})

Tells(event, record) ==
    /\ event.id = record.id /\ event.status = record.status
    /\ (event.action = "export") = record.exported

Mirrors(events, lines) ==
    /\ Len(events) = Cardinality(ReviewLines(lines))
    /\ \A i \in ReviewLines(lines) : Tells(events[Rank(lines, i)], lines[i])

AuditMirrorsLog ==
    ~MayFail /\ (\A r \in Reviewers : pc[r] # "audit") => Mirrors(audit, log)

\* Every operation that was submitted is answered: the lock is released on
\* every path, so no handler waits for ever.
EveryReviewEnds ==
    \A r \in Reviewers : (pc[r] # "idle") ~> (pc[r] = "idle")

LifecycleStatus ==
    [id \in RecordIds |-> IF IsKnown(log, id) THEN Current(id).status ELSE "absent"]

LifecycleExported ==
    [id \in RecordIds |-> IsKnown(log, id) /\ Current(id).exported]

Lifecycle == INSTANCE QuarantineLifecycle
                WITH status <- LifecycleStatus, exported <- LifecycleExported

\* The repository implements the lifecycle of a record: decided at most once,
\* delivered only while released and unmarked, marked at most once and only
\* after a delivery.
ImplementsLifecycle == Lifecycle!Spec
=============================================================================
