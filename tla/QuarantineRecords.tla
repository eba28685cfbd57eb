-------------------------- MODULE QuarantineRecords --------------------------
(***************************************************************************)
(* The data of the quarantine repository (core/quarantine.py): records,    *)
(* what a review decision turns a pending record into, what a released     *)
(* record hands to the exporter, and what the append-only file says about  *)
(* an id.  Nothing here changes state; QuarantineReview does.              *)
(*                                                                         *)
(* Abstractions.  An indicator is represented by its (lower-cased) type,   *)
(* the only attribute a decision looks at: Holds[id] is the set of types   *)
(* of the indicators the candidate was quarantined with.  Timestamps,      *)
(* title, score, raw snapshot and reviewer name are left out.              *)
(***************************************************************************)
EXTENDS Naturals, Sequences

CONSTANTS
    RecordIds,          \* quarantine ids (quarantine_id_for)
    IndicatorTypes,     \* indicator types that occur in the records
    Holds               \* Holds[id]: the types of the indicators of record id

ASSUME HoldsAssumption == Holds \in [RecordIds -> SUBSET IndicatorTypes]

FinalStatuses == {"released", "partially-released", "rejected", "expired"}
Statuses == {"pending"} \cup FinalStatuses
ExportableStatuses == {"released", "partially-released"}

\* types: review.released_indicator_types; exported: review.exported
Record == [id : RecordIds, status : Statuses,
           types : SUBSET IndicatorTypes, exported : BOOLEAN]

NewRecord(id) ==
    [id |-> id, status |-> "pending", types |-> {}, exported |-> FALSE]

Decisions == {"release", "release-indicators", "reject"}

\* Only release-indicators carries types, and it must carry one.
Operation ==
    [action : {"add", "release", "reject", "export"}, id : RecordIds,
     types : {{}}]
    \cup
    [action : {"release-indicators"}, id : RecordIds,
     types : (SUBSET IndicatorTypes) \ {{}}]

-----------------------------------------------------------------------------
(* The effect of a decision: QuarantineRepository._transition               *)

\* Mutant: the pending check of _transition is missing.
CanDecideAgain(record, o) ==
    o.action = "release-indicators" => Holds[record.id] \cap o.types # {}

CanDecide(record, o) ==
    /\ record.status = "pending"
    /\ o.action = "release-indicators" => Holds[record.id] \cap o.types # {}

\* Mutant: the status is taken from the action's name.
StatusNamedByAction(record, o) == o.action

DecidedStatus(record, o) ==
    CASE o.action = "reject"  -> "rejected"
      [] o.action = "release" -> "released"
      [] OTHER -> IF Holds[record.id] \subseteq o.types
                  THEN "released" ELSE "partially-released"

Decided(record, o) ==
    [id |-> record.id, status |-> DecidedStatus(record, o),
     types |-> o.types, exported |-> FALSE]

-----------------------------------------------------------------------------
(* What an export takes from a record                                       *)

ReleasedIndicators(record) ==
    CASE record.status = "released" -> Holds[record.id]
      [] record.status = "partially-released" ->
            Holds[record.id] \cap record.types
      [] OTHER -> {}

\* Mutant: a record already exported can be exported again.
CanMarkAgain(record) == record.status \in ExportableStatuses

CanMarkExported(record) ==
    record.status \in ExportableStatuses /\ ~record.exported

CanExport(record) ==
    CanMarkExported(record) /\ ReleasedIndicators(record) # {}

\* Mutant: the mark is never set.
LeftUnmarked(record) == record

MarkedExported(record) == [record EXCEPT !.exported = TRUE]

-----------------------------------------------------------------------------
(* The append-only file: the last record of an id is its current one        *)

Positions(log, id) == {i \in DOMAIN log : log[i].id = id}

IsKnown(log, id) == Positions(log, id) # {}

LastPosition(log, id) ==
    CHOOSE i \in Positions(log, id) : \A j \in Positions(log, id) : j <= i

CurrentRecord(log, id) == log[LastPosition(log, id)]
=============================================================================
