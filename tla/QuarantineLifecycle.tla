------------------------- MODULE QuarantineLifecycle -------------------------
(***************************************************************************)
(* What the quarantine promises for each record, whatever files, locks and *)
(* processes implement it:                                                 *)
(*   - a record is quarantined once and decided at most once;              *)
(*   - only a released record is handed to OpenCTI, and only while it is   *)
(*     not marked as exported;                                             *)
(*   - it is marked as exported at most once, after a delivery.            *)
(* Deliveries are at least once: a delivery that is not followed by its    *)
(* mark may be repeated.                                                   *)
(***************************************************************************)
EXTENDS Naturals

CONSTANT RecordIds

VARIABLES
    status,     \* "absent", "pending" or the final status of a record
    exported,   \* the record is marked as exported
    deliveries  \* how many times the record was handed to OpenCTI

vars == <<status, exported, deliveries>>

Exportable == {"released", "partially-released"}
Final == Exportable \cup {"rejected"}

Init ==
    /\ status = [id \in RecordIds |-> "absent"]
    /\ exported = [id \in RecordIds |-> FALSE]
    /\ deliveries = [id \in RecordIds |-> 0]

Quarantine(id) ==
    /\ status[id] = "absent"
    /\ status' = [status EXCEPT ![id] = "pending"]
    /\ UNCHANGED <<exported, deliveries>>

Decide(id) ==
    /\ status[id] = "pending"
    /\ \E s \in Final : status' = [status EXCEPT ![id] = s]
    /\ UNCHANGED <<exported, deliveries>>

Deliver(id) ==
    /\ status[id] \in Exportable
    /\ ~exported[id]
    /\ deliveries' = [deliveries EXCEPT ![id] = @ + 1]
    /\ UNCHANGED <<status, exported>>

MarkExported(id) ==
    /\ status[id] \in Exportable
    /\ ~exported[id]
    /\ deliveries[id] > 0
    /\ exported' = [exported EXCEPT ![id] = TRUE]
    /\ UNCHANGED <<status, deliveries>>

Next == \E id \in RecordIds :
            Quarantine(id) \/ Decide(id) \/ Deliver(id) \/ MarkExported(id)

Spec == Init /\ [][Next]_vars
=============================================================================
