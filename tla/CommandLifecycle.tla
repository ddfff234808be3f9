-------------------------- MODULE CommandLifecycle --------------------------
(***************************************************************************)
(* What a device's command queue promises to an operator who reads the     *)
(* device_commands table, with no handler, no poll and no race in sight:   *)
(*                                                                         *)
(*   - a command is issued once, and stays pending until somebody acts;    *)
(*   - it may be withdrawn (cancelled or expired) only while pending;      *)
(*   - the device is handed a command only after its row says so, and the  *)
(*     row never stops saying so;                                          *)
(*   - an outcome is recorded only for a command the device was handed.    *)
(*                                                                         *)
(* A withdrawn command can still be dispatched: that is the strongest      *)
(* promise apps/adms/src/services/command.service.ts keeps, because        *)
(* markCommandsSent does not look at the status it overwrites.             *)
(***************************************************************************)

CONSTANT Rows

VARIABLES record,   \* the status column the operator reads
          known     \* the commands the device has been handed

Withdrawn  == {"cancelled", "expired"}
Outcome    == {"success", "failed"}
Dispatched == {"sent"} \cup Outcome

Init ==
    /\ record = [r \in Rows |-> "none"]
    /\ known = {}

\* The queue accepts a command.
Issue(r) ==
    /\ record[r] = "none"
    /\ record' = [record EXCEPT ![r] = "pending"]
    /\ UNCHANGED known

\* An operator cancels commands, or the expiry job gives up on them.
Withdraw(S) ==
    /\ \A r \in S : record[r] = "pending"
    /\ \E how \in Withdrawn :
           record' = [r \in Rows |-> IF r \in S THEN how ELSE record[r]]
    /\ UNCHANGED known

\* The queue commits to handing S over.
Dispatch(S) ==
    /\ \A r \in S : record[r] # "none"
    /\ record' = [r \in Rows |-> IF r \in S THEN "sent" ELSE record[r]]
    /\ UNCHANGED known

\* The device receives S.
Hand(S) ==
    /\ \A r \in S : record[r] \in Dispatched
    /\ known' = known \cup S
    /\ UNCHANGED record

\* The device's answer to a command it was handed is recorded.
Conclude(r) ==
    /\ r \in known
    /\ \E out \in Outcome : record' = [record EXCEPT ![r] = out]
    /\ UNCHANGED known

Next ==
    \/ \E r \in Rows : Issue(r) \/ Conclude(r)
    \/ \E S \in SUBSET Rows : Withdraw(S) \/ Dispatch(S) \/ Hand(S)

Spec == Init /\ [][Next]_<<record, known>>

=============================================================================
