----------------------------- MODULE CommandFate -----------------------------
(***************************************************************************)
(* What a row of device_commands is to the page that lists it: queued,     *)
(* cancelled, or over, whichever way it ended.  An operator who cancels    *)
(* stops a command that is still pending, and no other.  A cancelled       *)
(* command can still be over afterwards, since a heartbeat that had read   *)
(* it hands it out (apps/adms/src/services/command.service.ts,             *)
(* markCommandsSent); one that is over is never pending or cancelled       *)
(* again.                                                                  *)
(***************************************************************************)

CONSTANT Rows

VARIABLE fate   \* of each row: "none" before it exists

Init == fate = [r \in Rows |-> "none"]

Issue(r) ==
    /\ fate[r] = "none"
    /\ fate' = [fate EXCEPT ![r] = "pending"]

Cancel(r) ==
    /\ fate[r] = "pending"
    /\ fate' = [fate EXCEPT ![r] = "cancelled"]

\* Sent, expired or answered.
RunOut(S) ==
    /\ \A r \in S : fate[r] # "none"
    /\ fate' = [r \in Rows |-> IF r \in S THEN "over" ELSE fate[r]]

Next ==
    \/ \E r \in Rows : Issue(r) \/ Cancel(r)
    \/ \E S \in SUBSET Rows : RunOut(S)

Spec == Init /\ [][Next]_fate

=============================================================================
