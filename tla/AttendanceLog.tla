---------------------------- MODULE AttendanceLog ----------------------------
(***************************************************************************)
(* What attendance_logs is to everything that reads it, with no terminal,  *)
(* no upload and no page in sight: rows known by their unique key          *)
(* (device_sn, pin, punch_time), each inserted once and never removed, and *)
(* voided at most once, for good.  A key whose row was voided is not free  *)
(* again: a punch that comes back, from the terminal or by hand, stays     *)
(* voided.                                                                 *)
(***************************************************************************)

CONSTANT Keys

VARIABLES stored,   \* the keys that have a row
          voided    \* those whose row counts no more

Init ==
    /\ stored = {}
    /\ voided = {}

Insert(k) ==
    /\ k \notin stored
    /\ stored' = stored \cup {k}
    /\ UNCHANGED voided

Void(k) ==
    /\ k \in stored \ voided
    /\ voided' = voided \cup {k}
    /\ UNCHANGED stored

Next == \E k \in Keys : Insert(k) \/ Void(k)

Spec == Init /\ [][Next]_<<stored, voided>>

=============================================================================
