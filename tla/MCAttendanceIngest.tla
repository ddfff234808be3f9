-------------------------- MODULE MCAttendanceIngest --------------------------
(* Small instances of AttendanceIngest for TLC. *)
EXTENDS AttendanceIngest, TLC

CONSTANTS a, u1, u2

OnePin == {a}
Clock == -1 .. 6
TwoInstants == {1, 2}
TwoUploads == {u1, u2}
UploadSymmetry == Permutations(TwoUploads)

\* A zone whose clocks go forward at hour 3, and a fixed one.  The second instant is
\* within the reach of the change, and is stored as the same hour as the first.
Forward == ("near" :> [h \in Clock |-> IF h < 3 THEN 1 ELSE 2]) @@ ("far" :> [h \in Clock |-> 2])
TwoZones == {"near", "far"}
=============================================================================
