--------------------------- MODULE MCOperatorConsole ---------------------------
(* Small instances of OperatorConsole for TLC. *)
EXTENDS OperatorConsole, TLC

CONSTANTS c1, c2, d1, d2, g1, p1, old, new

TwoCalls == {c1, c2}
OneDevice == {d1}
TwoDevices == {d1, d2}
OneGroup == {g1}
OnePunch == {p1}
TwoPasswords == {old, new}

\* Calls, devices and passwords are interchangeable.
Alike == Permutations(TwoCalls) \cup Permutations(TwoDevices) \cup Permutations(TwoPasswords)
=============================================================================
