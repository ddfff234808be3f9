--------------------------- MODULE MCTerminalUsers ---------------------------
(* A small instance of TerminalUsers for TLC. *)
EXTENDS TerminalUsers, TLC

CONSTANTS face1, silk1, ann, bea

TwoDevices == {face1, silk1}
InfoOf == (face1 :> {"zem900"}) @@ (silk1 :> {"silkbio"})
TypeOf == [d \in TwoDevices |-> {}]
TwoNames == {ann, bea}
Interchangeable == Permutations(TwoNames)
SomeClears == {"clear_admins", "clear_fingerprints"}
ACard == {"c1"}
APassword == {"pw"}
SentProfiles == [name : TwoNames, privilege : {14}, card : ACard, password : APassword]
TwoFingers == {0, 1}
ACapture == {[valid |-> FALSE, template |-> "tmp"]}
=============================================================================
