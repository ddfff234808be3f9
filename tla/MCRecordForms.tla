---------------------------- MODULE MCRecordForms ----------------------------
(* A small instance of RecordForms for TLC. *)
EXTENDS RecordForms, TLC

CONSTANTS tab1, tab2, row1, row2

TwoTabs == {tab1, tab2}
TwoRows == {row1, row2}
AllForms == {"member", "tenant", "integration", "shift", "modalities", "group", "location"}
TwoValues == {"x", "y"}
\* On a list, one tab's dialogs and one save at a time; on one of the two, no failure.
Explored ==
    /\ form = "location" => faults = 0
    /\ IsList => /\ \E t \in Tabs : dialog[t] = "closed" /\ draft[t] = Blanks
                 /\ \E t \in Tabs : call[t] = Null
ActsIn == [f \in AllForms |-> CASE f = "group" -> 2 [] f = "location" -> 3 [] OTHER -> 4]
AtFirst == (row1 :> "x") @@ (row2 :> "y")
=============================================================================
