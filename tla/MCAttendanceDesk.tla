--------------------------- MODULE MCAttendanceDesk ---------------------------
(* A small instance of AttendanceDesk for TLC. *)
EXTENDS AttendanceDesk, TLC

CONSTANTS p1, p2, p3, t1, t2

ThreeKeys == {p1, p2, p3}
TwoTabs == {t1, t2}
OneTab == {t1}

\* All fall in one minute of one member, p1 and p2 at two sites; p3 is an "out".
PunchFacts ==
    p1 :> [device |-> "d1", site |-> "s1", pin |-> "7", day |-> 1, minute |-> 1,
           at |-> 2, type |-> "in"] @@
    p2 :> [device |-> "d2", site |-> "s2", pin |-> "7", day |-> 1, minute |-> 1,
           at |-> 1, type |-> "in"] @@
    p3 :> [device |-> "d1", site |-> "s1", pin |-> "7", day |-> 1, minute |-> 1,
           at |-> 3, type |-> "out"]

\* A behaviour either follows the table of t1, over two rows, or has the two
\* tabs work with their panels.
Explored ==
    \/ /\ \A t \in Tabs : panel[t] = {}
       /\ Cardinality({p \in LogKeys : Stored(p)}) < 3
    \/ \A t \in Watching : /\ filter[t] = NoFilter /\ page[t] = 0
                           /\ list[t] = None /\ total[t] = None

TwoFilters == {NoFilter, [NoFilter EXCEPT !.site = "s1"]}
=============================================================================
