--------------------------- MODULE MCSyncDelivery ---------------------------
(* Small instances of SyncDelivery for TLC. *)
EXTENDS SyncDelivery, TLC

CONSTANTS t1, t2, e1, e2, c1, c2

TwoTenants == {t1, t2}
TwoPunches == {1, 2}
TwoCycles == {c1, c2}

\* The second tenant has no punch: its endpoint must stay empty.
OwnBoth == <<t1, t1>>
OwnEndpoints == (t1 :> {e1}) @@ (t2 :> {e2})
=============================================================================
