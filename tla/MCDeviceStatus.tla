---------------------------- MODULE MCDeviceStatus ----------------------------
(* A small instance of DeviceStatus for TLC. *)
EXTENDS DeviceStatus, TLC

CONSTANTS t1, t2, d1, k1, k2, r1, r2

OneDevice == {d1}
TwoTenants == {t1, t2}
Owner == d1 :> t1
NoDevice == {}
TwoTicks == {k1, k2}
OneRefresh == {r1}

\* The second tick is there to overlap the first: while it runs no INFO line is
\* under way and the second tenant is left alone.
Explored == todo[k2] # {} => infos = {} /\ tenant[t2] = "active"
=============================================================================
