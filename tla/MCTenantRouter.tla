---------------------------- MODULE MCTenantRouter ----------------------------
(* Small instances of TenantRouter for TLC. *)
EXTENDS TenantRouter, TLC

CONSTANTS t1, t2, s1, s2, k1, r1, r2

TwoTenants == {t1, t2}
OneSn == {s1}
OneToken == {k1}
TwoRequests == {r1, r2}

TokenOfOne == k1 :> t1

\* Only the tenant with the token is suspended or deleted: the other never has a device,
\* and what it adds is a table to sweep that may be missing.
Explored == status[t2] # "suspended" /\ t2 \notin deleting
=============================================================================
