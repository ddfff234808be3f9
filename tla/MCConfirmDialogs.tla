--------------------------- MODULE MCConfirmDialogs ---------------------------
(* Small instances of ConfirmDialogs for TLC. *)
EXTENDS ConfirmDialogs

CONSTANTS reboot, wipe, g1, d1, d2, why

TwoKinds == {reboot, wipe}
OneGroup == {g1}
TwoDevices == {d1, d2}
OneReason == {why}

\* A page that is left with nothing asked is like one never visited; and one harmless
\* command, made first.
Explored ==
    /\ visit > 1 => calls # <<>>
    /\ \A k \in DOMAIN calls : calls[k].target = "harmless" => k = 1 /\ calls[k].visit = 1
=============================================================================
