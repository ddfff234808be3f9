--------------------------- MODULE MCMemberRoster ---------------------------
(* Small instances of MemberRoster for TLC. *)
EXTENDS MemberRoster, TLC

CONSTANTS m1, m2, p1, p2, x1, d1, d2, o1, o2

TwoMembers == {m1, m2}
TwoPins == {p1, p2}
OneExternal == {x1}
TwoDevices == {d1, d2}
TwoOps == {o1, o2}
TwoProfiles == {"admin", "user"}
Plain == ("admin" :> "user") @@ ("user" :> "user")

Symmetry == Permutations(TwoMembers) \cup Permutations(TwoPins)
                \cup Permutations(TwoDevices) \cup Permutations(TwoOps)

\* What a state has made use of.
PinsUsed ==
    {p \in Pins : \/ \E m \in Members : pin[m] = p
                  \/ \E d \in Devices : newest[d][p] # None \/ <<d, p>> \in strayed
                  \/ \E o \in Ops : op[o].pin = p}
DevicesUsed ==
    {d \in Devices : \/ d \in online
                     \/ \E m \in Members : <<m, d>> \in links \cup pushed
                     \/ \E p \in Pins : newest[d][p] # None \/ <<d, p>> \in strayed
                     \/ \E o \in Ops : d \in op[o].todo \cup op[o].seen \cup {op[o].dev, op[o].from}}
ProfilesUsed ==
    {f \in Profiles : \/ \E m \in Members : profile[m] = f
                      \/ \E d \in Devices, p \in Pins : f \in {newest[d][p], holds[d][p]}
                      \/ \E o \in Ops : op[o].cmd = f}

\* Operations that overlap or fail share a PIN, a device and a profile, and store no
\* template; those that do not may have two of one of them.  Terminals take or lose
\* commands and are edited where that is the question: one profile, no overlap.
OnePin == Cardinality(PinsUsed) < 2
OneDevice == Cardinality(DevicesUsed) < 2
OneProfile == ProfilesUsed \subseteq {"user"}
Small == OnePin /\ OneDevice
Untouched == strayed = {} /\ \A d \in Devices, p \in Pins : holds[d][p] = None
Explored ==
    \/ Small /\ Untouched /\ (calm \/ (OneProfile /\ template = {}))
    \/ calm /\ OneProfile /\ (OneDevice \/ OnePin) /\ (Small \/ strayed \cup template = {})
=============================================================================
