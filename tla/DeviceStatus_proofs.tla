-------------------------- MODULE DeviceStatus_proofs --------------------------
(***************************************************************************)
(* DeviceStatus, for any tenants, devices, overlapping ticks and refreshes *)
(* and any timeouts; and at the end DeviceSettings, what is known of one of *)
(* those devices, for any labels, options and uploads under way.           *)
(*                                                                         *)
(* A refresh that holds the verdict "offline" either missed a contact or   *)
(* is about a device that is still as old as when it was read; and the     *)
(* monitor needs a status 'online' for every webhook, which only a contact *)
(* or a reviving refresh provides.                                         *)
(***************************************************************************)
EXTENDS DeviceStatus, DeviceSettings, SequenceTheorems, TLAPS

VerdictIsOld ==
    \A r \in Refreshes : asked[r] # None /\ ~live[r] /\ ~missed[r] =>
        asked[r] \notin seen \/ age[asked[r]] + 1 >= RefreshTimeout

Unnoticed ==
    \A d \in Devices : flips[d] <= IF status[d] = "online" THEN revived[d] ELSE revived[d] + 1

FInv == TypeOK /\ VerdictIsOld /\ FreshIsOnline

LEMMA OldestTyped == Oldest \in Nat \ {0} /\ Oldest > Timeout /\ Oldest >= RefreshTimeout
BY StatusAssumption DEF Oldest

LEMMA TypeInit == Init => TypeOK
BY StatusAssumption, OldestTyped DEF Init, TypeOK, TenantStates

LEMMA TypeContact ==
    ASSUME TypeOK, NEW d \in Devices, Contact(d)
    PROVE  /\ UNCHANGED <<tenantVars, alive, todo, asked, live, spent>>
           /\ seen' \subseteq Devices /\ seen' = seen \cup {d}
           /\ age' \in [Devices -> 0 .. Oldest]
           /\ status' \in [Devices -> {"never_seen", "online", "offline"}]
           /\ posts' \in [Devices -> Nat]
           /\ missed' \in [Refreshes -> BOOLEAN]
           /\ flips' \in [Devices -> Nat] /\ revived' \in [Devices -> Nat]
           /\ sent' \subseteq Devices /\ lost' \subseteq Devices
           /\ wronged' \subseteq Devices /\ hushed' \subseteq Devices
<1>1. seen' \subseteq Devices /\ seen' = seen \cup {d}
  BY DEF TypeOK, Contact, Stamps
<1>2. age' \in [Devices -> 0 .. Oldest]
  BY OldestTyped DEF TypeOK, Contact, Stamps
<1>3. status' \in [Devices -> {"never_seen", "online", "offline"}]
  BY DEF TypeOK, Contact, Stamps
<1>4. posts' \in [Devices -> Nat] /\ flips' \in [Devices -> Nat] /\ revived' \in [Devices -> Nat]
  BY DEF TypeOK, Contact
<1>5. missed' \in [Refreshes -> BOOLEAN]
  BY DEF TypeOK, Contact
<1>6. /\ sent' \subseteq Devices /\ lost' \subseteq Devices
      /\ wronged' \subseteq Devices /\ hushed' \subseteq Devices
  BY DEF TypeOK, Contact
<1>7. UNCHANGED <<tenantVars, alive, todo, asked, live, spent>>
  BY DEF Contact
<1> QED  BY <1>1, <1>2, <1>3, <1>4, <1>5, <1>6, <1>7

LEMMA TypeNext == ASSUME TypeOK, [Next]_vars PROVE TypeOK'
<1> USE DEF tenantVars, rowVars, admsVars, refreshVars, ghostVars
<1>1. ASSUME NEW d \in Devices, Power(d) PROVE TypeOK'
  BY <1>1 DEF Power, TypeOK
<1>2. ASSUME Tick PROVE TypeOK'
  <2>1. age' \in [Devices -> 0 .. Oldest]
    BY <1>2, OldestTyped DEF Tick, TypeOK
  <2> QED  BY <2>1, <1>2 DEF Tick, TypeOK
<1>3. ASSUME NEW t \in Tenants, SetStatus(t) \/ DropSchema(t) \/ FinishDelete(t)
      PROVE  TypeOK'
  <2>1. tenant' \in [Tenants -> TenantStates]
    BY <1>3 DEF SetStatus, DropSchema, FinishDelete, TypeOK, TenantStates
  <2> QED  BY <2>1, <1>3 DEF SetStatus, DropSchema, FinishDelete, TypeOK
<1>4. ASSUME NEW t \in Tenants, DeleteDies(t) PROVE TypeOK'
  <2>1. tenant' \in [Tenants -> TenantStates]
    BY <1>4 DEF DeleteDies, TypeOK, TenantStates
  <2>2. spent' \in 0 .. Budget
    BY <1>4, StatusAssumption DEF DeleteDies, TypeOK
  <2> QED  BY <2>1, <2>2, <1>4 DEF DeleteDies, TypeOK
<1>5. ASSUME NEW t \in Clients, SetIntegration(t) PROVE TypeOK'
  BY <1>5 DEF SetIntegration, TypeOK
<1>6. ASSUME NEW d \in Devices, Handshake(d) \/ Heartbeat(d) PROVE TypeOK'
  <2>1. Contact(d)
    BY <1>6 DEF Handshake, Heartbeat
  <2>2. infos' \subseteq Devices
    BY <1>6 DEF Handshake, Heartbeat, TypeOK
  <2>3. family' \in [Devices -> {"unknown", "known"}]
    BY <1>6 DEF Handshake, Heartbeat, HandshakeFamily, TypeOK
  <2> QED  BY <2>1, <2>2, <2>3, TypeContact DEF TypeOK
<1>7. ASSUME NEW d \in Devices, ApplyInfo(d) PROVE TypeOK'
  <2>1. family' \in [Devices -> {"unknown", "known"}]
    BY <1>7 DEF ApplyInfo, InfoFamily, TypeOK
  <2> QED  BY <2>1, <1>7 DEF ApplyInfo, TypeOK
<1>8. ASSUME NEW d \in Devices, Emit(d) PROVE TypeOK'
  <2>1. posts' \in [Devices -> Nat]
    BY <1>8 DEF Emit, TypeOK
  <2> QED  BY <2>1, <1>8 DEF Emit, TypeOK
<1>9. ASSUME NEW d \in Devices, EmitFails(d) PROVE TypeOK'
  <2>1. posts' \in [Devices -> Nat] /\ spent' \in 0 .. Budget
    BY <1>9, StatusAssumption DEF EmitFails, TypeOK
  <2> QED  BY <2>1, <1>9 DEF EmitFails, TypeOK
<1>10. ASSUME NEW k \in Ticks, ListTenants(k) PROVE TypeOK'
  BY <1>10 DEF ListTenants, Monitored, TypeOK
<1>11. ASSUME NEW k \in Ticks, TickGivesUp(k) PROVE TypeOK'
  <2>1. todo' \in [Ticks -> SUBSET Tenants]
    BY <1>11 DEF TickGivesUp, TypeOK
  <2>2. spent' \in 0 .. Budget
    BY <1>11, StatusAssumption DEF TickGivesUp, TypeOK
  <2> QED  BY <2>1, <2>2, <1>11 DEF TickGivesUp, TypeOK
<1>12. ASSUME NEW k \in Ticks, NEW t \in todo[k], MarkOffline(k, t) PROVE TypeOK'
  <2>1. todo' \in [Ticks -> SUBSET Tenants]
    BY <1>12 DEF MarkOffline, TypeOK
  <2>2. status' \in [Devices -> {"never_seen", "online", "offline"}]
    BY <1>12 DEF MarkOffline, TypeOK
  <2>3. posts' \in [Devices -> Nat] /\ flips' \in [Devices -> Nat]
    BY <1>12 DEF MarkOffline, TypeOK
  <2> QED  BY <2>1, <2>2, <2>3, <1>12 DEF MarkOffline, TypeOK
<1>13. ASSUME AdmsCrash \/ \E d \in Devices : InfoFails(d) PROVE TypeOK'
  <2>1. Stop
    BY <1>13 DEF AdmsCrash, InfoFails
  <2>2. spent' \in 0 .. Budget
    BY <1>13, StatusAssumption DEF AdmsCrash, InfoFails, TypeOK
  <2>3. lost' \subseteq Devices
    BY <2>1 DEF Stop, TypeOK
  <2> QED  BY <2>1, <2>2, <2>3 DEF Stop, TypeOK
<1>14. ASSUME NEW r \in Refreshes, NEW d \in Devices, RefreshRead(r, d) PROVE TypeOK'
  <2>1. live' \in [Refreshes -> BOOLEAN]
    <3>1. PICK verdict \in Verdicts(d) : live' = [live EXCEPT ![r] = verdict]
      BY <1>14 DEF RefreshRead
    <3>2. verdict \in BOOLEAN
      BY <3>1 DEF Verdicts
    <3> QED  BY <3>1, <3>2 DEF TypeOK
  <2>2. missed' \in [Refreshes -> BOOLEAN]
    BY <1>14 DEF RefreshRead, TypeOK
  <2> QED  BY <2>1, <2>2, <1>14 DEF RefreshRead, TypeOK
<1>15. ASSUME NEW r \in Refreshes, RefreshWrite(r) PROVE TypeOK'
  <2>1. asked[r] \in Devices
    BY <1>15 DEF RefreshWrite, TypeOK
  <2> DEFINE d == asked[r]
  <2>2. live' \in [Refreshes -> BOOLEAN]
    BY <1>15 DEF RefreshWrite, TypeOK
  <2>3. missed' \in [Refreshes -> BOOLEAN]
    BY <1>15 DEF RefreshWrite, TypeOK
  <2>4. status' \in [Devices -> {"never_seen", "online", "offline"}]
    BY <1>15 DEF RefreshWrite, TypeOK
  <2>5. revived' \in [Devices -> Nat]
    BY <1>15, <2>1 DEF RefreshWrite, TypeOK
  <2>6. wronged' \subseteq Devices /\ hushed' \subseteq Devices
    BY <1>15, <2>1 DEF RefreshWrite, TypeOK
  <2>7. asked' \in [Refreshes -> Devices \cup {None}]
    BY <1>15 DEF RefreshWrite, TypeOK
  <2> QED  BY <2>2, <2>3, <2>4, <2>5, <2>6, <2>7, <1>15 DEF RefreshWrite, TypeOK
<1>16. CASE UNCHANGED vars
  BY <1>16 DEF vars, TypeOK
<1> QED  BY <1>1, <1>2, <1>3, <1>4, <1>5, <1>6, <1>7, <1>8, <1>9, <1>10, <1>11, <1>12, <1>13,
            <1>14, <1>15, <1>16 DEF Next

\* Every variable keeps its type, for any number of ticks and refreshes.
THEOREM TypeCorrect == Spec => []TypeOK
BY TypeInit, TypeNext, PTL DEF Spec

-----------------------------------------------------------------------------
(* What a fresh device is shown as                                         *)

LEMMA FreshInit == Init => VerdictIsOld /\ FreshIsOnline
BY DEF Init, VerdictIsOld, FreshIsOnline

\* A contact stamps the row and spoils every open verdict on the device.
LEMMA FreshContact ==
    ASSUME FInv, NEW d \in Devices, Contact(d)
    PROVE  VerdictIsOld' /\ FreshIsOnline'
<1> USE DEF FInv, TypeOK
<1>1. /\ seen' = seen \cup {d} /\ asked' = asked /\ live' = live
      /\ wronged' = wronged \ {d}
      /\ age'[d] = 0 /\ status'[d] = "online"
      /\ \A e \in Devices \ {d} : age'[e] = age[e] /\ status'[e] = status[e]
      /\ \A r \in Refreshes : missed'[r] = (missed[r] \/ asked[r] = d)
  BY DEF Contact, Stamps
<1>2. VerdictIsOld'
  <2> SUFFICES ASSUME NEW r \in Refreshes, asked[r] # None, ~live[r], ~missed'[r]
               PROVE  asked[r] \notin seen' \/ age'[asked[r]] + 1 >= RefreshTimeout
    BY <1>1 DEF VerdictIsOld
  <2>1. asked[r] # d /\ ~missed[r] /\ asked[r] \in Devices
    BY <1>1
  <2> QED  BY <2>1, <1>1 DEF VerdictIsOld
<1>3. FreshIsOnline'
  <2> SUFFICES ASSUME NEW e \in seen', Fresh(age'[e]), e \notin wronged'
               PROVE  status'[e] = "online"
    BY DEF FreshIsOnline
  <2> QED  BY <1>1 DEF FreshIsOnline
<1> QED  BY <1>2, <1>3

LEMMA FreshTick ==
    ASSUME FInv, Tick
    PROVE  VerdictIsOld' /\ FreshIsOnline'
<1> USE DEF FInv, TypeOK
<1>1. UNCHANGED <<seen, status, asked, live, missed, wronged>>
  BY DEF Tick, rowVars, refreshVars, ghostVars
<1>2. \A d \in Devices : age[d] <= age'[d]
  BY DEF Tick
<1>3. VerdictIsOld'
  <2> SUFFICES ASSUME NEW r \in Refreshes, asked[r] # None, ~live[r], ~missed[r],
                      asked[r] \in seen
               PROVE  age'[asked[r]] + 1 >= RefreshTimeout
    BY <1>1 DEF VerdictIsOld
  <2>1. asked[r] \in Devices /\ age[asked[r]] + 1 >= RefreshTimeout
    BY DEF VerdictIsOld
  <2>2. age[asked[r]] \in Int /\ age'[asked[r]] \in Int
    BY <2>1 DEF Tick
  <2> QED  BY <2>1, <2>2, <1>2, StatusAssumption
<1>4. FreshIsOnline'
  <2> SUFFICES ASSUME NEW d \in seen, Fresh(age'[d]), d \notin wronged
               PROVE  status[d] = "online"
    BY <1>1 DEF FreshIsOnline
  <2>1. age[d] \in Int /\ age'[d] \in Int
    BY DEF Tick
  <2>2. Fresh(age[d])
    BY <2>1, <1>2, StatusAssumption DEF Fresh
  <2> QED  BY <2>2 DEF FreshIsOnline
<1> QED  BY <1>3, <1>4

\* The monitor takes a device offline only past the timeout.
LEMMA FreshMark ==
    ASSUME FInv, NEW k \in Ticks, NEW t \in todo[k], MarkOffline(k, t)
    PROVE  VerdictIsOld' /\ FreshIsOnline'
<1> USE DEF FInv, TypeOK
<1>1. UNCHANGED <<seen, age, asked, live, missed, wronged>>
  BY DEF MarkOffline, refreshVars
<1>2. ASSUME NEW d \in seen, Fresh(age[d])
      PROVE  status'[d] = status[d]
  <2>1. d \notin ToFlip(t)
    BY <1>2, StatusAssumption DEF ToFlip, TooOld, Fresh
  <2> QED  BY <2>1 DEF MarkOffline
<1> QED  BY <1>1, <1>2 DEF VerdictIsOld, FreshIsOnline

LEMMA FreshRead ==
    ASSUME FInv, NEW r \in Refreshes, NEW d \in Devices, RefreshRead(r, d)
    PROVE  VerdictIsOld' /\ FreshIsOnline'
<1> USE DEF FInv, TypeOK
<1>1. UNCHANGED <<seen, age, status, wronged>>
  BY DEF RefreshRead, rowVars, ghostVars
<1>2. asked'[r] = d /\ live'[r] \in Verdicts(d)
  BY DEF RefreshRead
<1>3. \A q \in Refreshes \ {r} : asked'[q] = asked[q] /\ live'[q] = live[q] /\ missed'[q] = missed[q]
  BY DEF RefreshRead
<1>4. VerdictIsOld'
  <2> SUFFICES ASSUME NEW q \in Refreshes, asked'[q] # None, ~live'[q], ~missed'[q]
               PROVE  asked'[q] \notin seen \/ age[asked'[q]] + 1 >= RefreshTimeout
    BY <1>1 DEF VerdictIsOld
  <2>1. CASE q = r
    <3>1. PICK early \in {0, 1} : ~(d \in seen /\ age[d] + early < RefreshTimeout)
      BY <2>1, <1>2 DEF Verdicts
    <3>2. age[d] \in Int /\ RefreshTimeout \in Int
      BY StatusAssumption
    <3>3. d \notin seen \/ age[d] + 1 >= RefreshTimeout
      BY ONLY <3>1, <3>2
    <3> QED  BY <2>1, <3>3, <1>2
  <2>2. CASE q # r
    BY <2>2, <1>3 DEF VerdictIsOld
  <2> QED  BY <2>1, <2>2
<1> QED  BY <1>1, <1>4 DEF FreshIsOnline

\* A verdict "offline" that missed nothing finds the device as old as before.
LEMMA FreshWrite ==
    ASSUME FInv, NEW r \in Refreshes, RefreshWrite(r)
    PROVE  VerdictIsOld' /\ FreshIsOnline'
<1> USE DEF FInv, TypeOK
<1> DEFINE d == asked[r]
<1>1. d \in Devices /\ d # None
  BY DEF RefreshWrite
<1>2. UNCHANGED <<seen, age>>
  BY DEF RefreshWrite
<1>3. live[r] => status'[d] = "online"
  BY <1>1 DEF RefreshWrite
<1>4. \A e \in Devices \ {d} : status'[e] = status[e]
  BY DEF RefreshWrite
<1>5. wronged \subseteq wronged' /\ (~live[r] /\ missed[r] => d \in wronged')
  BY DEF RefreshWrite
<1>6. /\ asked'[r] = None
      /\ \A q \in Refreshes \ {r} :
             asked'[q] = asked[q] /\ live'[q] = live[q] /\ missed'[q] = missed[q]
  BY DEF RefreshWrite
<1>7. VerdictIsOld'
  BY <1>2, <1>6 DEF VerdictIsOld
<1>8. FreshIsOnline'
  <2> SUFFICES ASSUME NEW e \in seen, Fresh(age[e]), e \notin wronged'
               PROVE  status'[e] = "online"
    BY <1>2 DEF FreshIsOnline
  <2>1. CASE e # d
    BY <2>1, <1>4, <1>5 DEF FreshIsOnline
  <2>2. CASE e = d
    <3>1. ~(~live[r] /\ missed[r])
      BY <2>2, <1>5
    <3>2. live[r]
      BY <2>2, <3>1, <1>1, StatusAssumption DEF VerdictIsOld, Fresh
    <3> QED  BY <2>2, <3>2, <1>3
  <2> QED  BY <2>1, <2>2
<1> HIDE DEF d
<1> QED  BY <1>7, <1>8

LEMMA FreshNext == ASSUME FInv, [Next]_vars PROVE FInv'
<1>1. TypeOK'
  BY TypeNext DEF FInv
<1>2. VerdictIsOld' /\ FreshIsOnline'
  <2> USE DEF tenantVars, rowVars, admsVars, refreshVars, ghostVars
  <2>1. ASSUME NEW d \in Devices, Handshake(d) \/ Heartbeat(d)
        PROVE  VerdictIsOld' /\ FreshIsOnline'
    BY <2>1, FreshContact DEF Handshake, Heartbeat
  <2>2. ASSUME \/ UNCHANGED vars
               \/ \E d \in Devices : \/ Power(d) \/ ApplyInfo(d) \/ Emit(d)
                                     \/ EmitFails(d) \/ InfoFails(d)
               \/ \E t \in Tenants : \/ SetStatus(t) \/ DropSchema(t) \/ FinishDelete(t)
                                     \/ DeleteDies(t)
               \/ \E t \in Clients : SetIntegration(t)
               \/ \E k \in Ticks : ListTenants(k) \/ TickGivesUp(k)
               \/ AdmsCrash
        PROVE  VerdictIsOld' /\ FreshIsOnline'
    <3>1. UNCHANGED <<seen, age, status, asked, live, missed, wronged>>
      BY <2>2 DEF vars, Power, ApplyInfo, Emit, EmitFails, InfoFails, SetStatus, DropSchema,
                  FinishDelete, DeleteDies, SetIntegration, ListTenants, TickGivesUp,
                  AdmsCrash, Stop
    <3> QED  BY <3>1 DEF FInv, VerdictIsOld, FreshIsOnline
  <2> QED  BY <2>1, <2>2, FreshTick, FreshMark, FreshRead, FreshWrite DEF Next
<1> QED  BY <1>1, <1>2 DEF FInv

\* A device heard of within the timeout is shown online, unless a refresh
\* wrote a verdict older than that contact: the heartbeat, the monitor and
\* the refresh may interleave as they like.
THEOREM FreshDevicesAreOnline == Spec => []FreshIsOnline
<1>1. Init => FInv
  BY TypeInit, FreshInit DEF FInv
<1> QED  BY <1>1, FreshNext, PTL DEF Spec, FInv

-----------------------------------------------------------------------------
(* How often a silence is told                                             *)

LEMMA UnnoticedNext == ASSUME TypeOK, Unnoticed, [Next]_vars PROVE Unnoticed'
<1> USE DEF tenantVars, rowVars, admsVars, refreshVars, ghostVars
<1>1. ASSUME NEW d \in Devices, Handshake(d) \/ Heartbeat(d)
      PROVE  Unnoticed'
  <2>1. /\ flips' = [flips EXCEPT ![d] = 0] /\ revived' = [revived EXCEPT ![d] = 0]
        /\ status' = [status EXCEPT ![d] = "online"]
    BY <1>1 DEF Handshake, Heartbeat, Contact, Stamps
  <2> QED  BY <2>1 DEF Unnoticed, TypeOK
<1>2. ASSUME NEW k \in Ticks, NEW t \in todo[k], MarkOffline(k, t)
      PROVE  Unnoticed'
  <2> SUFFICES ASSUME NEW d \in Devices
               PROVE  flips'[d] <= IF status'[d] = "online" THEN revived'[d] ELSE revived'[d] + 1
    BY DEF Unnoticed
  <2>1. revived'[d] = revived[d] /\ flips[d] \in Nat /\ revived[d] \in Nat
    BY <1>2 DEF MarkOffline, TypeOK
  <2>2. CASE d \in ToFlip(t)
    <3>1. status[d] = "online" /\ status'[d] = "offline" /\ flips'[d] = flips[d] + 1
      BY <1>2, <2>2 DEF MarkOffline, ToFlip
    <3>2. flips[d] <= revived[d]
      BY <3>1 DEF Unnoticed
    <3> QED  BY <2>1, <3>1, <3>2
  <2>3. CASE d \notin ToFlip(t)
    <3>1. status'[d] = status[d] /\ flips'[d] = flips[d]
      BY <1>2, <2>3 DEF MarkOffline
    <3> QED  BY <2>1, <3>1 DEF Unnoticed
  <2> QED  BY <2>2, <2>3
<1>3. ASSUME NEW r \in Refreshes, RefreshWrite(r)
      PROVE  Unnoticed'
  <2>1. asked[r] \in Devices /\ asked[r] # None /\ flips' = flips
    BY <1>3 DEF RefreshWrite, TypeOK
  <2> SUFFICES ASSUME NEW d \in Devices
               PROVE  flips[d] <= IF status'[d] = "online" THEN revived'[d] ELSE revived'[d] + 1
    BY <2>1 DEF Unnoticed
  <2>2. flips[d] \in Nat /\ revived[d] \in Nat
    BY DEF TypeOK
  <2>3. flips[d] <= IF status[d] = "online" THEN revived[d] ELSE revived[d] + 1
    BY DEF Unnoticed
  <2>4. CASE d # asked[r]
    <3>1. status'[d] = status[d] /\ revived'[d] = revived[d]
      BY <1>3, <2>4 DEF RefreshWrite, TypeOK
    <3> QED  BY <2>3, <3>1
  <2>5. CASE d = asked[r] /\ live[r]
    <3>1. status'[d] = "online"
      BY <1>3, <2>5, <2>1 DEF RefreshWrite, TypeOK
    <3>2. revived'[d] = IF status[d] # "online" /\ flips[d] > revived[d]
                        THEN revived[d] + 1 ELSE revived[d]
      BY <1>3, <2>5, <2>1 DEF RefreshWrite, TypeOK
    <3> QED  BY <2>2, <2>3, <3>1, <3>2
  <2>6. CASE d = asked[r] /\ ~live[r]
    <3>1. status'[d] = "offline" /\ revived'[d] = revived[d]
      BY <1>3, <2>6, <2>1 DEF RefreshWrite, TypeOK
    <3> QED  BY <2>2, <2>3, <3>1
  <2> QED  BY <2>4, <2>5, <2>6
<1>4. ASSUME \/ UNCHANGED vars \/ Tick \/ AdmsCrash
             \/ \E d \in Devices : \/ Power(d) \/ ApplyInfo(d) \/ Emit(d)
                                   \/ EmitFails(d) \/ InfoFails(d)
             \/ \E t \in Tenants : \/ SetStatus(t) \/ DropSchema(t) \/ FinishDelete(t)
                                   \/ DeleteDies(t)
             \/ \E t \in Clients : SetIntegration(t)
             \/ \E k \in Ticks : ListTenants(k) \/ TickGivesUp(k)
             \/ \E r \in Refreshes, d \in Devices : RefreshRead(r, d)
      PROVE  Unnoticed'
  <2>1. UNCHANGED <<flips, revived, status>>
    BY <1>4 DEF vars, Tick, Power, ApplyInfo, Emit, EmitFails, InfoFails, SetStatus, DropSchema,
                FinishDelete, DeleteDies, SetIntegration, ListTenants, TickGivesUp,
                AdmsCrash, Stop, RefreshRead
  <2> QED  BY <2>1 DEF Unnoticed
<1> QED  BY <1>1, <1>2, <1>3, <1>4 DEF Next

\* However ticks overlap, a silence makes one offline event, and one more for
\* each refresh that revived the device meanwhile: the UPDATE that flips the
\* row also asks for its old status.
THEOREM SilenceToldOnce == Spec => []OneNoticePerSilence
<1>1. Init => Unnoticed
  BY DEF Init, Unnoticed
<1>2. TypeOK /\ Unnoticed => OneNoticePerSilence
  BY DEF TypeOK, Unnoticed, OneNoticePerSilence
<1> QED  BY <1>1, <1>2, TypeInit, TypeNext, UnnoticedNext, PTL DEF Spec

-----------------------------------------------------------------------------
(* DeviceSettings                                                          *)

\* The cards of a page with an answer have been filled, so what is pushed is a time.
PageFilled ==
    /\ page # Null /\ view = "settings" => fields \in Int
    /\ page # Null /\ view = "device" => chosen \in Labels
    /\ call # Null /\ call.kind = "time" => call.value \in Int

\* These entries of the command table are the first commands of a push of the value.
Pushed(ids, value) ==
    \A i \in DOMAIN ids :
        ids[i] \in DOMAIN commands /\ commands[ids[i]] = Steps(value)[i]

\* What a push has queued and what it has left are the whole sequence.
PushUnderWay ==
    call # Null /\ call.kind = "time" =>
        /\ Len(call.queued) + Len(call.left) = 3
        /\ Pushed(call.queued, call.value)
        /\ \A i \in DOMAIN call.left : call.left[i] = Steps(call.value)[Len(call.queued) + i]

PushOnRecord ==
    settings.lastManualTimePush # Null =>
        /\ Len(settings.lastManualTimePush.queuedCommandIds) = 3
        /\ Pushed(settings.lastManualTimePush.queuedCommandIds,
                  settings.lastManualTimePush.dateTime)

\* One answer at a time is worked on.  When it comes to the network section the other
\* has its values; before that, and with an answer about anything else, the sections
\* agree but for what "Get options" told beside the network section.
Merged(s) == answering[s] # Null /\ answering[s].step = "network"
             /\ Matched(answering[s].report)
Holds(values) == \A k \in DOMAIN values :
    k \in DOMAIN InfoCard /\ (InfoCard[k] = values[k] \/ k \in beside)
SectionsInStep ==
    ~disturbed =>
        /\ \A s, t \in Slots : answering[s] # Null /\ answering[t] # Null => s = t
        /\ \A s \in Slots : Merged(s) => Holds(NonBlank(answering[s].report))
        /\ (\A s \in Slots : ~Merged(s)) => Holds(NetworkCard)

SettingsInv ==
    /\ SettingsTypeOK
    /\ PageFilled
    /\ PushUnderWay
    /\ PushOnRecord
    /\ SectionsInStep

-----------------------------------------------------------------------------
(* Values                                                                  *)

\* A push is three commands, a query of both bundles two.
LEMMA StepsAreCommands ==
    ASSUME NEW v \in Int
    PROVE  Steps(v) \in Seq(Command) /\ Len(Steps(v)) = 3 /\ DOMAIN Steps(v) = 1 .. 3
<1>1. DOMAIN TimeSequence = 1 .. 3
      /\ \A i \in 1 .. 3 : TimeSequence[i] \in {"NetworkTimeSync", "DateTime", "RELOAD"}
  BY DEF TimeSequence
<1>2. \A i \in 1 .. 3 : Push(TimeSequence[i], v) \in Command
  BY <1>1 DEF Push, Command
<1>3. Steps(v) \in [1 .. 3 -> Command]
  BY <1>1, <1>2 DEF Steps
<1>4. Steps(v) \in Seq(Command)
  BY <1>3, SeqDef
<1>5. Len(Steps(v)) \in Nat /\ DOMAIN Steps(v) = 1 .. Len(Steps(v))
  BY <1>4, LenProperties
<1>6. DOMAIN Steps(v) = 1 .. 3
  BY <1>3
<1>7. Len(Steps(v)) = 3
  <2>1. \A n \in Nat : 1 .. n = 1 .. 3 => n = 3
    <3> SUFFICES ASSUME NEW n \in Nat, 1 .. n = 1 .. 3 PROVE n = 3
      OBVIOUS
    <3>1. 3 \in 1 .. n
      OBVIOUS
    <3>2. n \in 1 .. n
      BY <3>1
    <3>3. n \in 1 .. 3
      BY <3>2
    <3> QED  BY <3>1, <3>3
  <2> QED  BY <1>5, <1>6, <2>1
<1> QED  BY <1>4, <1>6, <1>7

\* What a page queries, and what a push consists of, are commands.
LEMMA QueriesAreCommands ==
    /\ Query(Network) \in Command
    /\ <<Query(Network)>> \in Seq(Command) /\ <<Query(Options)>> \in Seq(Command)
    /\ [i \in DOMAIN Bundles |-> Query(Bundles[i])] \in Seq(Command)
<1>1. Query(Network) \in Command /\ Query(Options) \in Command /\ Query(Others) \in Command
  BY DEF Query, Command, Asked
<1>2. [i \in DOMAIN Bundles |-> Query(Bundles[i])] \in [1 .. 2 -> Command]
  <2>1. DOMAIN Bundles = 1 .. 2 /\ Bundles[1] = Network /\ Bundles[2] = Others
    BY DEF Bundles
  <2> QED  BY <1>1, <2>1
<1> QED  BY <1>1, <1>2, SeqDef

\* What is stored of an answer is a section.
LEMMA ReportSections ==
    ASSUME NEW report \in Report, SettingsTypeOK
    PROVE  /\ NonBlank(report) \in Section(DOMAIN report)
           /\ deviceInfoAfter(report) \in Section(Keys)
           /\ DOMAIN report \subseteq Keys
<1>0. PICK keys \in Asked : report \in [keys -> Reported]
  BY DEF Report
<1>1. DOMAIN report \subseteq Keys
  BY <1>0 DEF Keys, Asked, Options, Network
<1>2. \A k \in DOMAIN report : report[k] \in Reported
  BY <1>0
<1>3. NonBlank(report) \in [{x \in DOMAIN report : report[x] # Blank} -> Reported]
  BY <1>2 DEF NonBlank
<1>4. PICK D \in SUBSET Keys : settings.deviceInfo \in [D -> Reported]
  BY DEF SettingsTypeOK, Settings, Section
<1>5. deviceInfoAfter(report) \in [DOMAIN NonBlank(report) \cup D -> Reported]
  BY <1>2, <1>3, <1>4 DEF deviceInfoAfter
<1>6. DOMAIN NonBlank(report) \cup D \in SUBSET Keys
  BY <1>1, <1>3, <1>4
<1>7. deviceInfoAfter(report) \in Section(Keys)
  BY <1>5, <1>6 DEF Section
<1> QED  BY <1>1, <1>3, <1>7 DEF Section

\* A terminal of which nothing is known has settings.
LEMMA NoSettingsType == NoSettings \in Settings
<1>1. NoSection \in [{} -> Reported]
  BY DEF NoSection
<1>2. NoSection \in Section(Keys) /\ NoSection \in Section(Network)
  BY <1>1 DEF Section
<1> QED  BY <1>2 DEF NoSettings, Settings

\* The settings keep their sections apart.
LEMMA SettingsUpdates ==
    ASSUME NEW x \in Settings
    PROVE  /\ \A d \in ClockDrift : [x EXCEPT !.clockDrift = d] \in Settings
           /\ \A i \in Section(Keys) : [x EXCEPT !.deviceInfo = i] \in Settings
           /\ \A i \in Section(Network) : [x EXCEPT !.network = i] \in Settings
           /\ \A m \in ManualPush : [x EXCEPT !.lastManualTimePush = m] \in Settings
BY DEF Settings

-----------------------------------------------------------------------------
(* Types                                                                   *)

\* At first everything known of a terminal has its type.
LEMMA SettingsTypesInit == SettingsInit => SettingsTypeOK
<1> SUFFICES ASSUME SettingsInit PROVE SettingsTypeOK
  OBVIOUS
<1>1. held \in Seq(Int) /\ commands \in Seq(Command) /\ taken \in 0 .. Len(commands)
  BY DEF SettingsInit
<1>2. settings \in Settings
  BY NoSettingsType DEF SettingsInit
<1>3. measuring \in [Slots -> ClockDrift \cup {Null}] /\ answering \in [Slots -> Answer \cup {Null}]
  BY DEF SettingsInit
<1>4. now \in 0 .. Horizon /\ mounted \in 0 .. Horizon /\ changes \in 0 .. MaxChanges
  BY SettingsAssumption DEF SettingsInit
<1>5. /\ lead \in Int /\ option \in [Keys -> Reported] /\ label \in Labels
      /\ page = Null /\ call = Null /\ bar \in BOOLEAN /\ chosen = Null /\ fields = Null
      /\ disturbed \in BOOLEAN /\ beside = {} /\ view \in {"device", "settings"}
  BY SettingsAssumption DEF SettingsInit
<1> QED  BY <1>1, <1>2, <1>3, <1>4, <1>5 DEF SettingsTypeOK

\* What the terminal alone changes.
LEMMA TerminalTypes ==
    ASSUME SettingsTypeOK, MinutePasses \/ SetAtTerminal \/ Punch
    PROVE  SettingsTypeOK'
<1>1. CASE MinutePasses
  BY <1>1, SettingsAssumption
     DEF MinutePasses, SettingsTypeOK, terminalVars, serverVars, pageVars, history, Page
<1>2. CASE SetAtTerminal
  <2>1. lead' \in Int
    BY <1>2, SettingsAssumption DEF SetAtTerminal, SettingsTypeOK
  <2>2. option' \in [Keys -> Reported]
    BY <1>2 DEF SetAtTerminal, SettingsTypeOK
  <2>3. changes' \in 0 .. MaxChanges
    BY <1>2, SettingsAssumption DEF SetAtTerminal, Change, SettingsTypeOK
  <2> QED  BY <1>2, <2>1, <2>2, <2>3 DEF SetAtTerminal, SettingsTypeOK, serverVars, pageVars, history
<1>3. CASE Punch
  <2>1. held' \in Seq(Int)
    BY <1>3, AppendProperties, SettingsAssumption DEF Punch, Wall, SettingsTypeOK
  <2> QED  BY <1>3, <2>1 DEF Punch, SettingsTypeOK, serverVars, pageVars, history
<1> QED  BY <1>1, <1>2, <1>3

\* It keeps it when a terminal uploads,
LEMMA UploadTypes ==
    ASSUME SettingsTypeOK, NEW s \in Slots, NEW heard \in BOOLEAN, Upload(s, heard)
    PROVE  SettingsTypeOK'
<1>1. ReportedWall \in Int
  BY LenProperties, ElementOfSeq, EmptySeq DEF ReportedWall, Last, Upload, SettingsTypeOK
<1>2. Drift \in ClockDrift
  BY <1>1, SettingsAssumption DEF Drift, ClockDrift, SettingsTypeOK
<1>3. measuring' \in [Slots -> ClockDrift \cup {Null}]
  BY <1>2 DEF Upload, SettingsTypeOK
<1>4. held' \in Seq(Int)
  BY DEF Upload, SettingsTypeOK
<1> QED  BY <1>3, <1>4 DEF Upload, SettingsTypeOK, pageVars, history

\* A command is a query of one bundle or a step of a push.
LEMMA TakenCommand ==
    ASSUME SettingsTypeOK, taken < Len(commands)
    PROVE  LET c == commands[taken + 1]
           IN  /\ taken + 1 \in DOMAIN commands
               /\ c \in Command
               /\ c.kind = "GET" => [k \in c.keys |-> option[k]] \in Report
               /\ c.kind # "GET" => c.value \in Int
<1> DEFINE c == commands[taken + 1]
<1>1. taken + 1 \in DOMAIN commands /\ c \in Command
  BY LenProperties, ElementOfSeq DEF SettingsTypeOK
<1>2. c.kind = "GET" => c.keys \in Asked
  BY <1>1 DEF Command
<1>3. c.kind # "GET" => c.value \in Int
  BY <1>1 DEF Command
<1>4. \A k \in Keys : option[k] \in Reported
  BY DEF SettingsTypeOK
<1>5. \A keys \in Asked : keys \subseteq Keys
  BY DEF Keys, Asked, Options, Network
<1>6. c.kind = "GET" => [k \in c.keys |-> option[k]] \in Report
  <2> SUFFICES ASSUME c.kind = "GET" PROVE [k \in c.keys |-> option[k]] \in Report
    OBVIOUS
  <2>1. [k \in c.keys |-> option[k]] \in [c.keys -> Reported]
    BY <1>2, <1>4, <1>5
  <2> QED  BY <1>2, <2>1 DEF Report
<1> QED  BY <1>1, <1>3, <1>6

\* when a handler takes the upload up,
LEMMA TakeTypes == ASSUME SettingsTypeOK, NEW s \in Slots, Take(s) PROVE SettingsTypeOK'
<1> DEFINE c == commands[taken + 1]
<1>1. taken < Len(commands)
  BY DEF Take
<1>2. c.kind = "GET" => [k \in c.keys |-> option[k]] \in Report
  BY <1>1, TakenCommand
<1>3. c.kind # "GET" => c.value \in Int
  BY <1>1, TakenCommand
<1>4. answering' \in [Slots -> Answer \cup {Null}]
  <2>1. CASE c.kind = "GET"
    <3> DEFINE job == [step |-> "status", report |-> [k \in c.keys |-> option[k]]]
    <3>1. job \in Answer
      BY <1>2, <2>1 DEF Answer
    <3>2. answering' = [answering EXCEPT ![s] = job]
      BY <2>1 DEF Take
    <3> HIDE DEF job
    <3> QED  BY <3>1, <3>2 DEF SettingsTypeOK
  <2>2. CASE c.kind # "GET"
    BY <2>2 DEF Take, SettingsTypeOK
  <2> QED  BY <2>1, <2>2
<1>5. lead' \in Int
  BY <1>3, SettingsAssumption DEF Take, SettingsTypeOK
<1>6. disturbed' \in BOOLEAN /\ UNCHANGED beside
  BY Zenon DEF Take, SettingsTypeOK, history
<1>7. taken' \in 0 .. Len(commands)
  BY <1>1, LenProperties DEF Take, SettingsTypeOK
<1>8. UNCHANGED <<now, held, option, commands, label, settings, measuring, pageVars, changes>>
  BY DEF Take
<1> QED  BY <1>4, <1>5, <1>6, <1>7, <1>8 DEF SettingsTypeOK, pageVars

\* when it stores the drift,
LEMMA StoreDriftTypes ==
    ASSUME SettingsTypeOK, NEW s \in Slots, StoreDrift(s)
    PROVE  SettingsTypeOK'
<1>1. settings' \in Settings
  BY SettingsUpdates DEF StoreDrift, SettingsTypeOK
<1>2. measuring' \in [Slots -> ClockDrift \cup {Null}]
  BY DEF StoreDrift, SettingsTypeOK
<1> QED  BY <1>1, <1>2 DEF StoreDrift, SettingsTypeOK, terminalVars, pageVars, history

\* Answered: the job goes on, comes to its end, or is given up.
LEMMA AnsweredTypes == ASSUME SettingsTypeOK, NEW s \in Slots, Answered(s) PROVE SettingsTypeOK'
<1> DEFINE job == answering[s]
<1>1. job \in Answer
  BY DEF Answered, SettingsTypeOK
<1>2. job.report \in Report
  BY <1>1 DEF Answer
<1>3. answering' \in [Slots -> Answer \cup {Null}]
  <2>1. \A step \in {"status", "info", "network"} : [job EXCEPT !.step = step] \in Answer
    BY <1>1 DEF Answer
  <2>2. \/ \E step \in {"status", "info", "network"} :
             answering' = [answering EXCEPT ![s] = [job EXCEPT !.step = step]]
        \/ answering' = [answering EXCEPT ![s] = Null]
    BY DEF Answered
  <2> HIDE DEF job
  <2> QED  BY <2>1, <2>2 DEF SettingsTypeOK
<1>4. WithInfo(job.report) \in Settings
  BY <1>2, ReportSections, SettingsUpdates DEF WithInfo, SettingsTypeOK
<1>5. WithNetwork(job.report) \in Settings
  BY <1>2, ReportSections, SettingsUpdates DEF WithNetwork, Matched, networkAfter, SettingsTypeOK
<1>6. settings' \in Settings
  BY <1>4, <1>5 DEF Answered, SettingsTypeOK
<1>7. disturbed' \in BOOLEAN /\ beside' \subseteq Network
  BY DEF Answered, SettingsTypeOK, history, BesideAfter, Told
<1>8. UNCHANGED <<now, terminalVars, label, measuring, pageVars, changes>>
  BY DEF Answered
<1> QED  BY <1>3, <1>6, <1>7, <1>8 DEF SettingsTypeOK, terminalVars, pageVars

\* when the server crashes,
LEMMA CrashTypes == ASSUME SettingsTypeOK, Crash PROVE SettingsTypeOK'
<1>1. /\ measuring' \in [Slots -> ClockDrift \cup {Null}]
      /\ answering' \in [Slots -> Answer \cup {Null}]
  BY DEF Crash
<1>2. disturbed' \in BOOLEAN
  BY Zenon DEF Crash, SettingsTypeOK
<1>3. changes' \in 0 .. MaxChanges
  BY SettingsAssumption DEF Crash, Change, SettingsTypeOK
<1> QED  BY <1>1, <1>2, <1>3 DEF Crash, SettingsTypeOK, terminalVars, pageVars

\* The estimate is a time and the card one of its three forms.
LEMMA PollTypes ==
    ASSUME SettingsTypeOK, NEW v \in {"device", "settings"}, Poll(v)
    PROVE  /\ SettingsTypeOK'
           /\ page = Null => (v = "settings" => fields' \in Int)
                             /\ (v = "device" => chosen' \in Labels)
<1>1. settings.clockDrift # Null => settings.clockDrift.sec \in Int
  BY DEF SettingsTypeOK, Settings, ClockDrift
<1>2. deviceLocal \in Int
  BY <1>1, SettingsAssumption DEF deviceLocal, DriftSec, SettingsTypeOK
<1>3. DriftCard \in Card
  BY <1>1 DEF DriftCard, Card
<1>4. get \in Page
  BY <1>2, <1>3 DEF get, Page, SettingsTypeOK
<1>5. page' = get /\ get.estimate \in Int /\ get.label \in Labels
  BY <1>4 DEF Poll, Page
<1>6. page = Null => Drawn(v, get)
  BY <1>5 DEF Poll
<1>7. /\ fields' \in Int \cup {Null} /\ chosen' \in Labels \cup {Null}
      /\ mounted' \in 0 .. Horizon
  BY <1>5, <1>6, SettingsAssumption DEF Poll, Drawn, SettingsTypeOK
<1>8. SettingsTypeOK'
  BY <1>4, <1>5, <1>7 DEF Poll, SettingsTypeOK, terminalVars, serverVars, history
<1>9. page = Null => (v = "settings" => fields' \in Int) /\ (v = "device" => chosen' \in Labels)
  BY <1>4, <1>5, <1>6, NullAssumption DEF Drawn, Poll
<1> QED  BY <1>8, <1>9

\* A page is drawn with an answer or without.
LEMMA DrawnTypes ==
    ASSUME SettingsTypeOK, NEW v \in {"device", "settings", "none"},
           NEW answer \in Page \cup {Null}, Drawn(v, answer)
    PROVE  /\ fields' \in Int \cup {Null} /\ chosen' \in Labels \cup {Null}
           /\ mounted' \in 0 .. Horizon
           /\ answer # Null /\ v = "settings" => fields' \in Int
           /\ answer # Null /\ v = "device" => chosen' \in Labels
<1>1. answer # Null => answer.estimate \in Int /\ answer.label \in Labels
  BY DEF Page
<1>2. 0 \in 0 .. Horizon /\ now \in 0 .. Horizon
  BY SettingsAssumption DEF SettingsTypeOK
<1> QED  BY <1>1, <1>2 DEF Drawn

\* Nothing but what is shown changes.
LEMMA PageTypes ==
    ASSUME SettingsTypeOK, PageFilled,
           PollBar \/ Forget \/ SaveLabel \/ SnapToDevice \/ TypeTime
             \/ (\E v \in {"device", "settings", "none"} : Open(v))
             \/ (\E z \in Labels : ChooseLabel(z) \/ RelabelElsewhere(z))
    PROVE  SettingsTypeOK'
<1> USE SettingsAssumption
<1>1. CASE PollBar
  <2>1. bar' \in BOOLEAN
    BY <1>1 DEF PollBar, Flagged
  <2> QED  BY <1>1, <2>1 DEF PollBar, SettingsTypeOK, terminalVars, serverVars, history
<1>2. CASE Forget
  <2>1. view \in {"device", "settings", "none"} /\ Drawn(view, Null)
    BY <1>2 DEF Forget, SettingsTypeOK
  <2>2. fields' \in Int \cup {Null} /\ chosen' \in Labels \cup {Null} /\ mounted' \in 0 .. Horizon
    BY <2>1, DrawnTypes
  <2> QED  BY <1>2, <2>2
           DEF Forget, Change, SettingsTypeOK, terminalVars, serverVars, history
<1>3. CASE SaveLabel
  <2>1. label' \in Labels
    BY <1>3 DEF SaveLabel, SettingsTypeOK, PageFilled
  <2> QED  BY <1>3, <2>1 DEF SaveLabel, SettingsTypeOK, terminalVars, pageVars, history
<1>4. ASSUME NEW time \in Int, Enter(time)
      PROVE  SettingsTypeOK'
  BY <1>4 DEF Enter, Change, SettingsTypeOK, terminalVars, serverVars, history
<1>5. CASE SnapToDevice
  <2>1. page.estimate \in Int
    BY <1>5 DEF SnapToDevice, Enter, SettingsTypeOK, Page
  <2> QED  BY <1>4, <1>5, <2>1 DEF SnapToDevice
<1>6. CASE TypeTime
  <2>1. now + Offset[label] \in Int
    BY DEF SettingsTypeOK
  <2> QED  BY <1>4, <1>6, <2>1 DEF TypeTime
<1>7. ASSUME NEW v \in {"device", "settings", "none"}, Open(v)
      PROVE  SettingsTypeOK'
  <2>1. page \in Page \cup {Null} /\ Drawn(v, page)
    BY <1>7 DEF Open, SettingsTypeOK
  <2>2. fields' \in Int \cup {Null} /\ chosen' \in Labels \cup {Null} /\ mounted' \in 0 .. Horizon
    BY <2>1, DrawnTypes
  <2> QED  BY <1>7, <2>2
           DEF Open, Change, SettingsTypeOK, terminalVars, serverVars, history
<1>8. ASSUME NEW z \in Labels, ChooseLabel(z)
      PROVE  SettingsTypeOK'
  BY <1>8 DEF ChooseLabel, Change, SettingsTypeOK, terminalVars, serverVars, history
<1>9. ASSUME NEW z \in Labels, RelabelElsewhere(z)
      PROVE  SettingsTypeOK'
  BY <1>9 DEF RelabelElsewhere, Change, SettingsTypeOK, terminalVars, pageVars, history
<1> QED  BY <1>1, <1>2, <1>3, <1>5, <1>6, <1>7, <1>8, <1>9

\* The queries and the push.
LEMMA StartTypes ==
    ASSUME SettingsTypeOK, PageFilled,
           SetManualTime \/ QueryDeviceInfo \/ QueryNetwork \/ GetOptions
    PROVE  SettingsTypeOK'
<1>1. ASSUME NEW v, NEW kind \in {"time", "info", "network", "options"},
             NEW value \in Int \cup {Null}, NEW steps \in Seq(Command),
             Start(v, kind, value, steps)
      PROVE  SettingsTypeOK'
  <2>1. call' \in Call
    BY <1>1, EmptySeq DEF Start, Call
  <2> QED  BY <1>1, <2>1, SettingsAssumption
           DEF Start, Change, SettingsTypeOK, terminalVars, serverVars, history
<1>2. SetManualTime => Start("settings", "time", fields, Steps(fields)) /\ fields \in Int
  BY DEF SetManualTime, Start, PageFilled
<1>3. CASE SetManualTime
  BY <1>1, <1>2, <1>3, StepsAreCommands
<1>4. CASE QueryDeviceInfo
  BY <1>1, <1>4, QueriesAreCommands DEF QueryDeviceInfo
<1>5. CASE QueryNetwork
  BY <1>1, <1>5, QueriesAreCommands DEF QueryNetwork
<1>6. CASE GetOptions
  BY <1>1, <1>6, QueriesAreCommands DEF GetOptions
<1> QED  BY <1>3, <1>4, <1>5, <1>6

\* A row is appended to the command table.
LEMMA AppendedCommand ==
    ASSUME SettingsTypeOK, NEW c \in Command, commands' = Append(commands, c)
    PROVE  /\ commands' \in Seq(Command) /\ Len(commands') = Len(commands) + 1
           /\ Len(commands) \in Nat /\ taken \in 0 .. Len(commands')
           /\ DOMAIN commands \subseteq DOMAIN commands'
           /\ Len(commands') \in DOMAIN commands' /\ commands'[Len(commands')] = c
           /\ \A i \in DOMAIN commands : commands'[i] = commands[i]
<1>1. commands \in Seq(Command)
  BY DEF SettingsTypeOK
<1>2. /\ commands' \in Seq(Command) /\ Len(commands') = Len(commands) + 1
      /\ commands'[Len(commands) + 1] = c
      /\ \A i \in 1 .. Len(commands) : commands'[i] = commands[i]
  BY <1>1, AppendProperties
<1>3. /\ Len(commands) \in Nat /\ DOMAIN commands = 1 .. Len(commands)
      /\ DOMAIN commands' = 1 .. Len(commands')
  BY <1>1, <1>2, LenProperties
<1>4. taken \in 0 .. Len(commands')
  BY <1>2, <1>3 DEF SettingsTypeOK
<1> QED  BY <1>2, <1>3, <1>4

\* when a push queues its next command,
LEMMA QueueNextTypes == ASSUME SettingsTypeOK, QueueNext PROVE SettingsTypeOK'
<1>1. call \in Call /\ call.left \in Seq(Command) /\ call.queued \in Seq(Nat) /\ call.left # <<>>
  BY DEF QueueNext, SettingsTypeOK, Call
<1>2. Head(call.left) \in Command /\ Tail(call.left) \in Seq(Command)
  BY <1>1, HeadTailProperties
<1>3. commands' \in Seq(Command) /\ Len(commands') \in Nat /\ taken \in 0 .. Len(commands')
  BY <1>2, AppendedCommand DEF QueueNext
<1>4. Append(call.queued, Len(commands')) \in Seq(Nat)
  BY <1>1, <1>3, AppendProperties
<1>5. call' = [[call EXCEPT !.left = Tail(call.left)]
                    EXCEPT !.queued = Append(call.queued, Len(commands'))]
  BY <1>1 DEF QueueNext, Call
<1>6. call' \in Call
  BY <1>1, <1>2, <1>4, <1>5 DEF Call
<1> QED  BY <1>3, <1>6 DEF QueueNext, SettingsTypeOK, serverVars, history

\* when somebody else queues one,
LEMMA QueueElsewhereTypes == ASSUME SettingsTypeOK, QueueElsewhere PROVE SettingsTypeOK'
<1>1. commands' \in Seq(Command) /\ taken \in 0 .. Len(commands')
  BY QueriesAreCommands, AppendedCommand DEF QueueElsewhere
<1> QED  BY <1>1, SettingsAssumption
         DEF QueueElsewhere, Change, SettingsTypeOK, serverVars, pageVars, history

\* and when a call ends.
LEMMA CallEndTypes ==
    ASSUME SettingsTypeOK, PageFilled, CallFails \/ Return
    PROVE  SettingsTypeOK'
<1>1. CASE CallFails
  BY <1>1 DEF CallFails, SettingsTypeOK, terminalVars, serverVars, history
<1>2. CASE Return
  <2>1. call \in Call /\ (call.kind = "time" => call.value \in Int)
    BY <1>2 DEF Return, SettingsTypeOK, PageFilled
  <2>2. call.kind = "time" =>
            [dateTime |-> call.value, queuedCommandIds |-> call.queued] \in ManualPush
    BY <2>1 DEF Call, ManualPush
  <2>3. settings' \in Settings
    BY <1>2, <2>2, SettingsUpdates DEF Return, Recorded, SettingsTypeOK
  <2> QED  BY <1>2, <2>3 DEF Return, SettingsTypeOK, terminalVars, history
<1> QED  BY <1>1, <1>2

-----------------------------------------------------------------------------
(* The push                                                                *)

\* A page stays filled.
LEMMA FilledKept ==
    ASSUME SettingsTypeOK, PageFilled, [SettingsNext]_settingsVars
    PROVE  PageFilled'
<1>1. ASSUME NEW v \in {"device", "settings"}, Poll(v)
      PROVE  PageFilled'
  BY <1>1, PollTypes DEF Poll, PageFilled
<1>2. ASSUME NEW v \in {"device", "settings", "none"}, Drawn(v, page'), view' = v,
             UNCHANGED call, page' \in Page \cup {Null}
      PROVE  PageFilled'
  BY <1>2, DrawnTypes DEF PageFilled
<1>3. CASE SnapToDevice \/ TypeTime \/ \E z \in Labels : ChooseLabel(z)
  BY <1>3, SettingsAssumption
     DEF SnapToDevice, TypeTime, Enter, ChooseLabel, PageFilled, SettingsTypeOK, Page
<1>4. ASSUME NEW v, NEW kind, NEW value, NEW steps, Start(v, kind, value, steps),
             kind = "time" => value \in Int
      PROVE  PageFilled'
  BY <1>4 DEF Start, PageFilled
<1>5. CASE SetManualTime
  <2>1. fields \in Int
    BY <1>5 DEF SetManualTime, Start, PageFilled
  <2> QED  BY <1>4, <1>5, <2>1 DEF SetManualTime
<1>6. CASE QueryDeviceInfo \/ QueryNetwork \/ GetOptions
  BY <1>4, <1>6 DEF QueryDeviceInfo, QueryNetwork, GetOptions
<1>7. CASE QueueNext
  <2>1. call'.kind = call.kind /\ call'.value = call.value
    BY <1>7 DEF QueueNext, SettingsTypeOK, Call
  <2> QED  BY <1>7, <2>1 DEF QueueNext, PageFilled
<1>8. CASE CallFails \/ Return
  BY <1>8 DEF CallFails, Return, PageFilled
<1>9. CASE UNCHANGED <<view, page, fields, chosen, call>>
  BY <1>9 DEF PageFilled
<1>10. CASE Forget \/ \E v \in {"device", "settings", "none"} : Open(v)
  BY <1>2, <1>10 DEF Forget, Open, SettingsTypeOK
<1> QED  BY <1>1, <1>3, <1>5, <1>6, <1>7, <1>8, <1>9, <1>10
         DEF SettingsNext, PageStep, settingsVars, pageVars, MinutePasses, SetAtTerminal, Punch,
             Upload, Take, StoreDrift, Answered, Crash, QueueElsewhere, RelabelElsewhere, PollBar,
             SaveLabel, PollDevice, PollSettings

\* Rows stay where they are, so what was pushed stays pushed.
LEMMA PushesStay ==
    ASSUME PushUnderWay, PushOnRecord,
           DOMAIN commands \subseteq DOMAIN commands',
           \A i \in DOMAIN commands : commands'[i] = commands[i],
           UNCHANGED call, settings'.lastManualTimePush = settings.lastManualTimePush
    PROVE  PushUnderWay' /\ PushOnRecord'
<1>1. ASSUME NEW ids, NEW value, Pushed(ids, value)
      PROVE  \A i \in DOMAIN ids :
                 ids[i] \in DOMAIN commands' /\ commands'[ids[i]] = Steps(value)[i]
  BY <1>1 DEF Pushed
<1>2. PushUnderWay'
  <2> SUFFICES ASSUME call # Null, call.kind = "time" PROVE PushUnderWay'
    BY DEF PushUnderWay
  <2>1. /\ Len(call.queued) + Len(call.left) = 3
        /\ Pushed(call.queued, call.value)
        /\ \A i \in DOMAIN call.left : call.left[i] = Steps(call.value)[Len(call.queued) + i]
    BY DEF PushUnderWay
  <2>2. \A i \in DOMAIN call.queued :
            call.queued[i] \in DOMAIN commands' /\ commands'[call.queued[i]] = Steps(call.value)[i]
    BY <1>1, <2>1
  <2> QED  BY <2>1, <2>2 DEF PushUnderWay, Pushed, Steps
<1>3. PushOnRecord'
  <2> DEFINE push == settings.lastManualTimePush
  <2> SUFFICES ASSUME push # Null PROVE PushOnRecord'
    BY DEF PushOnRecord
  <2>1. Len(push.queuedCommandIds) = 3 /\ Pushed(push.queuedCommandIds, push.dateTime)
    BY DEF PushOnRecord
  <2>2. \A i \in DOMAIN push.queuedCommandIds :
            /\ push.queuedCommandIds[i] \in DOMAIN commands'
            /\ commands'[push.queuedCommandIds[i]] = Steps(push.dateTime)[i]
    BY <1>1, <2>1
  <2> QED  BY <2>1, <2>2 DEF PushOnRecord, Pushed, Steps
<1> QED  BY <1>2, <1>3

\* A push starts with nothing queued and the whole sequence left.
LEMMA StartPushes ==
    ASSUME SettingsTypeOK, PushUnderWay, PushOnRecord, NEW v, NEW kind, NEW value,
           NEW steps, Start(v, kind, value, steps),
           kind = "time" => value \in Int /\ steps = Steps(value)
    PROVE  PushUnderWay' /\ PushOnRecord'
<1>1. PushOnRecord'
  BY DEF Start, PushOnRecord, Pushed, Steps, terminalVars, serverVars
<1>2. CASE kind = "time"
  <2>1. call'.queued = <<>> /\ call'.left = Steps(value) /\ call'.value = value
    BY <1>2 DEF Start
  <2>2. Steps(value) \in Seq(Command) /\ Len(Steps(value)) = 3 /\ DOMAIN Steps(value) = 1 .. 3
    BY <1>2, StepsAreCommands
  <2>3. Len(call'.queued) = 0 /\ DOMAIN (call'.queued) = {}
    BY <2>1
  <2>4. \A i \in DOMAIN Steps(value) : Steps(value)[i] = Steps(value)[0 + i]
    BY <2>2
  <2>5. Pushed(call.queued, call.value)'
    BY <2>3 DEF Pushed
  <2> HIDE DEF Pushed
  <2>6. Len(call'.queued) + Len(call'.left) = 3
    BY <2>1, <2>2, <2>3
  <2>7. \A i \in DOMAIN (call'.left) :
            call'.left[i] = Steps(call'.value)[Len(call'.queued) + i]
    BY <2>1, <2>3, <2>4
  <2> QED  BY <1>1, <2>5, <2>6, <2>7 DEF PushUnderWay, Steps
<1>3. CASE kind # "time"
  BY <1>1, <1>3 DEF Start, PushUnderWay
<1> QED  BY <1>2, <1>3

\* The next command of a push goes from what is left to what is queued.
LEMMA QueueNextPushes ==
    ASSUME SettingsTypeOK, PushUnderWay, PushOnRecord, QueueNext
    PROVE  PushUnderWay' /\ PushOnRecord'
<1> DEFINE c == Head(call.left)
<1>1. call \in Call /\ call.left \in Seq(Command) /\ call.queued \in Seq(Nat) /\ call.left # <<>>
  BY DEF QueueNext, SettingsTypeOK, Call
<1>2. /\ c \in Command /\ c = call.left[1] /\ 1 \in DOMAIN call.left
      /\ Tail(call.left) \in Seq(Command)
      /\ Len(call.left) \in Nat /\ Len(Tail(call.left)) = Len(call.left) - 1
      /\ \A i \in 1 .. Len(Tail(call.left)) :
             Tail(call.left)[i] = call.left[i + 1] /\ i + 1 \in DOMAIN call.left
  BY <1>1, HeadTailProperties, LenProperties, EmptySeq
<1>3. /\ Len(commands') = Len(commands) + 1 /\ Len(commands) \in Nat
      /\ DOMAIN commands \subseteq DOMAIN commands'
      /\ Len(commands') \in DOMAIN commands' /\ commands'[Len(commands')] = c
      /\ \A i \in DOMAIN commands : commands'[i] = commands[i]
  BY <1>2, AppendedCommand DEF QueueNext
<1> DEFINE ids == call.queued
           new == Append(ids, Len(commands'))
<1>4. /\ new \in Seq(Nat) /\ Len(new) = Len(ids) + 1 /\ new[Len(ids) + 1] = Len(commands')
      /\ \A i \in 1 .. Len(ids) : new[i] = ids[i]
      /\ DOMAIN new = 1 .. Len(ids) + 1 /\ DOMAIN ids = 1 .. Len(ids) /\ Len(ids) \in Nat
  BY <1>1, <1>3, AppendProperties, LenProperties
<1>5. /\ call'.left = Tail(call.left) /\ call'.queued = new
      /\ call'.kind = call.kind /\ call'.value = call.value
  BY <1>1 DEF QueueNext, Call
<1>6. PushOnRecord'
  <2>1. settings' = settings
    BY DEF QueueNext, serverVars
  <2> QED  BY <1>3, <2>1 DEF PushOnRecord, Pushed, Steps
<1>7. PushUnderWay'
  <2>0. SUFFICES ASSUME call.kind = "time" PROVE PushUnderWay'
    BY <1>5 DEF PushUnderWay
  <2>1. /\ Len(ids) + Len(call.left) = 3
        /\ \A i \in DOMAIN ids : ids[i] \in DOMAIN commands /\ commands[ids[i]] = Steps(call.value)[i]
        /\ \A i \in DOMAIN call.left : call.left[i] = Steps(call.value)[Len(ids) + i]
    BY <2>0 DEF PushUnderWay, QueueNext, Pushed
  <2> HIDE DEF new, ids, c
  <2>2. Len(new) + Len(Tail(call.left)) = 3
    <3>1. Len(new) = Len(ids) + 1 /\ Len(ids) \in Nat
      BY <1>4
    <3>2. Len(Tail(call.left)) = Len(call.left) - 1 /\ Len(call.left) \in Nat
      BY <1>2
    <3>3. Len(ids) + Len(call.left) = 3
      BY <2>1
    <3>4. \A a, b \in Nat : a + b = 3 => (a + 1) + (b - 1) = 3
      OBVIOUS
    <3>5. (Len(ids) + 1) + (Len(call.left) - 1) = 3
      BY <3>1, <3>2, <3>3, <3>4
    <3> QED  BY <3>1, <3>2, <3>5
  <2>3. c = Steps(call.value)[Len(ids) + 1]
    BY <1>2, <2>1
  <2>4. \A i \in DOMAIN new : new[i] \in DOMAIN commands' /\ commands'[new[i]] = Steps(call.value)[i]
    <3>1. ASSUME NEW i \in 1 .. Len(ids)
          PROVE  new[i] \in DOMAIN commands' /\ commands'[new[i]] = Steps(call.value)[i]
      BY <1>3, <1>4, <2>1
    <3>2. new[Len(ids) + 1] \in DOMAIN commands'
          /\ commands'[new[Len(ids) + 1]] = Steps(call.value)[Len(ids) + 1]
      BY <1>3, <1>4, <2>3
    <3>3. \A i \in DOMAIN new : i \in 1 .. Len(ids) \/ i = Len(ids) + 1
      BY <1>4
    <3> QED  BY <3>1, <3>2, <3>3
  <2>5. \A i \in DOMAIN Tail(call.left) :
            Tail(call.left)[i] = Steps(call.value)[Len(new) + i]
    <3>1. DOMAIN Tail(call.left) = 1 .. Len(Tail(call.left))
      BY <1>2, LenProperties
    <3> SUFFICES ASSUME NEW i \in 1 .. Len(Tail(call.left))
                 PROVE  Tail(call.left)[i] = Steps(call.value)[Len(new) + i]
      BY <3>1
    <3>2. Tail(call.left)[i] = call.left[i + 1] /\ i + 1 \in DOMAIN call.left
      BY <1>2
    <3>3. call.left[i + 1] = Steps(call.value)[Len(ids) + (i + 1)]
      BY <2>1, <3>2
    <3>4. Len(ids) + (i + 1) = Len(new) + i
      BY <1>4, <1>2
    <3> QED  BY <3>2, <3>3, <3>4
  <2>6. /\ Len(call'.queued) + Len(call'.left) = 3
        /\ \A i \in DOMAIN (call'.left) :
               call'.left[i] = Steps(call'.value)[Len(call'.queued) + i]
    BY <1>5, <2>2, <2>5
  <2>7. \A i \in DOMAIN (call'.queued) :
            call'.queued[i] \in DOMAIN commands' /\ commands'[call'.queued[i]] = Steps(call'.value)[i]
    BY <1>5, <2>4
  <2> QED  BY <2>6, <2>7 DEF PushUnderWay, Pushed, Steps
<1> QED  BY <1>6, <1>7

\* The push that has returned was queued whole.
LEMMA ReturnPushes ==
    ASSUME SettingsTypeOK, PushUnderWay, PushOnRecord, Return
    PROVE  PushUnderWay' /\ PushOnRecord'
<1>1. PushUnderWay' /\ UNCHANGED commands
  BY DEF Return, PushUnderWay, terminalVars
<1>2. CASE call.kind # "time"
  BY <1>1, <1>2 DEF Return, Recorded, PushOnRecord, Pushed, Steps
<1>3. CASE call.kind = "time"
  <2>1. Len(call.left) = 0 /\ Len(call.queued) \in Nat
    BY LenProperties DEF Return, SettingsTypeOK, Call
  <2>2. Len(call.queued) = 3 /\ Pushed(call.queued, call.value)
    BY <1>3, <2>1 DEF Return, PushUnderWay
  <2>3. settings'.lastManualTimePush =
            [dateTime |-> call.value, queuedCommandIds |-> call.queued]
    BY <1>3 DEF Return, Recorded, SettingsTypeOK, Settings
  <2>4. /\ settings'.lastManualTimePush.queuedCommandIds = call.queued
        /\ settings'.lastManualTimePush.dateTime = call.value
    BY <2>3
  <2> QED  BY <1>1, <2>2, <2>4 DEF PushOnRecord, Pushed, Steps
<1> QED  BY <1>2, <1>3

\* Every step keeps what is known of the push under way.
LEMMA PushesKept ==
    ASSUME SettingsTypeOK, PageFilled, PushUnderWay, PushOnRecord, [SettingsNext]_settingsVars
    PROVE  PushUnderWay' /\ PushOnRecord'
<1>1. CASE SetManualTime
  <2>1. Start("settings", "time", fields, Steps(fields)) /\ fields \in Int
    BY <1>1 DEF SetManualTime, Start, PageFilled
  <2> QED  BY <2>1, StartPushes
<1>2. CASE QueryDeviceInfo \/ QueryNetwork \/ GetOptions
  BY <1>2, StartPushes DEF QueryDeviceInfo, QueryNetwork, GetOptions
<1>3. CASE QueueNext
  BY <1>3, QueueNextPushes
<1>4. CASE Return
  BY <1>4, ReturnPushes
<1>5. CASE CallFails
  BY <1>5 DEF CallFails, PushUnderWay, PushOnRecord, Pushed, Steps, terminalVars, serverVars
<1>6. CASE QueueElsewhere
  <2>1. /\ DOMAIN commands \subseteq DOMAIN commands'
        /\ \A i \in DOMAIN commands : commands'[i] = commands[i]
    BY <1>6, QueriesAreCommands, AppendedCommand DEF QueueElsewhere
  <2>2. UNCHANGED <<call, settings>>
    BY <1>6 DEF QueueElsewhere, serverVars, pageVars
  <2> QED  BY <2>1, <2>2, PushesStay
<1>7. ASSUME NEW s \in Slots, StoreDrift(s) \/ Answered(s)
      PROVE  PushUnderWay' /\ PushOnRecord'
  <2>1. settings'.lastManualTimePush = settings.lastManualTimePush
    BY <1>7 DEF StoreDrift, Answered, WithInfo, WithNetwork, SettingsTypeOK, Settings
  <2>2. UNCHANGED <<commands, call>>
    BY <1>7 DEF StoreDrift, Answered, terminalVars, pageVars
  <2> QED  BY <2>1, <2>2, PushesStay
<1>8. CASE UNCHANGED <<commands, call, settings>>
  BY <1>8, PushesStay
<1> QED  BY <1>1, <1>2, <1>3, <1>4, <1>5, <1>6, <1>7, <1>8
         DEF SettingsNext, PageStep, settingsVars, serverVars, pageVars, terminalVars,
             MinutePasses, SetAtTerminal, Punch, Upload, Take, Crash, RelabelElsewhere, Poll,
             PollDevice, PollSettings, PollBar, Forget, Open, SaveLabel, SnapToDevice, TypeTime,
             Enter, ChooseLabel


\* A push on record is three rows that are its steps.
LEMMA RecordIsWhole == SettingsTypeOK /\ PushOnRecord => PushedIsWhole
<1> DEFINE push == settings.lastManualTimePush
<1> SUFFICES ASSUME SettingsTypeOK, PushOnRecord, push # Null PROVE PushedIsWhole
  BY DEF PushedIsWhole
<1> DEFINE ids == push.queuedCommandIds
           d == push.dateTime
<1>1. ids \in Seq(Nat) /\ d \in Int
  BY DEF SettingsTypeOK, Settings, ManualPush
<1>2. Len(ids) = 3 /\ \A i \in DOMAIN ids : commands[ids[i]] = Steps(d)[i]
  BY DEF PushOnRecord, Pushed
<1>3. DOMAIN ids = 1 .. 3
  BY <1>1, <1>2, LenProperties
<1>4. DOMAIN Steps(d) = DOMAIN TimeSequence /\ DOMAIN TimeSequence = 1 .. 3
  BY DEF Steps, TimeSequence
<1>5. Steps(d) = [i \in 1 .. 3 |-> Push(TimeSequence[i], d)]
  BY <1>4 DEF Steps
<1>6. \A i \in 1 .. 3 : commands[ids[i]] = Push(TimeSequence[i], d)
  BY <1>2, <1>3, <1>5
<1>7. [i \in DOMAIN ids |-> commands[ids[i]]] = Steps(d)
  BY <1>3, <1>5, <1>6
<1> QED  BY <1>7 DEF PushedIsWhole

-----------------------------------------------------------------------------
(* The sections                                                            *)

\* What the cards say depends on the two sections alone.
LEMMA SectionsStay ==
    ASSUME SettingsTypeOK, SectionsInStep, UNCHANGED <<disturbed, beside, answering>>,
           settings'.deviceInfo = settings.deviceInfo, settings'.network = settings.network
    PROVE  SectionsInStep'
<1>1. InfoCard' = InfoCard /\ NetworkCard' = NetworkCard
  BY DEF InfoCard, NetworkCard
<1> QED  BY <1>1 DEF SectionsInStep, Merged, Matched, Holds, NonBlank

\* A handler starts on sections that are in step,
LEMMA TakeSections ==
    ASSUME SettingsTypeOK, SectionsInStep, NEW s \in Slots, Take(s)
    PROVE  SectionsInStep'
<1>1. UNCHANGED settings
  BY DEF Take
<1>2. CASE commands[taken + 1].kind # "GET"
  BY <1>1, <1>2, SectionsStay DEF Take, history
<1>3. CASE commands[taken + 1].kind = "GET"
  <2> SUFFICES ASSUME ~disturbed' PROVE SectionsInStep'
    BY DEF SectionsInStep
  <2>1. ~disturbed /\ \A t \in Slots : answering[t] = Null
    BY <1>3, Zenon DEF Take
  <2>2. Holds(NetworkCard)
    BY <2>1 DEF SectionsInStep, Merged
  <2>3. Holds(NetworkCard)'
    BY <1>1, <1>3, <2>2 DEF Holds, NetworkCard, InfoCard, Take
  <2>4. /\ \A t \in Slots \ {s} : answering'[t] = Null
        /\ answering'[s].step = "status"
    BY <1>3, <2>1 DEF Take, SettingsTypeOK
  <2>5. \A t \in Slots : ~Merged(t)'
    BY <2>4 DEF Merged
  <2> QED  BY <2>3, <2>4, <2>5 DEF SectionsInStep
<1> QED  BY <1>2, <1>3

\* a crash leaves them in step,
LEMMA CrashSections == ASSUME SettingsTypeOK, SectionsInStep, Crash PROVE SectionsInStep'
<1> SUFFICES ASSUME ~disturbed' PROVE SectionsInStep'
  BY DEF SectionsInStep
<1>1. ~disturbed /\ \A t \in Slots : answering[t] = Null
  BY Zenon DEF Crash
<1>2. answering' = answering
  BY <1>1 DEF Crash, SettingsTypeOK
<1>3. disturbed' = disturbed
  BY <1>1, Zenon DEF Crash, SettingsTypeOK
<1> QED  BY <1>2, <1>3, SectionsStay DEF Crash

\* The answer merged into the info section leaves its values there, and what it tells
\* beside the network section is noted.
LEMMA MergeHolds ==
    ASSUME SettingsTypeOK, NEW report \in Report,
           settings' = WithInfo(report), beside' = BesideAfter(report)
    PROVE  /\ Holds(NonBlank(report))'
           /\ ~Matched(report) /\ Holds(NetworkCard) => Holds(NetworkCard)'
           /\ UNCHANGED NetworkCard
<1>1. /\ settings'.deviceInfo = deviceInfoAfter(report)
      /\ settings'.network = settings.network
  BY DEF WithInfo, SettingsTypeOK, Settings
<1>2. UNCHANGED NetworkCard
  BY <1>1 DEF NetworkCard
<1>3. \A k \in DOMAIN NonBlank(report) :
          k \in DOMAIN report /\ NonBlank(report)[k] = report[k] /\ report[k] # Blank
  BY DEF NonBlank
<1>4. \A k \in DOMAIN deviceInfoAfter(report) : deviceInfoAfter(report)[k] =
          IF k \in DOMAIN NonBlank(report) THEN report[k] ELSE settings.deviceInfo[k]
  BY DEF deviceInfoAfter
<1>5. DOMAIN deviceInfoAfter(report) = DOMAIN NonBlank(report) \cup DOMAIN settings.deviceInfo
  BY DEF deviceInfoAfter
<1>6. ASSUME NEW k \in DOMAIN NonBlank(report)
      PROVE  k \in DOMAIN InfoCard' /\ InfoCard'[k] = NonBlank(report)[k]
  <2>1. k \in DOMAIN deviceInfoAfter(report) /\ deviceInfoAfter(report)[k] = report[k]
    BY <1>4, <1>5
  <2> QED  BY <1>1, <1>3, <2>1 DEF InfoCard
<1>7. Holds(NonBlank(report))'
  BY <1>6 DEF Holds, NonBlank
<1>8. ASSUME ~Matched(report), NEW k \in DOMAIN NetworkCard, Holds(NetworkCard)
      PROVE  k \in DOMAIN InfoCard' /\ (InfoCard'[k] = NetworkCard[k] \/ k \in beside')
  <2>1. beside' = beside \cup Told(report) /\ k \in Network
    BY <1>8 DEF BesideAfter, NetworkCard, SettingsTypeOK, Settings, Section
  <2>2. CASE k \in DOMAIN NonBlank(report)
    BY <1>6, <2>1, <2>2 DEF Told
  <2>3. CASE k \notin DOMAIN NonBlank(report)
    <3>1. k \in DOMAIN InfoCard /\ (InfoCard[k] = NetworkCard[k] \/ k \in beside)
      BY <1>8 DEF Holds
    <3>2. k \in DOMAIN settings.deviceInfo /\ settings.deviceInfo[k] # Blank
          /\ InfoCard[k] = settings.deviceInfo[k]
      BY <3>1 DEF InfoCard
    <3>3. k \in DOMAIN deviceInfoAfter(report)
          /\ deviceInfoAfter(report)[k] = settings.deviceInfo[k]
      BY <1>4, <1>5, <2>3, <3>2
    <3> QED  BY <1>1, <2>1, <3>1, <3>2, <3>3 DEF InfoCard
  <2> QED  BY <2>2, <2>3
<1>9. ~Matched(report) /\ Holds(NetworkCard) => Holds(NetworkCard)'
  BY <1>2, <1>8 DEF Holds
<1> QED  BY <1>2, <1>7, <1>9

\* and so does an answer.
LEMMA AnsweredSections ==
    ASSUME SettingsTypeOK, SectionsInStep, NEW s \in Slots, Answered(s)
    PROVE  SectionsInStep'
<1> SUFFICES ASSUME ~disturbed' PROVE SectionsInStep'
  BY DEF SectionsInStep
<1> DEFINE job == answering[s]
<1>1. job # Null /\ job \in Answer
      /\ job.report \in Report
  BY DEF Answered, SettingsTypeOK, Answer
<1>2. ~disturbed
  BY DEF Answered, SettingsTypeOK, history
<1>3. \A t \in Slots \ {s} : answering[t] = Null
  BY <1>1, <1>2 DEF SectionsInStep
<1>4. ~Merged(s) => Holds(NetworkCard)
  BY <1>2, <1>3 DEF SectionsInStep, Merged
<1>5. Merged(s) => Holds(NonBlank(job.report))
  BY <1>2 DEF SectionsInStep
<1>6. \A t \in Slots \ {s} : answering'[t] = Null
  BY <1>3 DEF Answered, SettingsTypeOK
<1>7. SUFFICES /\ Merged(s)' => Holds(NonBlank(answering[s].report))'
               /\ ~Merged(s)' => Holds(NetworkCard)'
  BY <1>6 DEF SectionsInStep, Merged
<1>8. CASE job.step = "status"
  <2>1. answering'[s] = [job EXCEPT !.step = "info"] /\ UNCHANGED <<settings, beside>>
    BY <1>8 DEF Answered, SettingsTypeOK, history
  <2>2. answering'[s].step = "info"
    BY <1>1, <2>1 DEF Answer
  <2>3. Holds(NetworkCard)
    BY <1>4, <1>8 DEF Merged
  <2> QED  BY <2>1, <2>2, <2>3 DEF Merged, Holds, NetworkCard, InfoCard
<1>9. CASE job.step = "info"
  <2>1. /\ answering'[s] = [job EXCEPT !.step = "network"]
        /\ settings' = WithInfo(job.report) /\ beside' = BesideAfter(job.report)
    BY <1>9 DEF Answered, SettingsTypeOK
  <2>2. answering'[s] # Null => answering'[s].step = "network"
    BY <1>1, <2>1 DEF Answer
  <2>3. answering'[s].report = job.report
    BY <1>1, <2>1 DEF Answer
  <2>4. Holds(NetworkCard)
    BY <1>4, <1>9 DEF Merged
  <2>5. /\ Holds(NonBlank(job.report))'
        /\ ~Matched(job.report) => Holds(NetworkCard)'
    BY <1>1, <2>1, <2>4, MergeHolds
  <2>6. Holds(NonBlank(answering[s].report))' <=> Holds(NonBlank(job.report))'
    BY <2>3 DEF Holds, NonBlank
  <2>7. CASE Matched(job.report)
    <3>1. answering'[s] \in Answer
      BY <1>1, <2>1 DEF Answer
    <3>2. Merged(s)'
      BY <2>2, <2>3, <2>7, <3>1, NullAssumption DEF Merged
    <3> QED  BY <2>5, <2>6, <3>2
  <2>8. CASE ~Matched(job.report)
    BY <2>3, <2>5, <2>8 DEF Merged
  <2> QED  BY <2>7, <2>8
<1>10. CASE job.step = "network"
  <2>1. answering'[s] = Null /\ settings' = WithNetwork(job.report) /\ UNCHANGED beside
    BY <1>10 DEF Answered, SettingsTypeOK, history
  <2>2. InfoCard' = InfoCard
    BY <2>1 DEF InfoCard, WithNetwork, SettingsTypeOK, Settings
  <2>3. CASE Matched(job.report)
    <3>1. NetworkCard' = NonBlank(job.report)
      BY <2>1, <2>3 DEF NetworkCard, WithNetwork, networkAfter, SettingsTypeOK, Settings
    <3>2. Holds(NonBlank(job.report))
      BY <1>1, <1>5, <1>10, <2>3 DEF Merged
    <3> QED  BY <2>1, <2>2, <3>1, <3>2 DEF Merged, Holds
  <2>4. CASE ~Matched(job.report)
    <3>1. NetworkCard' = NetworkCard
      BY <2>1, <2>4 DEF NetworkCard, WithNetwork
    <3>2. Holds(NetworkCard)
      BY <1>4, <2>4 DEF Merged
    <3> QED  BY <2>1, <2>2, <3>1, <3>2 DEF Merged, Holds
  <2> QED  BY <2>3, <2>4
<1> QED  BY <1>1, <1>8, <1>9, <1>10 DEF Answer

\* Every step keeps the sections in step.
LEMMA SectionsKept ==
    ASSUME SettingsTypeOK, SectionsInStep, [SettingsNext]_settingsVars
    PROVE  SectionsInStep'
<1>1. ASSUME NEW s \in Slots, Take(s) \/ Answered(s)
      PROVE  SectionsInStep'
  BY <1>1, TakeSections, AnsweredSections
<1>2. CASE Crash
  BY <1>2, CrashSections
<1>3. ASSUME NEW s \in Slots, StoreDrift(s)
      PROVE  SectionsInStep'
  <2>1. settings'.deviceInfo = settings.deviceInfo /\ settings'.network = settings.network
    BY <1>3 DEF StoreDrift, SettingsTypeOK, Settings
  <2> QED  BY <1>3, <2>1, SectionsStay DEF StoreDrift, history
<1>4. CASE Return
  <2>1. settings'.deviceInfo = settings.deviceInfo /\ settings'.network = settings.network
    BY <1>4 DEF Return, Recorded, SettingsTypeOK, Settings
  <2> QED  BY <1>4, <2>1, SectionsStay DEF Return, history
<1>5. CASE UNCHANGED <<settings, answering, disturbed, beside>>
  BY <1>5, SectionsStay
<1> QED  BY <1>1, <1>2, <1>3, <1>4, <1>5
         DEF SettingsNext, PageStep, settingsVars, serverVars, history, MinutePasses,
             SetAtTerminal, Punch, Upload, QueueElsewhere, RelabelElsewhere, Poll, PollDevice,
             PollSettings, PollBar, Forget, Open, SaveLabel, SnapToDevice, TypeTime, Enter,
             ChooseLabel, SetManualTime, QueryDeviceInfo, QueryNetwork, GetOptions, Start,
             QueueNext, CallFails

-----------------------------------------------------------------------------
(* Theorems about DeviceSettings                                           *)

\* Every step keeps the types.
LEMMA SettingsTypesKept ==
    ASSUME SettingsTypeOK, PageFilled, [SettingsNext]_settingsVars
    PROVE  SettingsTypeOK'
<1>1. ASSUME NEW s \in Slots, NEW heard \in BOOLEAN,
             Upload(s, heard) \/ Take(s) \/ StoreDrift(s) \/ Answered(s)
      PROVE  SettingsTypeOK'
  BY <1>1, UploadTypes, TakeTypes, StoreDriftTypes, AnsweredTypes
<1>2. CASE UNCHANGED settingsVars
  BY <1>2 DEF settingsVars, terminalVars, serverVars, pageVars, history, SettingsTypeOK
<1> QED  BY <1>1, <1>2, TerminalTypes, CrashTypes, QueueElsewhereTypes, PollTypes, PageTypes,
            StartTypes, QueueNextTypes, CallEndTypes
         DEF SettingsNext, PageStep, PollDevice, PollSettings

\* The invariant of the settings holds at first,
LEMMA SettingsInvInit == SettingsInit => SettingsInv
<1> SUFFICES ASSUME SettingsInit PROVE SettingsInv
  OBVIOUS
<1>1. PageFilled /\ PushUnderWay /\ PushOnRecord
  BY DEF SettingsInit, NoSettings, PageFilled, PushUnderWay, PushOnRecord
<1>2. DOMAIN NetworkCard = {} /\ \A s \in Slots : answering[s] = Null
  BY DEF SettingsInit, NoSettings, NoSection, NetworkCard
<1>3. SectionsInStep
  BY <1>2 DEF SectionsInStep, Merged, Holds
<1> QED  BY <1>1, <1>3, SettingsTypesInit DEF SettingsInv

\* and in every state that is reached.
LEMMA SettingsInvHolds == SettingsSpec => []SettingsInv
<1>1. SettingsInv /\ [SettingsNext]_settingsVars => SettingsInv'
  BY SettingsTypesKept, FilledKept, PushesKept, SectionsKept DEF SettingsInv
<1> QED  BY <1>1, SettingsInvInit, PTL DEF SettingsSpec

\* Every variable keeps its type, for any labels, offsets, reported values, uploads and
\* answers; the terminal has taken no command that is not in the table (devices.settings).
THEOREM SettingsTypeCorrect == SettingsSpec => []SettingsTypeOK
<1>1. SettingsInv => SettingsTypeOK
  BY DEF SettingsInv
<1> QED  BY <1>1, SettingsInvHolds, PTL

\* However pushes break off and other commands get between theirs, the push on record is
\* the three rows of one whole sequence for the recorded time (pushManualTime).
THEOREM PushesAreWhole == SettingsSpec => []PushedIsWhole
<1>1. SettingsInv => PushedIsWhole
  BY RecordIsWhole DEF SettingsInv
<1> QED  BY <1>1, SettingsInvHolds, PTL

\* Until two answers overlap or one is lost half way, whatever the terminal reports and in
\* whatever order, the two cards agree once an answer is done with, but for what the
\* terminal last told in answer to "Get options" (snapshotDeviceInfo, snapshotNetwork).
THEOREM CardsAgree == SettingsSpec => []SnapshotsAgree
<1>1. SettingsInv => SnapshotsAgree
  BY DEF SettingsInv, SectionsInStep, SnapshotsAgree, Merged, Holds
<1> QED  BY <1>1, SettingsInvHolds, PTL
=============================================================================
