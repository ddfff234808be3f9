----------------------------- MODULE DeviceStatus -----------------------------
(***************************************************************************)
(* Whether a terminal is thought to be there: the handshake and the        *)
(* heartbeat of apps/adms/src/services/device.service.ts stamp last_online *)
(* and the status, the timer of device-monitor.ts marks silent devices     *)
(* offline and fires a webhook at the tenant's integration, the dashboard's*)
(* refreshStatus writes the status it computed from an earlier read, and   *)
(* the device's own INFO line, stored by a write nobody awaits, tells its  *)
(* firmware family.                                                        *)
(*                                                                         *)
(* One statement is one action.  Time is a Tick that ages last_online;     *)
(* ages stop at Oldest, where nobody tells them apart any more.  Counters  *)
(* of users and templates, versions and addresses are payload.             *)
(***************************************************************************)
EXTENDS Integers, FiniteSets

CONSTANTS Tenants, Devices,
          ownerOf,     \* the tenant each device is paired with
          Typed,       \* devices whose handshake names their family
          Informative, \* devices whose INFO line names it
          Ticks,       \* monitor ticks that may run at once: setInterval waits for none
          Refreshes,   \* refreshStatus calls that may be open at once
          Timeout,     \* DEVICE_OFFLINE_TIMEOUT_MS
          RefreshTimeout, \* the 90 s that are written out in refreshStatus
          None,        \* no device
          Budget       \* bound on crashes and failing statements

ASSUME StatusAssumption ==
    /\ ownerOf \in [Devices -> Tenants]
    /\ None \notin Devices
    /\ Timeout \in Nat \ {0} /\ RefreshTimeout \in Nat \ {0} /\ Budget \in Nat

Oldest == IF RefreshTimeout > Timeout THEN RefreshTimeout ELSE Timeout + 1

Clients == {ownerOf[d] : d \in Devices}
DevicesOf(t) == {d \in Devices : ownerOf[d] = t}

VARIABLES tenant,   \* the tenant's row and schema
          hook,     \* clients whose integration has endpoint and token
          alive,    \* devices that are powered and connected
          seen, age, status, family, \* devices: last_online set, its age, ...
          infos,    \* devices with an INFO line parsed and not yet stored
          todo,     \* tenants each tick has left
          posts,    \* webhooks about the present silence, not yet sent
          asked, live, missed, \* an open refresh: device, verdict, contact since
          flips, sent, lost, \* offline webhooks since the last contact: fired, sent, lost
          revived,  \* times a refresh undid the monitor since that contact
          wronged,  \* devices a refresh marked offline over a newer contact
          hushed,   \* devices a refresh took offline before the monitor could
          spent     \* how much of Budget is used

tenantVars == <<tenant, hook>>
rowVars == <<seen, age, status, family>>
admsVars == <<infos, todo, posts>>
refreshVars == <<asked, live, missed>>
ghostVars == <<flips, sent, lost, revived, wronged, hushed>>
vars == <<tenantVars, alive, rowVars, admsVars, refreshVars, ghostVars, spent>>

\* "closing" and "gutted" are an active row whose schema is gone, while
\* tenants.delete still runs and after it died.
TenantStates == {"active", "suspended", "closing", "gutted", "deleted"}

TypeOK ==
    /\ tenant \in [Tenants -> TenantStates]
    /\ hook \subseteq Clients
    /\ alive \subseteq Devices /\ seen \subseteq Devices /\ infos \subseteq Devices
    /\ age \in [Devices -> 0 .. Oldest]
    /\ status \in [Devices -> {"never_seen", "online", "offline"}]
    /\ family \in [Devices -> {"unknown", "known"}]
    /\ todo \in [Ticks -> SUBSET Tenants]
    /\ posts \in [Devices -> Nat]
    /\ asked \in [Refreshes -> Devices \cup {None}]
    /\ live \in [Refreshes -> BOOLEAN]
    /\ missed \in [Refreshes -> BOOLEAN]
    /\ flips \in [Devices -> Nat] /\ revived \in [Devices -> Nat]
    /\ sent \subseteq Devices /\ lost \subseteq Devices
    /\ wronged \subseteq Devices /\ hushed \subseteq Devices
    /\ spent \in 0 .. Budget

Init ==
    /\ tenant = [t \in Tenants |-> "active"]
    /\ hook \in SUBSET Clients
    /\ alive = {} /\ seen = {} /\ infos = {}
    /\ age = [d \in Devices |-> 0]
    /\ status = [d \in Devices |-> "never_seen"]
    /\ family = [d \in Devices |-> "unknown"]
    /\ todo = [k \in Ticks |-> {}]
    /\ posts = [d \in Devices |-> 0]
    /\ asked = [r \in Refreshes |-> None]
    /\ live = [r \in Refreshes |-> FALSE]
    /\ missed = [r \in Refreshes |-> FALSE]
    /\ flips = [d \in Devices |-> 0]
    /\ revived = [d \in Devices |-> 0]
    /\ sent = {} /\ lost = {} /\ wronged = {} /\ hushed = {}
    /\ spent = 0

-----------------------------------------------------------------------------
(* The world: power, time, tenants                                         *)

Power(d) ==
    /\ alive' = IF d \in alive THEN alive \ {d} ELSE alive \cup {d}
    /\ UNCHANGED <<tenantVars, rowVars, admsVars, refreshVars, ghostVars, spent>>

Tick ==
    /\ \E d \in seen : age[d] < Oldest
    /\ age' = [d \in Devices |-> IF d \in seen /\ age[d] < Oldest THEN age[d] + 1 ELSE age[d]]
    /\ UNCHANGED <<tenantVars, alive, seen, status, family, admsVars, refreshVars, ghostVars,
                   spent>>

SetStatus(t) ==
    /\ tenant[t] \in {"active", "suspended"}
    /\ \E s \in {"active", "suspended"} : tenant' = [tenant EXCEPT ![t] = s]
    /\ UNCHANGED <<hook, alive, rowVars, admsVars, refreshVars, ghostVars, spent>>

\* tenants.setIntegration: an endpoint with its token, or kind 'none'.
SetIntegration(t) ==
    /\ hook' \in {hook \cup {t}, hook \ {t}}
    /\ UNCHANGED <<tenant, alive, rowVars, admsVars, refreshVars, ghostVars, spent>>

\* tenants.delete drops the schema, and in a statement of its own the row.
\* A suspended tenant is on no list, so only its row's end is told.
DropSchema(t) ==
    /\ tenant[t] \in {"active", "suspended", "gutted"}
    /\ tenant' = [tenant EXCEPT ![t] = IF @ = "suspended" THEN "deleted" ELSE "closing"]
    /\ UNCHANGED <<hook, alive, rowVars, admsVars, refreshVars, ghostVars, spent>>

FinishDelete(t) ==
    /\ tenant[t] = "closing"
    /\ tenant' = [tenant EXCEPT ![t] = "deleted"]
    /\ UNCHANGED <<hook, alive, rowVars, admsVars, refreshVars, ghostVars, spent>>

DeleteDies(t) ==
    /\ tenant[t] = "closing" /\ spent < Budget
    /\ tenant' = [tenant EXCEPT ![t] = "gutted"]
    /\ spent' = spent + 1
    /\ UNCHANGED <<hook, alive, rowVars, admsVars, refreshVars, ghostVars>>

-----------------------------------------------------------------------------
(* Requests of the device                                                  *)

HasSchema(t) == tenant[t] \in {"active", "suspended"}

\* A suspended tenant's device may still be in the router's cache.
Reaches(d) == d \in alive /\ HasSchema(ownerOf[d])

\* last_online = now() and status = 'online'; and without the status.
StampsAgeOnly(d) ==
    /\ seen' = seen \cup {d}
    /\ age' = [age EXCEPT ![d] = 0]
    /\ status' = IF d \in seen THEN status ELSE [status EXCEPT ![d] = "online"]
Stamps(d) ==
    /\ seen' = seen \cup {d}
    /\ age' = [age EXCEPT ![d] = 0]
    /\ status' = [status EXCEPT ![d] = "online"]

\* What is told of the silence before a contact does not matter after it.
Contact(d) ==
    /\ Reaches(d)
    /\ Stamps(d)
    /\ missed' = [r \in Refreshes |-> missed[r] \/ asked[r] = d]
    /\ flips' = [flips EXCEPT ![d] = 0]
    /\ revived' = [revived EXCEPT ![d] = 0]
    /\ posts' = [posts EXCEPT ![d] = 0]
    /\ sent' = sent \ {d} /\ lost' = lost \ {d}
    /\ wronged' = wronged \ {d} /\ hushed' = hushed \ {d}
    /\ UNCHANGED <<tenantVars, alive, todo, asked, live, spent>>

\* The family is written whatever it was: without a DeviceType that names it
\* detectFirmwareFamily says 'unknown', for the firmware version is not passed.
HandshakeFamily(d) == IF d \in Typed THEN "known" ELSE "unknown"

Handshake(d) ==
    /\ Contact(d)
    /\ family' = [family EXCEPT ![d] = HandshakeFamily(d)]
    /\ UNCHANGED infos

Heartbeat(d) ==
    /\ Contact(d)
    /\ infos' \in {infos, infos \cup {d}}
    /\ UNCHANGED family

\* parseInfoLine, started by a heartbeat that may long have been answered.
\* A family it cannot tell leaves the column alone.
InfoFamily(d) == IF d \in Informative THEN "known" ELSE family[d]

ApplyInfo(d) ==
    /\ d \in infos /\ HasSchema(ownerOf[d])
    /\ infos' = infos \ {d}
    /\ family' = [family EXCEPT ![d] = InfoFamily(d)]
    /\ UNCHANGED <<tenantVars, alive, seen, age, status, todo, posts, refreshVars, ghostVars,
                   spent>>

-----------------------------------------------------------------------------
(* The monitor's tick                                                      *)

Monitored == {t \in Tenants : tenant[t] \in {"active", "closing", "gutted"}}

ListTenants(k) ==
    /\ todo[k] = {} /\ Monitored # {}
    /\ todo' = [todo EXCEPT ![k] = Monitored]
    /\ UNCHANGED <<tenantVars, alive, rowVars, infos, posts, refreshVars, ghostVars, spent>>

\* last_online < now() - timeout, and a timeout in the wrong unit.
NeverTooOld(d) == age[d] > 2 * Timeout
TooOld(d) == age[d] > Timeout

\* The UPDATE asks for status 'online' in the statement that sets 'offline';
\* without that condition.
AnyTooOld(t) == {d \in DevicesOf(t) : d \notin seen \/ TooOld(d)}
ToFlip(t) == {d \in DevicesOf(t) : status[d] = "online" /\ (d \notin seen \/ TooOld(d))}

\* One UPDATE ... RETURNING for all devices of a tenant; each of the rows
\* starts a webhook that nobody waits for.
MarkOffline(k, t) ==
    /\ t \in todo[k] /\ HasSchema(t)
    /\ todo' = [todo EXCEPT ![k] = @ \ {t}]
    /\ status' = [d \in Devices |-> IF d \in ToFlip(t) THEN "offline" ELSE status[d]]
    /\ posts' = [d \in Devices |-> IF d \in ToFlip(t) THEN posts[d] + 1 ELSE posts[d]]
    /\ flips' = [d \in Devices |-> IF d \in ToFlip(t) THEN flips[d] + 1 ELSE flips[d]]
    /\ UNCHANGED <<tenantVars, alive, seen, age, family, infos, refreshVars, sent, lost,
                   revived, wronged, hushed, spent>>

\* One try block around the loop: a schema that is gone, or a statement that
\* fails, ends the tick for the tenants after it.
TickGivesUp(k) ==
    /\ todo[k] # {}
    /\ \/ /\ \E t \in todo[k] : ~HasSchema(t)
          /\ UNCHANGED spent
       \/ spent < Budget /\ spent' = spent + 1
    /\ todo' = [todo EXCEPT ![k] = {}]
    /\ UNCHANGED <<tenantVars, alive, rowVars, infos, posts, refreshVars, ghostVars>>

\* emitDeviceStatusChange reads the tenant's row again: one that is not
\* active or has no integration hears nothing.  What becomes of the POST
\* changes nothing here.
Emit(d) ==
    /\ posts[d] > 0
    /\ posts' = [posts EXCEPT ![d] = @ - 1]
    /\ sent' = IF tenant[ownerOf[d]] = "active" /\ ownerOf[d] \in hook
               THEN sent \cup {d} ELSE sent
    /\ UNCHANGED <<tenantVars, alive, rowVars, infos, todo, refreshVars, flips, lost, revived,
                   wronged, hushed, spent>>

EmitFails(d) ==
    /\ posts[d] > 0 /\ spent < Budget
    /\ posts' = [posts EXCEPT ![d] = @ - 1]
    /\ lost' = lost \cup {d}
    /\ spent' = spent + 1
    /\ UNCHANGED <<tenantVars, alive, rowVars, infos, todo, refreshVars, flips, sent, revived,
                   wronged, hushed>>

\* The process stops, by itself or because a stored INFO line failed: that
\* promise has no catch and Node ends on an unhandled rejection.  It is
\* started again.
Stop ==
    /\ infos' = {}
    /\ todo' = [k \in Ticks |-> {}]
    /\ posts' = [d \in Devices |-> 0]
    /\ lost' = lost \cup {d \in Devices : posts[d] > 0}
    /\ UNCHANGED <<tenantVars, alive, rowVars, refreshVars, flips, sent, revived, wronged,
                   hushed>>

AdmsCrash ==
    /\ spent < Budget
    /\ spent' = spent + 1
    /\ Stop

InfoFails(d) ==
    /\ d \in infos /\ ~HasSchema(ownerOf[d])
    /\ UNCHANGED spent
    /\ Stop

-----------------------------------------------------------------------------
(* refreshStatus, a SELECT and an UPDATE                                   *)

\* The age is rounded to whole seconds: an age of a moment less than the
\* timeout may pass for the timeout.
Verdicts(d) == {(d \in seen /\ age[d] + early < RefreshTimeout) : early \in {0, 1}}

RefreshRead(r, d) ==
    /\ asked[r] = None /\ HasSchema(ownerOf[d])
    /\ asked' = [asked EXCEPT ![r] = d]
    /\ \E verdict \in Verdicts(d) : live' = [live EXCEPT ![r] = verdict]
    /\ missed' = [missed EXCEPT ![r] = FALSE]
    /\ UNCHANGED <<tenantVars, alive, rowVars, admsVars, ghostVars, spent>>

RefreshWrite(r) ==
    LET d == asked[r]
        verdict == IF live[r] THEN "online" ELSE "offline"
    IN  /\ d # None /\ HasSchema(ownerOf[d])
        /\ status' = [status EXCEPT ![d] = verdict]
        /\ revived' = IF live[r] /\ status[d] # "online" /\ flips[d] > revived[d]
                      THEN [revived EXCEPT ![d] = @ + 1] ELSE revived
        /\ wronged' = IF ~live[r] /\ missed[r] THEN wronged \cup {d} ELSE wronged
        /\ hushed' = IF ~live[r] /\ status[d] = "online" THEN hushed \cup {d} ELSE hushed
        /\ asked' = [asked EXCEPT ![r] = None]
        /\ live' = [live EXCEPT ![r] = FALSE]
        /\ missed' = [missed EXCEPT ![r] = FALSE]
        /\ UNCHANGED <<tenantVars, alive, seen, age, family, admsVars, flips, sent, lost, spent>>

-----------------------------------------------------------------------------
MonitorStep(k) == ListTenants(k) \/ TickGivesUp(k) \/ \E t \in todo[k] : MarkOffline(k, t)

Next ==
    \/ \E d \in Devices : Power(d)
    \/ Tick
    \/ \E t \in Tenants : SetStatus(t) \/ DropSchema(t) \/ FinishDelete(t) \/ DeleteDies(t)
    \/ \E t \in Clients : SetIntegration(t)
    \/ \E d \in Devices : Handshake(d) \/ Heartbeat(d) \/ ApplyInfo(d) \/ Emit(d)
                          \/ EmitFails(d)
    \/ \E k \in Ticks : ListTenants(k) \/ TickGivesUp(k)
    \/ \E k \in Ticks : \E t \in todo[k] : MarkOffline(k, t)
    \/ AdmsCrash
    \/ \E d \in Devices : InfoFails(d)
    \/ \E r \in Refreshes, d \in Devices : RefreshRead(r, d)
    \/ \E r \in Refreshes : RefreshWrite(r)

Spec == Init /\ [][Next]_vars

\* setInterval starts a tick again and again, Node goes on with what was
\* started, and time passes.  Nothing else has to happen.
FairSpec ==
    /\ Spec
    /\ WF_vars(Tick)
    /\ \A k \in Ticks : WF_vars(MonitorStep(k))
    /\ \A d \in Devices : WF_vars(Emit(d)) /\ WF_vars(ApplyInfo(d))

-----------------------------------------------------------------------------
(* Properties                                                              *)

\* A device heard of within both timeouts, by a moment's margin in that of
\* refreshStatus, is shown online, unless a refresh that had read before that
\* contact wrote its verdict after it.
Fresh(n) == n <= Timeout /\ n + 1 < RefreshTimeout
FreshIsOnline ==
    \A d \in seen : Fresh(age[d]) /\ d \notin wronged => status[d] = "online"

\* One silence is one offline event for the integration, however monitor
\* ticks overlap, and one more for each time a refresh with an old verdict
\* brought the device back in between.
OneNoticePerSilence == \A d \in Devices : flips[d] <= 1 + revived[d]

\* Offline detection is out of order while a half-deleted tenant is listed:
\* its schema is gone, and every tick may end there.
Stuck == \E t \in Tenants : tenant[t] \in {"closing", "gutted"}
Watched(d) == tenant[ownerOf[d]] = "active" /\ ~Stuck

\* A device that is shown online and has gone silent is told to its tenant's
\* integration, unless it returns, an operator's refresh was first, the
\* process died on the way, or the tenant is no longer there to be told.
SilenceIsNoticed ==
    \A d \in Devices : status[d] = "online" /\ d \notin alive ~>
        \/ d \in sent \cup alive \cup hushed \cup lost
        \/ ~Watched(d) \/ ownerOf[d] \notin hook
=============================================================================
