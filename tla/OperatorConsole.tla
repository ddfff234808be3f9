--------------------------- MODULE OperatorConsole ---------------------------
(***************************************************************************)
(* The dashboard's commanding side: the tRPC mutations under               *)
(* apps/web/src/server/routers that reach a terminal, correct a punch,     *)
(* rotate the operator password or rearrange devices and groups.  Each     *)
(* runs the same gauntlet, in its own order: assertDeviceOnline, the       *)
(* SELECT of the password's hash, the scrypt comparison, the statements    *)
(* that do the work, and one INSERT into audit_log at the end.             *)
(*                                                                         *)
(* A call is one request; it is made once.  One statement is one action,   *)
(* so the device, the group and the password may change between any two    *)
(* statements of a call.  Devices are never deleted, so getDeviceContext   *)
(* always finds its row.  Command ids and a command's life once queued are *)
(* module CommandQueue's; names, reasons, timezones and settings are data. *)
(***************************************************************************)
EXTENDS Integers, FiniteSets

CONSTANTS Calls, Devices, Groups, Punches, Passwords,
          Batch,   \* commands of one queryDeviceInfo or setManualTime
          None,    \* no device, group, password or call
          Budget   \* bound on failing statements

ASSUME ConsoleAssumption ==
    /\ None \notin Calls \cup Devices \cup Groups \cup Punches \cup Passwords
    /\ Batch \in Nat \ {0} /\ Budget \in Nat

\* The mutations: "command" is a destructive queueCommand and "maintain" runMaintenance,
\* "query" a plain queueCommand or updateNtp, "info" queryDeviceInfo or setManualTime,
\* "recover" a rotation by a super-admin, who is asked for no password.
Single == {"command", "maintain", "query", "info"}
Bulk == {"bulkReboot", "bulkClearLog"}
Corrections == {"void", "insertManual"}
Edits == {"pause", "resume", "assign", "createGroup", "deleteGroup"}
Gated == {"command", "maintain", "rotate"} \cup Bulk \cup Corrections

\* Mutations that write an audit row about a wrong password.
Denying == {"command", "maintain", "bulkReboot", "void"}

\* on: the device, group or punch; to: a new password, or the group to assign;
\* offers: the password typed, which queueCommand's schema makes optional.
Requests ==
    [kind : {"command"}, on : Devices, to : {None}, offers : Passwords \cup {None}]
    \cup [kind : {"maintain"}, on : Devices, to : {None}, offers : Passwords]
    \cup [kind : {"query", "info", "pause", "resume"}, on : Devices, to : {None},
          offers : {None}]
    \cup [kind : Bulk, on : Groups, to : {None}, offers : Passwords]
    \cup [kind : {"void"}, on : Punches, to : {None}, offers : Passwords]
    \cup [kind : {"insertManual"}, on : Devices, to : {None}, offers : Passwords]
    \cup [kind : {"rotate"}, on : {None}, to : Passwords, offers : Passwords]
    \cup [kind : {"recover"}, on : {None}, to : Passwords, offers : {None}]
    \cup [kind : {"assign"}, on : Devices, to : Groups \cup {None}, offers : {None}]
    \cup [kind : {"createGroup", "deleteGroup"}, on : Groups, to : {None}, offers : {None}]

Jobs == Devices \X (1 .. Batch)

VARIABLES up, enabled,     \* devices whose row says online; devices not paused
          groupState, groupOf,
          password,        \* operator_password's row; None when create died before it
          voider,          \* voided_by of each punch
          manual,          \* calls whose punch was inserted
          queued,          \* commands each call has put in device_commands
          log,             \* each call's row in audit_log
          request, step, hash, todo,  \* a call's input, position and locals
          changed, failed, \* calls that wrote something; calls a statement of which failed
          ever, always,    \* devices eligible at some, at every moment of a call
          held,            \* passwords in force at some moment of a call
          spent            \* how much of Budget is used

fleetVars == <<up, enabled, groupState, groupOf>>
dataVars == <<voider, manual, queued>>
localVars == <<request, hash, todo>>
momentVars == <<ever, always, held>>
vars == <<fleetVars, password, dataVars, log, localVars, step, changed, failed, momentVars,
          spent>>

Steps == {"new", "guard", "hash", "verify", "deny", "list", "queue", "effect", "audit", "done"}

TypeOK ==
    /\ up \subseteq Devices /\ enabled \subseteq Devices
    /\ groupState \in [Groups -> {"unused", "there", "gone"}]
    /\ groupOf \in [Devices -> Groups \cup {None}]
    /\ password \in Passwords \cup {None}
    /\ voider \in [Punches -> Calls \cup {None}]
    /\ manual \subseteq Calls
    /\ queued \in [Calls -> SUBSET Jobs]
    /\ log \in [Calls -> {"none", "ok", "denied"}]
    /\ request \in [Calls -> Requests \cup {None}]
    /\ step \in [Calls -> Steps]
    /\ hash \in [Calls -> Passwords \cup {None}]
    /\ todo \in [Calls -> SUBSET Jobs]
    /\ changed \subseteq Calls /\ failed \subseteq Calls
    /\ ever \in [Calls -> SUBSET Devices] /\ always \in [Calls -> SUBSET Devices]
    /\ held \in [Calls -> SUBSET (Passwords \cup {None})]
    /\ spent \in 0 .. Budget

Init ==
    /\ up = {} /\ enabled = Devices
    /\ groupState \in [Groups -> {"unused", "there"}]
    /\ groupOf \in [Devices -> {g \in Groups : groupState[g] = "there"} \cup {None}]
    /\ password \in Passwords \cup {None}
    /\ voider = [p \in Punches |-> None]
    /\ manual = {}
    /\ queued = [c \in Calls |-> {}]
    /\ log = [c \in Calls |-> "none"]
    /\ request = [c \in Calls |-> None]
    /\ step = [c \in Calls |-> "new"]
    /\ hash = [c \in Calls |-> None]
    /\ todo = [c \in Calls |-> {}]
    /\ changed = {} /\ failed = {}
    /\ ever = [c \in Calls |-> {}] /\ always = [c \in Calls |-> {}]
    /\ held = [c \in Calls |-> {}]
    /\ spent = 0

Open(c) == step[c] \notin {"new", "done"}

\* The devices a request may command, given the rows of devices.
Standing(r, u, e, g) ==
    {d \in u \cap e : IF r.kind \in Bulk THEN g[d] = r.on
                     ELSE r.kind \in Single /\ d = r.on}

\* What every open call sees of a change to the rows of devices.
Observe ==
    /\ ever' = [c \in Calls |-> IF Open(c)
                                THEN ever[c] \cup Standing(request[c], up', enabled', groupOf')
                                ELSE ever[c]]
    /\ always' = [c \in Calls |-> IF Open(c)
                                  THEN always[c] \cap Standing(request[c], up', enabled', groupOf')
                                  ELSE always[c]]

-----------------------------------------------------------------------------
(* The world, and a call's first statements                                *)

\* A heartbeat, the offline monitor or refreshStatus writes devices.status.
StatusFlips(d) ==
    /\ up' = IF d \in up THEN up \ {d} ELSE up \cup {d}
    /\ UNCHANGED <<enabled, groupState, groupOf>>
    /\ Observe
    /\ UNCHANGED <<held, password, dataVars, log, localVars, step, changed, failed, spent>>

Call(c) ==
    /\ step[c] = "new"
    /\ \E r \in Requests :
        /\ request' = [request EXCEPT ![c] = r]
        /\ step' = [step EXCEPT ![c] = IF r.kind \in Single THEN "guard"
                                       ELSE IF r.kind \in Gated THEN "hash" ELSE "effect"]
        /\ ever' = [ever EXCEPT ![c] = Standing(r, up, enabled, groupOf)]
        /\ always' = [always EXCEPT ![c] = Standing(r, up, enabled, groupOf)]
        /\ held' = [held EXCEPT ![c] = IF r.kind \in Gated THEN {password} ELSE {}]
    /\ UNCHANGED <<fleetVars, password, dataVars, log, hash, todo, changed, failed, spent>>

\* The commands of a call to one device.
Planned(r) == {r.on} \X (IF r.kind = "info" THEN 1 .. Batch ELSE {1})

AssertDeviceOnline(c) ==
    /\ step[c] = "guard"
    /\ LET r == request[c]
           next == IF r.on \notin up \cap enabled THEN "done"
                   ELSE IF r.kind \in Gated THEN IF r.offers = None THEN "done" ELSE "hash"
                   ELSE "queue"
       IN /\ step' = [step EXCEPT ![c] = next]
          /\ todo' = [todo EXCEPT ![c] = IF next = "queue" THEN Planned(r) ELSE {}]
    /\ UNCHANGED <<fleetVars, password, dataVars, log, request, hash, changed, failed,
                   momentVars, spent>>

ReadHash(c) ==
    /\ step[c] = "hash"
    /\ hash' = [hash EXCEPT ![c] = password]
    /\ step' = [step EXCEPT ![c] = "verify"]
    /\ UNCHANGED <<fleetVars, password, dataVars, log, request, todo, changed, failed,
                   momentVars, spent>>

\* The scrypt comparison: a missing row is no match; and with one a match.
MissingMatches(r, h) == h \in {None, r.offers}
Matches(r, h) == h # None /\ r.offers = h

\* A destructive command without a reason is refused only now, and leaves no trace.
Verify(c) ==
    /\ step[c] = "verify"
    /\ LET r == request[c]
           nexts == IF ~Matches(r, hash[c])
                    THEN {IF r.kind \in Denying THEN "deny" ELSE "done"}
                    ELSE CASE r.kind \in Bulk -> {"list"}
                           [] r.kind = "command" -> {"queue", "done"}
                           [] r.kind = "maintain" -> {"queue"}
                           [] OTHER -> {"effect"}
       IN \E next \in nexts :
            /\ step' = [step EXCEPT ![c] = next]
            /\ todo' = [todo EXCEPT ![c] = IF next = "queue" THEN Planned(r) ELSE {}]
    /\ UNCHANGED <<fleetVars, password, dataVars, log, request, hash, changed, failed,
                   momentVars, spent>>

-----------------------------------------------------------------------------
(* The work: commands                                                      *)

\* The SELECT of the group's devices; and with devices that are paused or away.
ListsAll(r) == {d \in Devices : groupOf[d] = r.on}
Listed(r) == {d \in up \cap enabled : groupOf[d] = r.on}

ListGroup(c) ==
    /\ step[c] = "list"
    /\ todo' = [todo EXCEPT ![c] = Listed(request[c]) \X {1}]
    /\ step' = [step EXCEPT ![c] = IF Listed(request[c]) = {} THEN "audit" ELSE "queue"]
    /\ UNCHANGED <<fleetVars, password, dataVars, log, request, hash, changed, failed,
                   momentVars, spent>>

\* One turn of the loop around queueCommand, in the order of the batch; a loop that
\* leaves after its first turn; and a single command that goes unrecorded.
QueuesOne(c, j) ==
    /\ step[c] = "queue"
    /\ j \in todo[c] /\ \A i \in todo[c] : i[1] = j[1] => j[2] <= i[2]
    /\ queued' = [queued EXCEPT ![c] = @ \cup {j}]
    /\ todo' = [todo EXCEPT ![c] = {}]
    /\ step' = [step EXCEPT ![c] = "audit"]
    /\ changed' = changed \cup {c}
    /\ UNCHANGED <<fleetVars, password, voider, manual, log, request, hash, failed, momentVars,
                   spent>>
QueuesUnrecorded(c, j) ==
    /\ step[c] = "queue"
    /\ j \in todo[c] /\ \A i \in todo[c] : i[1] = j[1] => j[2] <= i[2]
    /\ queued' = [queued EXCEPT ![c] = @ \cup {j}]
    /\ todo' = [todo EXCEPT ![c] = @ \ {j}]
    /\ step' = [step EXCEPT ![c] = IF todo[c] # {j} THEN "queue"
                                   ELSE IF request[c].kind = "query" THEN "done" ELSE "audit"]
    /\ changed' = changed \cup {c}
    /\ UNCHANGED <<fleetVars, password, voider, manual, log, request, hash, failed, momentVars,
                   spent>>
Queue(c, j) ==
    /\ step[c] = "queue"
    /\ j \in todo[c] /\ \A i \in todo[c] : i[1] = j[1] => j[2] <= i[2]
    /\ queued' = [queued EXCEPT ![c] = @ \cup {j}]
    /\ todo' = [todo EXCEPT ![c] = @ \ {j}]
    /\ step' = [step EXCEPT ![c] = IF todo[c] = {j} THEN "audit" ELSE "queue"]
    /\ changed' = changed \cup {c}
    /\ UNCHANGED <<fleetVars, password, voider, manual, log, request, hash, failed, momentVars,
                   spent>>

-----------------------------------------------------------------------------
(* The work: punches, the password, devices and groups                     *)

\* UPDATE ... WHERE voided_at IS NULL, and NOT_FOUND when it changed no row.
Void(c) ==
    /\ step[c] = "effect" /\ request[c].kind = "void"
    /\ IF voider[request[c].on] = None
       THEN /\ voider' = [voider EXCEPT ![request[c].on] = c]
            /\ changed' = changed \cup {c}
            /\ step' = [step EXCEPT ![c] = "audit"]
       ELSE /\ step' = [step EXCEPT ![c] = "done"]
            /\ UNCHANGED <<voider, changed>>
    /\ UNCHANGED <<fleetVars, password, manual, queued, log, localVars, failed, momentVars,
                   spent>>

\* The member may be gone: NOT_FOUND.
InsertManual(c) ==
    /\ step[c] = "effect" /\ request[c].kind = "insertManual"
    /\ \/ /\ manual' = manual \cup {c}
          /\ changed' = changed \cup {c}
          /\ step' = [step EXCEPT ![c] = "audit"]
       \/ /\ step' = [step EXCEPT ![c] = "done"]
          /\ UNCHANGED <<manual, changed>>
    /\ UNCHANGED <<fleetVars, password, voider, queued, log, localVars, failed, momentVars,
                   spent>>

\* An UPDATE with no condition: where there is no row it writes none.
Rotate(c) ==
    /\ step[c] = "effect" /\ request[c].kind \in {"rotate", "recover"}
    /\ step' = [step EXCEPT ![c] = "audit"]
    /\ IF password = None
       THEN UNCHANGED <<password, held, changed>>
       ELSE /\ password' = request[c].to
            /\ held' = [k \in Calls |-> IF Open(k) /\ request[k].kind \in Gated
                                        THEN held[k] \cup {password'} ELSE held[k]]
            /\ changed' = changed \cup {c}
    /\ UNCHANGED <<fleetVars, dataVars, log, localVars, failed, ever, always, spent>>

SetEnabled(c) ==
    /\ step[c] = "effect" /\ request[c].kind \in {"pause", "resume"}
    /\ enabled' = IF request[c].kind = "pause" THEN enabled \ {request[c].on}
                  ELSE enabled \cup {request[c].on}
    /\ UNCHANGED <<up, groupState, groupOf>>
    /\ Observe
    /\ changed' = changed \cup {c}
    /\ step' = [step EXCEPT ![c] = "audit"]
    /\ UNCHANGED <<held, password, dataVars, log, localVars, failed, spent>>

\* The foreign key refuses a group that is not there.
AssignDevice(c) ==
    /\ step[c] = "effect" /\ request[c].kind = "assign"
    /\ LET g == request[c].to
       IN IF g # None /\ groupState[g] # "there"
          THEN /\ step' = [step EXCEPT ![c] = "done"]
               /\ UNCHANGED <<groupOf, changed, ever, always>>
          ELSE /\ groupOf' = [groupOf EXCEPT ![request[c].on] = g]
               /\ changed' = changed \cup {c}
               /\ step' = [step EXCEPT ![c] = "audit"]
               /\ UNCHANGED <<up, enabled>> /\ Observe
    /\ UNCHANGED <<up, enabled, groupState, held, password, dataVars, log, localVars, failed,
                   spent>>

CreateGroup(c) ==
    /\ step[c] = "effect" /\ request[c].kind = "createGroup"
    /\ groupState[request[c].on] = "unused"
    /\ groupState' = [groupState EXCEPT ![request[c].on] = "there"]
    /\ changed' = changed \cup {c}
    /\ step' = [step EXCEPT ![c] = "audit"]
    /\ UNCHANGED <<up, enabled, groupOf, password, dataVars, log, localVars, failed,
                   momentVars, spent>>

\* ON DELETE SET NULL; the audit row is written whether or not a row was there.
DeleteGroup(c) ==
    /\ step[c] = "effect" /\ request[c].kind = "deleteGroup"
    /\ groupState[request[c].on] \in {"there", "gone"}
    /\ groupState' = [groupState EXCEPT ![request[c].on] = "gone"]
    /\ groupOf' = [d \in Devices |-> IF groupOf[d] = request[c].on THEN None ELSE groupOf[d]]
    /\ UNCHANGED <<up, enabled>>
    /\ Observe
    /\ changed' = IF groupState[request[c].on] = "there" THEN changed \cup {c} ELSE changed
    /\ step' = [step EXCEPT ![c] = "audit"]
    /\ UNCHANGED <<held, password, dataVars, log, localVars, failed, spent>>

-----------------------------------------------------------------------------
(* The trail                                                               *)

LogOk(c) ==
    /\ step[c] = "audit"
    /\ log' = [log EXCEPT ![c] = "ok"]
    /\ step' = [step EXCEPT ![c] = "done"]
    /\ UNCHANGED <<fleetVars, password, dataVars, localVars, changed, failed, momentVars, spent>>

LogDenied(c) ==
    /\ step[c] = "deny"
    /\ log' = [log EXCEPT ![c] = "denied"]
    /\ step' = [step EXCEPT ![c] = "done"]
    /\ UNCHANGED <<fleetVars, password, dataVars, localVars, changed, failed, momentVars, spent>>

\* The statement a call is at fails, a lost race for a command id included; when the
\* web process stops, every open call does this.
Fail(c) ==
    /\ Open(c) /\ step[c] # "verify" /\ spent < Budget
    /\ step' = [step EXCEPT ![c] = "done"]
    /\ failed' = failed \cup {c}
    /\ spent' = spent + 1
    /\ UNCHANGED <<fleetVars, password, dataVars, log, localVars, changed, momentVars>>

Next ==
    \/ \E d \in Devices : StatusFlips(d)
    \/ \E c \in Calls :
        \/ Call(c) \/ AssertDeviceOnline(c) \/ ReadHash(c) \/ Verify(c) \/ ListGroup(c)
        \/ \E j \in Jobs : Queue(c, j)
        \/ Void(c) \/ InsertManual(c) \/ Rotate(c) \/ SetEnabled(c) \/ AssignDevice(c)
        \/ CreateGroup(c) \/ DeleteGroup(c)
        \/ LogOk(c) \/ LogDenied(c) \/ Fail(c)

Spec == Init /\ [][Next]_vars

-----------------------------------------------------------------------------
(* What the operators rely on                                              *)

\* However status, pauses and group assignments move under a call, every command it
\* queues is for a device that was online, not paused and, for a bulk action, in the
\* group at one moment of that call: neither the guard's early look nor the list a
\* loop works through is older than the call.
CommandsWereDue ==
    \A c \in Calls : \A j \in queued[c] : j[1] \in ever[c]

\* An audit row "ok" tells the whole truth about commands: a bulk action's row means
\* that every device which was in the group, online and enabled all through the call
\* has its command, a single device's that all commands of the batch are there.
AuditedIsDone ==
    \A c \in Calls : log[c] = "ok" =>
        /\ request[c].kind \in Bulk => always[c] \X {1} \subseteq queued[c]
        /\ request[c].kind \in Single => Planned(request[c]) \subseteq queued[c]

\* A call behind the operator password changes something only if the password offered
\* was in force at one moment of the call, however many rotations ran meanwhile: a
\* password rotated away before the call opens nothing, nor does a missing row.
OldPasswordsOpenNothing ==
    \A c \in changed : request[c].kind \in Gated => request[c].offers \in held[c] \ {None}

\* A change without its audit row, and a wrong password that should have left a row
\* and did not, are left by a failing statement only; a denied call changed nothing.
TrailIsComplete ==
    \A c \in Calls :
        /\ step[c] = "done" /\ c \in changed \ failed => log[c] = "ok"
        /\ log[c] = "denied" => c \notin changed
        /\ step[c] = "done" /\ request[c].kind \in Denying
             /\ hash[c] # None /\ ~Matches(request[c], hash[c])
             /\ c \notin failed => log[c] = "denied"

\* Of calls that void the same punch together only one is told it did, and the
\* punch's voided_by names that call: the trail and the row agree.
OneVoids ==
    \A c \in Calls : log[c] = "ok" /\ request[c].kind = "void" => voider[request[c].on] = c
=============================================================================
