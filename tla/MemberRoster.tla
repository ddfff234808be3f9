---------------------------- MODULE MemberRoster ----------------------------
(***************************************************************************)
(* The members of one tenant and the terminals they may use: employees,    *)
(* employee_devices and biometric_templates, written by the dashboard      *)
(* (employees.ts), by HR systems (the inbound API) and by the terminals    *)
(* themselves (OPERLOG), and the user commands that carry members to       *)
(* terminals one device at a time.                                         *)
(*                                                                         *)
(* One statement is one action, operations overlap.  A terminal is taken   *)
(* to wait for the answer to a heartbeat before the next, so it carries    *)
(* its commands out in order (InOrderWhenWaiting, CommandQueue_proofs):    *)
(* of those for one PIN the newest counts, unless it is lost.              *)
(***************************************************************************)
EXTENDS Integers, FiniteSets

CONSTANTS Members,    \* ids a row of employees may get; none comes back
          Pins,
          Profiles,   \* name, privilege and card
          plain,      \* a profile with its privilege and card dropped
          Externals,  \* ids HR systems have for members
          Devices,
          Ops,        \* operations that may be open at once
          None, Gone,
          Budget      \* bound on failing statements and crashes

ASSUME RosterAssumption ==
    /\ plain \in [Profiles -> Profiles]
    /\ None \notin Members \cup Pins \cup Profiles \cup Externals \cup Devices \cup {Gone}
    /\ Gone \notin Profiles
    /\ Budget \in Nat

VARIABLES born,      \* ids that were used
          pin,       \* employees.pin, None where there is no row
          profile, external,
          links,     \* employee_devices
          template, flag, \* members with a biometric row, with the flag set
          newest,    \* the newest user command each device was queued for a PIN
          owed,      \* <<device, PIN>> whose newest command is still on its way
          pushed,    \* history: <<member, device>> for which an add was queued
          holds,     \* the devices' own user tables
          strayed,   \* history: <<device, PIN>> edited at the device or left by
                     \* a command that was lost, and not put right since
          online,    \* devices with status online (and enabled)
          op,        \* the open operations: where they are, what they know
          calm,      \* history: no two operations overlapped, none failed, no
                     \* PIN changed
          spent

rowVars == <<born, pin, profile, external>>
bioVars == <<template, flag>>
commandVars == <<newest, owed, pushed, holds, strayed>>
vars == <<rowVars, links, bioVars, commandVars, online, op, calm, spent>>

Kinds == {"none", "enroll", "update", "push", "biometrics", "delete", "move", "copy",
          "inbound", "record"}
Places == {"idle", "write", "pin", "links", "templates", "push", "link", "unlink",
           "next", "byExternal", "byPin", "upsert", "template", "flag"}
Commands == Profiles \cup {Gone}

\* What a handler has in its locals: the row's id and PIN, the command it
\* queues, the devices left, the one to be linked, the one to be left, and
\* for a POST the external id and the devices found online when it came.
Operation == [at : Places, kind : Kinds, who : Members \cup {None}, pin : Pins \cup {None},
              cmd : Commands \cup {None}, todo : SUBSET Devices, dev : Devices \cup {None},
              from : Devices \cup {None}, external : Externals \cup {None},
              seen : SUBSET Devices]

Idle == [at |-> "idle", kind |-> "none", who |-> None, pin |-> None, cmd |-> None,
         todo |-> {}, dev |-> None, from |-> None, external |-> None, seen |-> {}]

Rows == {m \in Members : pin[m] # None}

TypeOK ==
    /\ born \subseteq Members
    /\ pin \in [Members -> Pins \cup {None}]
    /\ profile \in [Members -> Profiles \cup {None}]
    /\ external \in [Members -> Externals \cup {None}]
    /\ links \subseteq Rows \X Devices
    /\ template \subseteq Rows /\ flag \subseteq Rows
    /\ newest \in [Devices -> [Pins -> Commands \cup {None}]]
    /\ pushed \subseteq Members \X Devices
    /\ holds \in [Devices -> [Pins -> Profiles \cup {None}]]
    /\ owed \cup strayed \subseteq (Devices \cup {None}) \X (Pins \cup {None})
    /\ online \subseteq Devices
    /\ op \in [Ops -> Operation]
    /\ calm \in BOOLEAN
    /\ spent \in 0 .. Budget
    /\ Rows \subseteq born
    /\ \A m, n \in Rows : pin[m] = pin[n] => m = n

Init ==
    /\ born = {}
    /\ pin = [m \in Members |-> None]
    /\ profile = [m \in Members |-> None]
    /\ external = [m \in Members |-> None]
    /\ links = {} /\ template = {} /\ flag = {}
    /\ newest = [d \in Devices |-> [p \in Pins |-> None]]
    /\ pushed = {} /\ owed = {} /\ strayed = {}
    /\ holds = [d \in Devices |-> [p \in Pins |-> None]]
    /\ online \in SUBSET Devices
    /\ op = [o \in Ops |-> Idle]
    /\ calm = TRUE
    /\ spent = 0

-----------------------------------------------------------------------------
(* Rows.  employees_pin_idx is the only unique index.                      *)

Taken(p, others) == \E m \in others : pin[m] = p

NewRow(m, p, f, e) ==
    /\ m \notin born /\ ~Taken(p, Rows)
    /\ born' = born \cup {m}
    /\ pin' = [pin EXCEPT ![m] = p]
    /\ profile' = [profile EXCEPT ![m] = f]
    /\ external' = [external EXCEPT ![m] = e]

\* employees.create.
Create(m, p, f) ==
    /\ NewRow(m, p, f, None)
    /\ UNCHANGED <<links, bioVars, commandVars, online, op, calm, spent>>

\* ingestOperlog: a user record of a terminal is upserted by PIN, whether the
\* record was sent there or typed in at the terminal.
Operlog(p, f) ==
    /\ \/ /\ \E m \in Rows : pin[m] = p /\ profile' = [profile EXCEPT ![m] = f]
          /\ UNCHANGED <<born, pin, external>>
       \/ \E m \in Members : NewRow(m, p, f, None)
    /\ UNCHANGED <<links, bioVars, commandVars, online, op, calm, spent>>

\* A device carries out the newest command for a PIN,
Made(c) == IF c \in Profiles THEN c ELSE None

Take(d, p) ==
    /\ <<d, p>> \in owed
    /\ holds' = [holds EXCEPT ![d][p] = Made(newest[d][p])]
    /\ owed' = owed \ {<<d, p>>}
    /\ strayed' = strayed \ {<<d, p>>}
    /\ UNCHANGED <<rowVars, links, bioVars, newest, pushed, online, op, calm, spent>>

\* or it never does: the command expires, is cancelled or fails.
Lose(d, p) ==
    /\ <<d, p>> \in owed
    /\ owed' = owed \ {<<d, p>>}
    /\ strayed' = strayed \cup {<<d, p>>}
    /\ UNCHANGED <<rowVars, links, bioVars, newest, pushed, holds, online, op, calm, spent>>

\* Somebody enters, changes or deletes a user at the device itself; what
\* ingestOperlog makes of it comes on its own.
EditThere(d, p) ==
    /\ \E f \in Profiles \cup {None} : holds' = [holds EXCEPT ![d][p] = f]
    /\ strayed' = strayed \cup {<<d, p>>}
    /\ UNCHANGED <<rowVars, links, bioVars, newest, owed, pushed, online, op, calm, spent>>

\* A device comes or goes, or is paused or resumed.
SetOnline(d) ==
    /\ online' \in {online \cup {d}, online \ {d}}
    /\ UNCHANGED <<rowVars, links, bioVars, commandVars, op, calm, spent>>

-----------------------------------------------------------------------------
(* Operations begin                                                        *)

Begin(o, r) ==
    /\ op[o] = Idle
    /\ op' = [op EXCEPT ![o] = r]
    /\ calm' = (calm /\ \A q \in Ops : op[q] = Idle)
Go(o, r) == op' = [op EXCEPT ![o] = r]
End(o) == op' = [op EXCEPT ![o] = Idle]

\* createForEnrollment; the SELECT before the INSERT finds what the index
\* finds.
Enroll(o, m, p, f, ds) ==
    /\ NewRow(m, p, f, None)
    /\ Begin(o, [Idle EXCEPT !.at = "push", !.kind = "enroll", !.who = m, !.pin = p,
                             !.cmd = f, !.todo = ds])
    /\ UNCHANGED <<links, bioVars, commandVars, online, spent>>

\* update reads the row to fill in what the input leaves out.
StartUpdate(o, m, f) ==
    /\ m \in Rows
    /\ Begin(o, [Idle EXCEPT !.at = "write", !.kind = "update", !.who = m, !.cmd = f])
    /\ UNCHANGED <<rowVars, links, bioVars, commandVars, online, spent>>

\* pushUpdateToDevices, as the dashboard calls it.
StartPush(o, m) ==
    /\ m \in Rows
    /\ Begin(o, [Idle EXCEPT !.at = "links", !.kind = "push", !.who = m, !.pin = pin[m],
                             !.cmd = profile[m]])
    /\ UNCHANGED <<rowVars, links, bioVars, commandVars, online, spent>>

\* pushBiometricsToDevices queues a user record without the privilege.
StartBiometrics(o, m, ds) ==
    /\ m \in Rows
    /\ Begin(o, [Idle EXCEPT !.at = "templates", !.kind = "biometrics", !.who = m,
                             !.pin = pin[m], !.cmd = plain[profile[m]], !.todo = ds])
    /\ UNCHANGED <<rowVars, links, bioVars, commandVars, online, spent>>

\* delete with alsoRemoveFromDevices, behind the operator password.
StartDelete(o, m) ==
    /\ m \in Rows
    /\ Begin(o, [Idle EXCEPT !.at = "links", !.kind = "delete", !.who = m, !.pin = pin[m],
                             !.cmd = Gone])
    /\ UNCHANGED <<rowVars, links, bioVars, commandVars, online, spent>>

\* transfer from c to d.
StartTransfer(o, m, c, d) ==
    /\ m \in Rows /\ c # d
    /\ \E k \in {"move", "copy"} :
           Begin(o, [Idle EXCEPT !.at = "push", !.kind = k, !.who = m, !.pin = pin[m],
                                 !.cmd = profile[m], !.todo = {d}, !.from = c])
    /\ UNCHANGED <<rowVars, links, bioVars, commandVars, online, spent>>

\* ingestBioRecords finds the member of a PIN.
StartRecord(o, m) ==
    /\ m \in Rows
    /\ Begin(o, [Idle EXCEPT !.at = "template", !.kind = "record", !.who = m, !.pin = pin[m]])
    /\ UNCHANGED <<rowVars, links, bioVars, commandVars, online, spent>>

\* POST of the inbound API; its devices are read once for all its members.
StartInbound(o) ==
    /\ Begin(o, [Idle EXCEPT !.at = "next", !.kind = "inbound", !.seen = online])
    /\ UNCHANGED <<rowVars, links, bioVars, commandVars, online, spent>>

-----------------------------------------------------------------------------
(* Operations go on                                                        *)

WriteProfile(o) ==
    /\ op[o].at = "write"
    /\ profile' = IF op[o].who \in Rows THEN [profile EXCEPT ![op[o].who] = op[o].cmd]
                  ELSE profile
    /\ Go(o, [op[o] EXCEPT !.at = "pin"])
    /\ UNCHANGED <<born, pin, external, links, bioVars, commandVars, online, calm, spent>>

ReadPin(o) ==
    /\ op[o].at = "pin"
    /\ Go(o, [op[o] EXCEPT !.at = "links", !.pin = pin[op[o].who]])
    /\ UNCHANGED <<rowVars, links, bioVars, commandVars, online, calm, spent>>

\* The devices of a member, and those that happen to be reachable.
ReachableDevices(m) == {d \in online : <<m, d>> \in links}
TargetDevices(m) == {d \in Devices : <<m, d>> \in links}

ReadLinks(o) ==
    /\ op[o].at = "links"
    /\ Go(o, [op[o] EXCEPT !.at = "push", !.todo = TargetDevices(op[o].who)])
    /\ UNCHANGED <<rowVars, links, bioVars, commandVars, online, calm, spent>>

\* There may be none of the kinds asked for, or none with its data.
ReadTemplates(o) ==
    /\ op[o].at = "templates"
    /\ \/ op[o].who \in template /\ Go(o, [op[o] EXCEPT !.at = "push"])
       \/ End(o)
    /\ UNCHANGED <<rowVars, links, bioVars, commandVars, online, calm, spent>>

\* queueCommand for the next device; some operations then link it.
LinkingKinds == {"enroll", "biometrics", "move", "copy", "inbound"}

QueueNext(o) ==
    /\ op[o].at = "push"
    /\ \E d \in op[o].todo :
           /\ newest' = [newest EXCEPT ![d][op[o].pin] = op[o].cmd]
           /\ owed' = owed \cup {<<d, op[o].pin>>}
           /\ pushed' = IF op[o].cmd = Gone THEN pushed ELSE pushed \cup {<<op[o].who, d>>}
           /\ Go(o, IF op[o].kind \in LinkingKinds
                    THEN [op[o] EXCEPT !.at = "link", !.todo = @ \ {d}, !.dev = d]
                    ELSE [op[o] EXCEPT !.todo = @ \ {d}])
    /\ UNCHANGED <<rowVars, links, bioVars, holds, strayed, online, calm, spent>>

\* A POST goes on with its next member, whether this one worked or not.
Leave(o) ==
    IF op[o].kind = "inbound" THEN Go(o, [Idle EXCEPT !.at = "next", !.kind = "inbound",
                                                      !.seen = op[o].seen])
    ELSE End(o)

\* The row a statement of o finds by the id it read, and by the PIN.
HasItsPin(o) == {m \in Rows : pin[m] = op[o].pin}
StillThere(o) == Rows \cap {op[o].who}

LinkDevice(o) ==
    /\ op[o].at = "link"
    /\ links' = links \cup (StillThere(o) \X {op[o].dev})
    /\ \/ StillThere(o) # {} /\ Go(o, [op[o] EXCEPT !.at = "push", !.dev = None])
       \/ StillThere(o) = {} /\ Leave(o)
    /\ UNCHANGED <<rowVars, bioVars, commandVars, online, calm, spent>>

AllPushed(o) == op[o].at = "push" /\ op[o].todo = {}

FinishPush(o) ==
    /\ AllPushed(o) /\ op[o].kind \notin {"delete", "move"}
    /\ Leave(o)
    /\ UNCHANGED <<rowVars, links, bioVars, commandVars, online, calm, spent>>

\* Foreign keys take the rows of the other tables with it.
DeleteRow(o) ==
    LET m == op[o].who IN
    /\ AllPushed(o) /\ op[o].kind = "delete"
    /\ pin' = [pin EXCEPT ![m] = None]
    /\ profile' = [profile EXCEPT ![m] = None]
    /\ external' = [external EXCEPT ![m] = None]
    /\ links' = {l \in links : l[1] # m}
    /\ template' = template \ {m} /\ flag' = flag \ {m}
    /\ End(o)
    /\ UNCHANGED <<born, commandVars, online, calm, spent>>

QueueRemoval(o) ==
    /\ AllPushed(o) /\ op[o].kind = "move"
    /\ newest' = [newest EXCEPT ![op[o].from][op[o].pin] = Gone]
    /\ owed' = owed \cup {<<op[o].from, op[o].pin>>}
    /\ Go(o, [op[o] EXCEPT !.at = "unlink"])
    /\ UNCHANGED <<rowVars, links, bioVars, pushed, holds, strayed, online, calm, spent>>

DropLink(o) == links \ {<<op[o].who, op[o].from>>}

Unlink(o) ==
    /\ op[o].at = "unlink"
    /\ links' = DropLink(o)
    /\ End(o)
    /\ UNCHANGED <<rowVars, bioVars, commandVars, online, calm, spent>>

StoreTemplate(o) ==
    /\ op[o].at = "template"
    /\ template' = template \cup StillThere(o)
    /\ \/ StillThere(o) # {} /\ Go(o, [op[o] EXCEPT !.at = "flag"])
       \/ StillThere(o) = {} /\ End(o)
    /\ UNCHANGED <<rowVars, links, flag, commandVars, online, calm, spent>>

SetFlag(o) ==
    /\ op[o].at = "flag"
    /\ flag' = flag \cup StillThere(o)
    /\ End(o)
    /\ UNCHANGED <<rowVars, links, template, commandVars, online, calm, spent>>

-----------------------------------------------------------------------------
(* The inbound API takes its members one by one                            *)

NextMember(o, p, f, e, ds) ==
    /\ op[o].at = "next"
    /\ Go(o, [op[o] EXCEPT !.at = IF e = None THEN "byPin" ELSE "byExternal", !.pin = p,
                           !.cmd = f, !.external = e, !.todo = ds \cap op[o].seen])
    /\ UNCHANGED <<rowVars, links, bioVars, commandVars, online, calm, spent>>

EndInbound(o) ==
    /\ op[o].at = "next"
    /\ End(o)
    /\ UNCHANGED <<rowVars, links, bioVars, commandVars, online, calm, spent>>

\* The member with the external id, and with the PIN too.
HasExternalAndPin(o, m) == external[m] = op[o].external /\ pin[m] = op[o].pin
HasExternal(o, m) == external[m] = op[o].external

FindByExternal(o) ==
    /\ op[o].at = "byExternal"
    /\ \/ \E m \in Rows : HasExternal(o, m) /\ Go(o, [op[o] EXCEPT !.at = "upsert", !.who = m])
       \/ /\ \A m \in Rows : ~HasExternal(o, m)
          /\ Go(o, [op[o] EXCEPT !.at = "byPin"])
    /\ UNCHANGED <<rowVars, links, bioVars, commandVars, online, calm, spent>>

\* A row with the PIN is taken, or claimed if it has no external id yet.
\* One with this very id can only have got it since: like none, it leads to
\* an INSERT.
FindByPin(o) ==
    LET e == op[o].external
        Holders == {m \in Rows : pin[m] = op[o].pin}
    IN
    /\ op[o].at = "byPin"
    /\ \/ \E m \in Holders : /\ e = None \/ external[m] = None
                             /\ Go(o, [op[o] EXCEPT !.at = "upsert", !.who = m])
       \/ \E m \in Holders : e # None /\ external[m] \notin {None, e} /\ Leave(o)
       \/ /\ \A m \in Holders : e # None /\ external[m] = e
          /\ Go(o, [op[o] EXCEPT !.at = "upsert"])
    /\ UNCHANGED <<rowVars, links, bioVars, commandVars, online, calm, spent>>

InsertMember(o, m) ==
    /\ op[o].at = "upsert" /\ op[o].who = None
    /\ NewRow(m, op[o].pin, op[o].cmd, op[o].external)
    /\ Go(o, [op[o] EXCEPT !.at = "push", !.who = m])
    /\ UNCHANGED <<links, bioVars, commandVars, online, calm, spent>>

\* An UPDATE of a row that is gone does nothing and raises nothing.
UpdateMember(o) ==
    LET m == op[o].who
        Overwritten == m \in Rows
    IN
    /\ op[o].at = "upsert" /\ m # None
    /\ ~Taken(op[o].pin, Rows \ {m})
    /\ pin' = IF Overwritten THEN [pin EXCEPT ![m] = op[o].pin] ELSE pin
    /\ profile' = IF Overwritten THEN [profile EXCEPT ![m] = op[o].cmd] ELSE profile
    /\ external' = IF Overwritten THEN [external EXCEPT ![m] = op[o].external] ELSE external
    /\ calm' = (calm /\ pin[m] = op[o].pin)
    /\ Go(o, [op[o] EXCEPT !.at = "push"])
    /\ UNCHANGED <<born, links, bioVars, commandVars, online, spent>>

UpsertConflicts(o) ==
    /\ op[o].at = "upsert"
    /\ Taken(op[o].pin, Rows \ {op[o].who})
    /\ Leave(o)
    /\ UNCHANGED <<rowVars, links, bioVars, commandVars, online, calm, spent>>

-----------------------------------------------------------------------------
\* A statement of o throws, or its process dies.
OpFails(o) ==
    /\ op[o] # Idle /\ spent < Budget
    /\ spent' = spent + 1
    /\ calm' = FALSE
    /\ End(o) \/ Leave(o)
    /\ UNCHANGED <<rowVars, links, bioVars, commandVars, online>>

Targets == (SUBSET Devices) \ {{}}

Start(o) ==
    \/ \E m \in Members, p \in Pins, f \in Profiles, ds \in Targets : Enroll(o, m, p, f, ds)
    \/ \E m \in Members : \/ StartPush(o, m) \/ StartDelete(o, m) \/ StartRecord(o, m)
                          \/ \E f \in Profiles : StartUpdate(o, m, f)
                          \/ \E ds \in Targets : StartBiometrics(o, m, ds)
                          \/ \E c, d \in Devices : StartTransfer(o, m, c, d)
    \/ StartInbound(o)

Continue(o) ==
    \/ WriteProfile(o) \/ ReadPin(o) \/ ReadLinks(o) \/ ReadTemplates(o)
    \/ QueueNext(o) \/ LinkDevice(o) \/ FinishPush(o) \/ DeleteRow(o)
    \/ QueueRemoval(o) \/ Unlink(o) \/ StoreTemplate(o) \/ SetFlag(o)
    \/ \E p \in Pins, f \in Profiles, e \in Externals \cup {None}, ds \in Targets :
           NextMember(o, p, f, e, ds)
    \/ EndInbound(o) \/ FindByExternal(o) \/ FindByPin(o)
    \/ \E m \in Members : InsertMember(o, m)
    \/ UpdateMember(o) \/ UpsertConflicts(o)

Next ==
    \/ \E m \in Members, p \in Pins, f \in Profiles : Create(m, p, f)
    \/ \E p \in Pins, f \in Profiles : Operlog(p, f)
    \/ \E d \in Devices : \/ SetOnline(d)
                          \/ \E p \in Pins : Take(d, p) \/ Lose(d, p) \/ EditThere(d, p)
    \/ \E o \in Ops : Start(o) \/ Continue(o) \/ OpFails(o)

Spec == Init /\ [][Next]_vars

-----------------------------------------------------------------------------
(* Properties                                                              *)

\* A link is never the first a device hears of a member: whatever overlaps
\* or fails, an add was queued before employee_devices says it is there.
LinkWasPushed == links \subseteq pushed

\* A biometric flag tells of a template that is stored, for a member who was
\* deleted and created anew meanwhile as well.
FlagMeansTemplate == flag \subseteq template

\* What operators get who work one after the other, without failures: a user
\* a device holds is a member's who has the PIN and is linked there, so that
\* a delete, which goes to the linked devices, leaves no user behind.  Not of
\* users somebody entered at the device, of whom a row is made but no link,
\* nor of those whose removal expired, was cancelled or failed: nothing in
\* the dashboard tells of either until the next command for the PIN is taken.
Quiet == calm /\ \A o \in Ops : op[o] = Idle
Settled(d, p) == <<d, p>> \notin owed \cup strayed
NoGhostUser ==
    Quiet => \A d \in Devices, p \in Pins :
        Settled(d, p) /\ holds[d][p] # None => \E m \in Rows : pin[m] = p /\ <<m, d>> \in links

\* And a linked device has the user, but for the same.
LinkedIsThere ==
    Quiet => \A l \in links : Settled(l[2], pin[l[1]]) => holds[l[2]][pin[l[1]]] # None

\* Of one operation at a time, an update of a profile, or a push of it, has
\* sent it to each of the member's devices that is not left to do.
UpdateReachesLinked ==
    calm => \A o \in Ops :
        op[o].at = "push" /\ op[o].kind \in {"update", "push"} =>
            \A d \in Devices : <<op[o].who, d>> \in links /\ d \notin op[o].todo
                                   => newest[d][op[o].pin] = op[o].cmd

\* An external id, the inbound API's upsert key, names one member.
ExternalIsUnique ==
    calm => \A m, n \in Rows : external[m] = external[n] /\ external[m] # None => m = n
=============================================================================
