--------------------------- MODULE DeviceSettings ---------------------------
(***************************************************************************)
(* What the server and a browser tab know of one terminal: the error of    *)
(* its clock, measured on punches and shown by the tab, and the options it *)
(* reports; all of it kept in sections of one JSON column,                 *)
(* devices.settings, that different statements merge into.  The terminal   *)
(* is told OK before its uploads and answers are worked on, so several of  *)
(* them can be under way, and a crash loses those that are.  The tab shows *)
(* one of two pages of the device, which share the last answer of          *)
(* devices.get but not what their cards remember.                          *)
(*                                                                         *)
(* A unit of time is a minute: the drift card's 30 seconds then mean "not  *)
(* zero" and the notification bar's 60 "more than one".  Offsets do not    *)
(* change with the season here (see AttendanceIngest for the change).  Of  *)
(* each bundle of options one or two keys stand for the rest.  That the    *)
(* terminal takes its commands in order is assumed: it does while it waits *)
(* for each heartbeat's answer (CommandQueue's InOrderWhenWaiting).        *)
(***************************************************************************)
EXTENDS Integers, Sequences, FiniteSets, SequencesExt

CONSTANTS Labels, Offset,     \* time zones, and what each adds to UTC
          Leads,              \* what the terminal's clock may be set to add to UTC
          Reported,           \* the values a terminal may report for its options
          Slots,              \* uploads and answers the server works on at a time
          Horizon, MaxHeld,   \* bounds: minutes, punches held by the terminal
          MaxChanges,             \* bound on what people change
          Null, Blank

ASSUME SettingsAssumption ==
    /\ Offset \in [Labels -> Int] /\ Leads \subseteq Int
    /\ Blank \in Reported
    /\ Horizon \in Nat /\ MaxHeld \in Nat \ {0} /\ MaxChanges \in Nat

VARIABLES now,          \* minutes of UTC
          lead,         \* what the terminal's clock adds to UTC
          held,         \* readings of punches the terminal has not got rid of
          option,       \* its options
          commands,     \* device_commands, in the order of command_id
          taken,        \* how many of them the terminal has taken
          label,        \* devices.timezone
          settings,     \* devices.settings
          measuring,    \* uploads: Null or the drift payload on its way
          answering,    \* answers: Null or what is left to do with one
          view,         \* the page that is open: "device", "settings" or "none"
          page,         \* the tab's last answer of devices.get, or Null
          mounted,      \* when the device page's clock was first drawn
          bar,          \* the notification bar names the terminal's clock
          chosen, fields, \* the time zone card's choice, the manual time card's fields
          call,         \* the mutation the tab waits for, or Null
          disturbed,    \* two answers were worked on at once, or one was not finished
          beside,       \* network keys whose value came last with an answer that is not
                        \* taken for one about the network
          changes

serverVars == <<label, settings, measuring, answering>>
pageVars == <<view, page, mounted, bar, chosen, fields, call>>
terminalVars == <<lead, held, option, commands, taken>>
history == <<disturbed, beside>>
settingsVars == <<now, terminalVars, serverVars, pageVars, history, changes>>

Network == {"address", "gateway"}
Options == {"address"}
Others == {"volume"}
Keys == Network \cup Others
Bundles == <<Network, Others>>
TimeSequence == <<"NetworkTimeSync", "DateTime", "RELOAD">>

Wall == now + lead
Query(keys) == [kind |-> "GET", keys |-> keys]
Push(step, value) == [kind |-> step, value |-> value]
Steps(value) == [i \in DOMAIN TimeSequence |-> Push(TimeSequence[i], value)]

-----------------------------------------------------------------------------
(* What the page makes of the row                                          *)

DriftSec == IF settings.clockDrift = Null THEN 0 ELSE settings.clockDrift.sec
deviceLocal == now + Offset[label] + DriftSec

\* The manual time card shows the estimate of the last poll; the clock above it
\* adds the time since it was first drawn.
Shown == page.estimate + (now - mounted)

Flagged == settings.clockDrift # Null
           /\ (settings.clockDrift.sec > 1 \/ settings.clockDrift.sec < -1)

\* The drift card: unknown, accurate or off by so much.
DriftCard == IF settings.clockDrift = Null THEN [state |-> "unknown"]
             ELSE IF settings.clockDrift.sec = 0 THEN [state |-> "accurate"]
             ELSE [state |-> "off", sec |-> settings.clockDrift.sec]

\* The info card leaves out blank values, the network card shows its section.
InfoCard == [k \in {x \in DOMAIN settings.deviceInfo : settings.deviceInfo[x] # Blank}
               |-> settings.deviceInfo[k]]
NetworkCard == settings.network

-----------------------------------------------------------------------------

Section(keys) == UNION {[D -> Reported] : D \in SUBSET keys}
ClockDrift == [sec : Int]
ManualPush == [dateTime : Int, queuedCommandIds : Seq(Nat)]
Settings == [clockDrift : ClockDrift \cup {Null}, deviceInfo : Section(Keys),
             network : Section(Network), lastManualTimePush : ManualPush \cup {Null}]
Asked == {Network, Options, Others}
Report == UNION {[keys -> Reported] : keys \in Asked}
Command == [kind : {"GET"}, keys : Asked]
           \cup [kind : {"NetworkTimeSync", "DateTime", "RELOAD"}, value : Int]
Answer == [step : {"status", "info", "network"}, report : Report]
ASSUME NullAssumption == Null \notin Answer
Card == [state : {"unknown", "accurate"}] \cup [state : {"off"}, sec : Int]
Page == [label : Labels, estimate : Int, at : 0 .. Horizon, drift : Card]
Call == [kind : {"time", "info", "network", "options"}, value : Int \cup {Null},
         left : Seq(Command), queued : Seq(Nat)]

SettingsTypeOK ==
    /\ now \in 0 .. Horizon /\ lead \in Int /\ held \in Seq(Int)
    /\ option \in [Keys -> Reported]
    /\ commands \in Seq(Command) /\ taken \in 0 .. Len(commands)
    /\ label \in Labels /\ settings \in Settings
    /\ measuring \in [Slots -> ClockDrift \cup {Null}]
    /\ answering \in [Slots -> Answer \cup {Null}]
    /\ view \in {"device", "settings", "none"}
    /\ page \in Page \cup {Null} /\ call \in Call \cup {Null}
    /\ mounted \in 0 .. Horizon /\ bar \in BOOLEAN /\ chosen \in Labels \cup {Null}
    /\ fields \in Int \cup {Null} /\ disturbed \in BOOLEAN /\ beside \subseteq Network
    /\ changes \in 0 .. MaxChanges

NoSection == [k \in {} |-> Blank]
NoSettings == [clockDrift |-> Null, deviceInfo |-> NoSection, network |-> NoSection,
               lastManualTimePush |-> Null]

SettingsInit ==
    /\ now = 0 /\ lead \in Leads /\ held = <<>> /\ commands = <<>> /\ taken = 0
    /\ option \in [Keys -> Reported]
    /\ label \in Labels /\ settings = NoSettings
    /\ measuring = [s \in Slots |-> Null] /\ answering = [s \in Slots |-> Null]
    /\ view \in {"device", "settings"} /\ page = Null /\ mounted = 0 /\ bar = FALSE
    /\ chosen = Null /\ fields = Null /\ call = Null
    /\ disturbed = FALSE /\ beside = {} /\ changes = 0

Change == changes < MaxChanges /\ changes' = changes + 1

-----------------------------------------------------------------------------
(* The terminal                                                            *)

MinutePasses ==
    /\ now < Horizon
    /\ now' = now + 1
    /\ UNCHANGED <<terminalVars, serverVars, pageVars, history, changes>>

\* Someone sets the clock or the options at the terminal's menu.
SetAtTerminal ==
    /\ Change
    /\ \/ lead' \in Leads \ {lead} /\ UNCHANGED option
       \/ \E k \in Keys : \E v \in Reported \ {option[k]} :
            option' = [option EXCEPT ![k] = v] /\ UNCHANGED lead
    /\ UNCHANGED <<now, held, commands, taken, serverVars, pageVars, history>>

Punch ==
    /\ Len(held) < MaxHeld
    /\ held' = Append(held, Wall)
    /\ UNCHANGED <<now, lead, option, commands, taken, serverVars, pageVars, history,
                   changes>>

\* ingestAttlog reads the zone in the same breath as it starts to measure the last
\* row of the upload; an upload whose OK is lost is sent again.
ReportedWall == Last(held)
UtcDrift == [sec |-> ReportedWall - now]
Drift == [sec |-> ReportedWall - (now + Offset[label])]
Upload(s, heard) ==
    /\ held # <<>> /\ measuring[s] = Null
    /\ measuring' = [measuring EXCEPT ![s] = Drift]
    /\ held' = IF heard THEN <<>> ELSE held
    /\ UNCHANGED <<now, lead, option, commands, taken, label, settings, answering,
                   pageVars, history, changes>>

\* The terminal takes the next command: it sets its clock, or answers a query.
Take(s) ==
    /\ taken < Len(commands)
    /\ taken' = taken + 1
    /\ IF commands[taken + 1].kind = "GET"
       THEN /\ answering[s] = Null
            /\ answering' = [answering EXCEPT ![s] =
                    [step |-> "status",
                     report |-> [k \in commands[taken + 1].keys |-> option[k]]]]
            /\ disturbed' = (disturbed \/ \E t \in Slots : answering[t] # Null)
            /\ UNCHANGED <<lead, beside>>
       ELSE /\ lead' = IF commands[taken + 1].kind = "DateTime"
                       THEN commands[taken + 1].value - now ELSE lead
            /\ UNCHANGED <<answering, history>>
    /\ UNCHANGED <<now, held, option, commands, label, settings, measuring, pageVars,
                   changes>>

-----------------------------------------------------------------------------
(* The server's half of uploads and answers                                *)

\* measureDriftFromPunch's UPDATE; its error is caught.
StoreDrift(s) ==
    /\ measuring[s] # Null
    /\ measuring' = [measuring EXCEPT ![s] = Null]
    /\ \/ settings' = [settings EXCEPT !.clockDrift = measuring[s]]
       \/ UNCHANGED settings
    /\ UNCHANGED <<now, terminalVars, label, answering, pageVars, history, changes>>

NonBlank(report) == [k \in {x \in DOMAIN report : report[x] # Blank} |-> report[k]]

\* snapshotDeviceInfo merges the keys that have a value; snapshotNetwork replaces
\* its section.
deviceInfoAfter(report) ==
    [k \in DOMAIN NonBlank(report) \cup DOMAIN settings.deviceInfo |->
        IF k \in DOMAIN NonBlank(report) THEN report[k] ELSE settings.deviceInfo[k]]
networkAfter(report) == NonBlank(report)
InfoReplaced(report) == [settings EXCEPT !.deviceInfo = NonBlank(report)]
WithInfo(report) == [settings EXCEPT !.deviceInfo = deviceInfoAfter(report)]
\* The pattern asks for a line that starts with one of the network's keys: the answer to
\* "Get options", which starts with the serial number, has the address and no such line.
Matched(report) == DOMAIN report = Network
WithNetwork(report) ==
    IF Matched(report)
    THEN [settings EXCEPT !.network = networkAfter(report)] ELSE settings
Told(report) == DOMAIN NonBlank(report) \cap Network
BesideAfter(report) ==
    IF Matched(report) THEN beside \ Told(report) ELSE beside \cup Told(report)

\* processCommandResult: a failed status UPDATE throws, a failed snapshot is logged.
Answered(s) ==
    LET job == answering[s]
        Goto(step) == answering' = [answering EXCEPT ![s].step = step]
        Done == answering' = [answering EXCEPT ![s] = Null]
    IN  /\ job # Null
        /\ \/ job.step = "status" /\ Goto("info") /\ UNCHANGED <<settings, history>>
           \/ /\ job.step = "status" /\ Done
              /\ disturbed' = TRUE /\ UNCHANGED <<settings, beside>>
           \/ /\ job.step = "info" /\ Goto("network")
              /\ settings' = WithInfo(job.report)
              /\ beside' = BesideAfter(job.report) /\ UNCHANGED disturbed
           \/ /\ job.step = "info" /\ Goto("network")
              /\ disturbed' = TRUE /\ UNCHANGED <<settings, beside>>
           \/ /\ job.step = "network" /\ Done
              /\ settings' = WithNetwork(job.report) /\ UNCHANGED history
           \/ /\ job.step = "network" /\ Done
              /\ disturbed' = TRUE /\ UNCHANGED <<settings, beside>>
        /\ UNCHANGED <<now, terminalVars, label, measuring, pageVars, changes>>

\* A restart of the ADMS server.
Crash ==
    /\ Change
    /\ measuring' = [s \in Slots |-> Null] /\ answering' = [s \in Slots |-> Null]
    /\ disturbed' = (disturbed \/ \E s \in Slots : answering[s] # Null)
    /\ UNCHANGED <<now, terminalVars, label, settings, pageVars, beside>>

-----------------------------------------------------------------------------
(* The tab                                                                 *)

\* What the cards of a page start from when there is an answer to draw them with: the
\* device page's clock and its zone choice, or the settings page's time fields.
Drawn(v, answer) ==
    /\ mounted' = IF v = "device" /\ answer # Null THEN now ELSE 0
    /\ chosen' = IF v = "device" /\ answer # Null THEN answer.label ELSE Null
    /\ fields' = IF v = "settings" /\ answer # Null THEN answer.estimate ELSE Null

\* devices.get, asked by either page when it opens and every five seconds.
get == [label |-> label, estimate |-> deviceLocal, at |-> now, drift |-> DriftCard]
Poll(v) ==
    /\ view = v
    /\ page' = get /\ page # page'
    /\ IF page = Null THEN Drawn(v, page') ELSE UNCHANGED <<mounted, chosen, fields>>
    /\ UNCHANGED <<now, terminalVars, serverVars, view, bar, call, history, changes>>
PollDevice == Poll("device")
PollSettings == Poll("settings")

\* The notification bar asks on its own, every fifteen seconds.
PollBar ==
    /\ bar # Flagged
    /\ bar' = Flagged
    /\ UNCHANGED <<now, terminalVars, serverVars, view, page, mounted, chosen, fields, call,
                   history, changes>>

\* The tab goes to another page: one of this device is drawn with the answer it had.
Open(v) ==
    /\ view # v /\ Change
    /\ view' = v /\ Drawn(v, page)
    /\ UNCHANGED <<now, terminalVars, serverVars, page, bar, call, history>>

\* It is reloaded, or its cache is cleared while no page of the device is open.
Forget ==
    /\ page # Null /\ Change
    /\ page' = Null /\ Drawn(view, Null)
    /\ UNCHANGED <<now, terminalVars, serverVars, view, bar, call, history>>

\* updateTimezone, from the device page (its card is enabled while the choice differs
\* from the label it was last told) or from another operator's.
ChooseLabel(z) ==
    /\ view = "device" /\ page # Null /\ chosen # z
    /\ Change
    /\ chosen' = z
    /\ UNCHANGED <<now, terminalVars, serverVars, view, page, mounted, bar, fields, call,
                   history>>

SaveLabel ==
    /\ view = "device" /\ page # Null /\ chosen # page.label
    /\ label # chosen
    /\ label' = chosen
    /\ UNCHANGED <<now, terminalVars, settings, measuring, answering, pageVars,
                   history, changes>>

RelabelElsewhere(z) ==
    /\ Change /\ label # z
    /\ label' = z
    /\ UNCHANGED <<now, terminalVars, settings, measuring, answering, pageVars, history>>

\* The settings page's manual time card: load the estimate, or type what the label's
\* clock should show; then setManualTime pushes the fields as they are.
Enter(time) ==
    /\ view = "settings" /\ page # Null /\ fields # time /\ Change
    /\ fields' = time
    /\ UNCHANGED <<now, terminalVars, serverVars, view, page, mounted, bar, chosen, call,
                   history>>

SnapToDevice == Enter(page.estimate)
TypeTime == Enter(now + Offset[label])

\* assertDeviceOnline is passed; then the commands go in one by one.
Start(v, kind, value, steps) ==
    /\ view = v /\ page # Null /\ call = Null /\ Change
    /\ call' = [kind |-> kind, value |-> value, left |-> steps, queued |-> <<>>]
    /\ UNCHANGED <<now, terminalVars, serverVars, view, page, mounted, bar, chosen, fields,
                   history>>

SetManualTime == Start("settings", "time", fields, Steps(fields))
QueryDeviceInfo ==
    Start("settings", "info", Null, [i \in DOMAIN Bundles |-> Query(Bundles[i])])
QueryNetwork == Start("device", "network", Null, <<Query(Network)>>)
GetOptions == Start("device", "options", Null, <<Query(Options)>>)

\* queueCommand's INSERT of the next command of the call.
QueueNext ==
    /\ call # Null /\ call.left # <<>>
    /\ commands' = Append(commands, Head(call.left))
    /\ call' = [call EXCEPT !.left = Tail(@), !.queued = Append(@, Len(commands'))]
    /\ UNCHANGED <<now, lead, held, option, taken, serverVars, view, page, mounted, bar,
                   chosen, fields, history, changes>>

\* Another page queries the network meanwhile.
QueueElsewhere ==
    /\ Change
    /\ commands' = Append(commands, Query(Network))
    /\ UNCHANGED <<now, lead, held, option, taken, serverVars, pageVars, history>>

\* A failed INSERT ends the call: what was queued stays queued.
CallFails ==
    /\ call # Null
    /\ call' = Null
    /\ UNCHANGED <<now, terminalVars, serverVars, view, page, mounted, bar, chosen, fields,
                   history, changes>>

\* pushManualTime's UPDATE after its loop; the other calls only write their audit row.
LastIds(c) == [i \in DOMAIN c.queued |-> Len(commands) - Len(c.queued) + i]
RecordedLast(c) ==
    IF c.kind = "time"
    THEN [settings EXCEPT !.lastManualTimePush =
            [dateTime |-> c.value, queuedCommandIds |-> LastIds(c)]]
    ELSE settings
Recorded(c) ==
    IF c.kind = "time"
    THEN [settings EXCEPT !.lastManualTimePush =
            [dateTime |-> c.value, queuedCommandIds |-> c.queued]]
    ELSE settings

Return ==
    /\ call # Null /\ call.left = <<>>
    /\ settings' = Recorded(call)
    /\ call' = Null
    /\ UNCHANGED <<now, terminalVars, label, measuring, answering, view, page, mounted, bar,
                   chosen, fields, history, changes>>

PageStep ==
    \/ PollDevice \/ PollSettings \/ PollBar \/ Forget \/ SaveLabel
    \/ SnapToDevice \/ TypeTime
    \/ \E v \in {"device", "settings", "none"} : Open(v)
    \/ \E z \in Labels : ChooseLabel(z)
    \/ SetManualTime \/ QueryDeviceInfo \/ QueryNetwork \/ GetOptions
    \/ QueueNext \/ CallFails \/ Return

SettingsNext ==
    \/ MinutePasses \/ SetAtTerminal \/ Punch
    \/ \E s \in Slots : \/ \E heard \in BOOLEAN : Upload(s, heard)
                        \/ Take(s) \/ StoreDrift(s) \/ Answered(s)
    \/ Crash \/ QueueElsewhere
    \/ \E z \in Labels : RelabelElsewhere(z)
    \/ PageStep

SettingsSpec == SettingsInit /\ [][SettingsNext]_settingsVars

\* The terminal goes on asking for commands, statements that were issued come to an
\* end and an open page goes on polling; nothing else need ever happen.
Fairness ==
    /\ WF_settingsVars(PollDevice \/ PollSettings) /\ WF_settingsVars(PollBar)
    /\ WF_settingsVars(\E s \in Slots : Take(s))
    /\ \A s \in Slots : WF_settingsVars(StoreDrift(s)) /\ WF_settingsVars(Answered(s))

FairSettingsSpec == SettingsSpec /\ Fairness

-----------------------------------------------------------------------------
(* Properties                                                              *)

\* An upload that arrives within the minute of its punch, at a server that goes on
\* to store what it measured; and one that arrives later.
LivePunch == \E s \in Slots : Upload(s, TRUE) /\ ReportedWall = Wall
LatePunch == \E s \in Slots, heard \in BOOLEAN : Upload(s, heard) /\ ReportedWall # Wall
DriftStored == \E s \in Slots : StoreDrift(s) /\ settings'.clockDrift = measuring[s]

\* Whatever was done to the clock, the label and the uploads before, and in whatever
\* order the measurements landed: once the clock and the label are left alone and no
\* upload is late any more, while people go on punching and measurements go on being
\* stored, a tab that stays on the device comes to tell its time, on the device page
\* ahead by as long as its clock was drawn when it polled, and on the settings page by
\* how much the clock is off, and the notification bar names it exactly when that is more
\* than a minute (devices.get, measureDriftFromPunch, notifications).
Error == lead - Offset[label]
Measured ==
    /\ view = "device" => Shown = now + lead + (page.at - mounted)
    /\ view = "settings" =>
          page.drift = IF Error = 0 THEN [state |-> "accurate"]
                       ELSE [state |-> "off", sec |-> Error]
    /\ bar <=> Error \notin -1 .. 1
ClockComesRight ==
    <>[][UNCHANGED <<lead, label>> /\ ~LatePunch]_settingsVars
    /\ []<><<LivePunch>>_settingsVars /\ []<><<DriftStored>>_settingsVars
    /\ <>[](view # "none")
        => <>[](page # Null /\ Measured)

\* The manual time push on record stands for commands that were all queued, in their
\* order, for the recorded time, whatever else was queued in between and however many
\* earlier pushes broke off (pushManualTime).
PushedIsWhole ==
    LET push == settings.lastManualTimePush
    IN  push # Null =>
          [i \in DOMAIN push.queuedCommandIds |-> commands[push.queuedCommandIds[i]]]
            = Steps(push.dateTime)

\* While no answer is being worked on, and unless two of them ever overlapped or one
\* was lost half way, what the network card and the info card say agrees, but for the
\* keys of which the terminal last told in answer to "Get options", which the network
\* card is not taught; the info card may also keep a value the terminal has since stopped
\* reporting (snapshotDeviceInfo, snapshotNetwork, one column).
SnapshotsAgree ==
    ~disturbed /\ (\A s \in Slots : answering[s] = Null) =>
        \A k \in DOMAIN NetworkCard :
            k \in DOMAIN InfoCard /\ (InfoCard[k] = NetworkCard[k] \/ k \in beside)
=============================================================================
