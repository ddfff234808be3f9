# Formal models of the ZKTeco ADMS synchronisation platform

TLA+ models, TLC runs and TLAPS proofs for the platform in `src/`: a server that
attendance terminals talk to (`apps/adms`), a multi-tenant dashboard
(`apps/web`), their shared database (`packages/db`) and helpers
(`packages/shared`).

The models are written from the code. Where a doc, a comment or a label says
something else, the difference is described under *Findings*.

## 1. The system

Two processes share one Postgres database with a `platform` schema and one
schema per tenant. They exchange no messages: everything goes through tables.
Terminals, browsers and integration endpoints are outside.

```
 terminal --HTTP--> apps/adms (Hono, one Node process, in-memory cache, timers)
                        |  tables: devices, device_commands, attendance_logs, ...
 browser  --tRPC--> apps/web (Next.js); pages poll and keep copies of their own
                        |
 endpoint <--HTTP-- apps/adms sync worker, device monitor
```

| component | where | state it keeps | operations |
|---|---|---|---|
| Command queue | `apps/adms/src/services/command.service.ts`, `adms/handler.ts`, `jobs/command-expiry.ts`, `apps/web/src/server/device-commands.ts`, `routers/devices.ts` | `device_commands`; what open heartbeat handlers hold | queueCommand, cancelCommand, heartbeat (SELECT, UPDATE, response), processCommandResult, expiry tick |
| Outbound sync | `services/sync.service.ts`, `sync-dispatcher.ts`, `jobs/sync-worker.ts`, `routers/sync-targets.ts`, `routers/tenants.ts` | `sync_status`, `sync_attempts` of punches; integration columns; `cycleInFlight` and the locals of `runCycle` | cycle, batch, POST with retries, mark synced / failed, retryFailed, setIntegration, void |
| Tenant router | `apps/adms/src/tenant/router.ts`, `routers/devices.ts` (tokens) | SN cache with TTL, `devices`, `device_enrollment_tokens` | resolve a serial number, claim a token, issue tokens |
| Device liveness | `services/device.service.ts`, `jobs/device-monitor.ts`, `refreshStatus` | `devices.status`, `last_online`, family | handshake, heartbeat, INFO line, offline tick, refreshStatus, status webhook |
| Attendance ingest | `services/attendance.service.ts`, `adms/routes.ts` | `attendance_logs`, `devices.timezone` | acknowledge, parse, convert, insert with dedupe, void, manual insert |
| Attendance views and reports | `routers/attendance.ts`, the attendance page, `export/route.ts`, `employees.timesheet` | what each page fetched; `voided_at` | list, count, duplicates, void, reports, timesheet, CSV |
| Device settings and clock | `command.service.ts` (snapshots), `device-settings.ts`, `routers/devices.ts`, the clock and network cards | `devices.settings` (one JSON column), the terminal's clock, what cards remember | measure drift, push time and zone, snapshot answers, show |
| Wall-clock conversion, shifts | `packages/shared/src/timezone.ts`, `deviceWallToUtcIso`, `classifyPunch` | none (pure) | wall clock to UTC, shift marker |
| Member roster | `routers/employees.ts`, inbound API, `ingestOperlog`, `biometric.service.ts` | `employees`, `employee_devices`, `biometric_templates`, device user tables | create, update, delete, transfer, fan-out of commands, OPERLOG ingest |
| Wire parsers, firmware commands | `packages/shared/src/firmware.ts`, `adms/parser.ts` | the terminal's family | build and parse user and template lines in two dialects |
| Tenant provisioning | `routers/tenants.ts`, `packages/db/src/tenant-router.ts` | `platform.tenants`, schemas | create, delete, suspend |
| Operator gate, audit trail | `lib/operator-password.ts`, `server/audit.ts`, `device-guards.ts` | password hash, audit rows | guard, verify, log |
| Groups and locations | `routers/device-groups.ts`, `routers/locations.ts` | `device_groups`, `locations` | create, update, delete, assign, bulk commands |
| Dashboard user interface | `apps/web/src/app`, `components` | forms, dialogs, cached answers | type, save, confirm, poll, navigate |

`PROJECT.json` also lists what is not modelled (adapters and encryption,
authentication, the legacy server, process bootstrap).

What is hard here: there are no transactions. Every handler is a sequence of
single statements with an `await` between them, so a SELECT is stale by the time
of the UPDATE that uses it; heartbeats and monitor ticks overlap; the device
endpoint acknowledges before it persists; timers run beside requests; a process
can die between any two statements; HTTP to an integration can time out after it
took effect; and a page acts on answers of a while ago, while its own calls are
under way. `PROJECT.json` lists each hazard at its line with the properties about
it.

## 2. Modules

| module | models | kind |
|---|---|---|
| `CommandLifecycle` | what the queue promises an operator: record and device knowledge, no handlers | abstract |
| `CommandQueue` | one device's `device_commands` with its callers, heartbeats, answers, expiry | detailed |
| `CommandFate` | what a row of the queue is to a page that lists it: pending, cancelled, over | abstract |
| `AtLeastOnce` | what the sync promises for a punch: reported only if taken, final, own tenant only | abstract |
| `AttendanceLog` | what `attendance_logs` is to its readers: keys stored once, voided for good | abstract |
| `SyncDelivery` | the sync worker, its batches and attempts, with the dashboard's writes beside it | detailed |
| `TenantRouter` | serial-number resolution, its cache, enrollment tokens, and the life of tenants under it | detailed |
| `DeviceStatus` | who is thought to be online, and who is told | detailed |
| `AttendanceIngest` | a terminal's uploads, the conversion of its clock, deduplication, operators' rows | detailed |
| `MemberRoster` | the members of a tenant, the terminals they are linked to, and the user commands between them | detailed |
| `OperatorConsole` | the dashboard's mutations: guard, password, effects, audit row | detailed |
| `AttendanceDesk` | what the dashboard makes of the punches: table, duplicates panel, reports, CSV | detailed |
| `DeviceSettings` | a terminal's clock and options, their snapshots and the cards that show them | detailed |
| `TerminalUsers` | one member's lines between the dashboard and terminals of two dialects | detailed |
| `RecordForms` | seven forms over stored records in several tabs | detailed |
| `ConfirmDialogs` | the dialogs that confirm, on five pages of one tab | detailed |
| `..._proofs` | inductive invariants, theorems, refinements (section 4) | proofs |
| `MC...` | constants of the twelve detailed modules for TLC | instances |

Each detailed server module has one action per SQL statement or HTTP exchange;
the awaits between them are where everything else interleaves. In the page
modules an action is what a person does, a query's answer or a call's answer.
Definitions that only serve to vary the code in a mutation test (`PROJECT.json`
`mutants`) stand next to the one they replace and say what is wrong with them.

The modules cut the system at its tables. `CommandQueue` shows that commands are taken
up in order, and that a terminal which waits for the answer to each heartbeat is handed
them in order (`InOrderWhenWaiting`); heartbeats that overlap can deliver an older
command after a newer one. `MemberRoster` and `DeviceSettings` assume a terminal
that waits and say so in their headers; `TerminalUsers` lets a terminal take its
commands in any order, and lose some. `OperatorConsole` takes the roster's and
the queue's effects for one statement each; `AttendanceDesk` starts where
`AttendanceIngest` ends, and `DeviceStatus` where `TenantRouter` has resolved a
device.

Where two modules see one table, an abstract module says what it is to both, and
each is proved to implement it. `AttendanceLog` is the table of punches, which
`AttendanceIngest` fills, `AttendanceDesk` shows and voids, and `SyncDelivery`
sends: what the latter two let happen to a row is no more than what it lets happen.
`CommandFate` is a row of the queue as a page lists it: `CommandQueue` keeps it, so
`ConfirmDialogs`, whose `fate` it is, assumes nothing of a command that the queue
does not do.

### CommandQueue

A row is its place in insertion order (which stands for the uuid key and
`created_at`); `command_id` is a column, because how it is computed matters.

| code | model |
|---|---|
| `queueCommand` (both copies): MAX+1, INSERT, unique index | `ReadNextId`, `Insert`, `QueueFails`, `UsedIds` |
| `cancelCommand` | `Cancel` |
| expiry tick: the list of active tenants, then one UPDATE per tenant in one try block | `Lapse` (time passes), `ListTenants` (does the tick get to this tenant?), `Expire` |
| heartbeat: `getPendingCommands`, `markCommandsSent`, response | `Select`, `MarkSent`, `Respond`; `PollFails` for an error or a lost response |
| `/devicecmd`, `processCommandResult` | `ProcessResult`, which may leave the post behind to be repeated; `LoseResult` |
| the terminal | `Execute` (external): runs what it holds, in any order, and posts an answer |
| process death | `AdmsCrash`: open heartbeats and acknowledged answers vanish |

What callers check before they queue (`assertDeviceOnline`, the password) is in
`OperatorConsole`. `IdsFollowCreation` is the surprising one: with no transaction
and no sequence, ids are still dense and in insertion order, because an id that
lost the race is rejected by the unique index and is never retried.

`reached` is what the one device's queue sees of the other tenants: an expiry tick
does not get to a suspended tenant, nor to any after the first whose schema is
gone.

### SyncDelivery

A punch is its rank by `punch_time`. `StartCycle` copies the endpoints of all
listed tenants into `todo`, as `listTenantsWithIntegration` does once per cycle;
`PickTenant`, `Fetch`, the three `Post*` actions, `MarkPunchesSynced`,
`MarkPunchesFailed`, `TenantThrows` and `EndCycle` are the awaits of `runCycle`
and `runOneBatch` in their order. `PostUnknown` is a 5xx, a timeout or a lost
answer: the endpoint may or may not have taken the batch. `inbox` records what
endpoints took. Suspending a tenant takes it off the list as
`SetIntegration` with a null endpoint does.

Both bodies of the loop that mark a batch have no condition on `sync_status`;
that they never undo each other is due to `cycleInFlight` alone, which the
lemma `OthersIdle` makes explicit.

### TenantRouter

| code | model |
|---|---|
| `tenants.create`: row, schema, roll back | `CreateRow`, `Provision`, `ProvisionFails`, `CreateDies` |
| `tenants.update` of the status; `tenants.delete`: DROP SCHEMA, DELETE row (tokens cascade) | `SetStatus`; `DropSchema`, `FinishDelete` (with `DeleteRow`) |
| `createEnrollmentToken`, its `expires_at` | `IssueToken`, `ExpireToken` |
| `resolveTenantBySn`: cache hit | `Fresh` (a hit has no effect, so it is no step) |
| list of active tenants, one SELECT per tenant | `StartSweep`, `SweepOne`, `SweepThrows` |
| valid tokens; more or less than one is refused | `ReadTokens`, `ValidTokens`, `Refused` |
| `tryClaimEnrollmentToken`: tenant by id, INSERT device, UPDATE token, cache | `FindTenant`, `InsertDevice`, `InsertThrows`, `ConsumeToken` |
| a statement that throws, a process that dies | `RequestFails`, `AdmsCrash` |

Time is a `Tick` that ages cache entries (`age`), requests (`born`) and dropped
schemas (`deadFor`), each up to the TTL; that is all `StalenessIsBounded`
compares. An entry enters the cache as old as its request, since `now` is taken
before the first query; the mutant `AgeAtEnd` shows that this is what bounds the
staleness. `pairs` is a history of what claims inserted.

A tenant of the model is a slug. Its row comes and goes; once it is gone a new tenant
may get the slug, with a new id, so that no token of the old one finds it, but with
a schema of the same name, so that every binding cached for the old one leads into
its tables. `orphans` and `orphaned` are the cached bindings and the open
requests that still hold a device id of a schema that was dropped. Two
simplifications: a `create` of a slug ends before another of that slug begins, and
the SELECT of `delete` and its DROP SCHEMA are one step.

### DeviceStatus

| code | model |
|---|---|
| `upsertOnHandshake`, `touchHeartbeat` | `Handshake`, `Heartbeat` (both stamp, through `Contact`) |
| `parseInfoLine`, whose UPDATE nobody awaits | `ApplyInfo`, `InfoFails` (an unhandled rejection ends the process: `Stop`) |
| the tick of `startDeviceMonitor`: tenants, then per tenant one UPDATE and the webhooks | `ListTenants`, `MarkOffline`, `TickGivesUp`; `Emit`, `EmitFails` |
| `refreshStatus`: SELECT, UPDATE | `RefreshRead` (`Verdicts` is its rounded age), `RefreshWrite` |
| tenants that are suspended, deleted or reconfigured | `SetStatus`, `DropSchema`, `FinishDelete`, `DeleteDies`, `SetIntegration` |

A tick may start while an earlier one runs, as `setInterval` waits for none. The
monitor's timeout is configured (`Timeout`), the one of `refreshStatus` is written out
there (`RefreshTimeout`), and the two may differ; the latter is compared with an age
rounded to whole seconds, so an age just below it has either verdict.
`wronged` marks devices a refresh wrote an outdated verdict for, `flips`,
`revived`, `hushed` and `lost` are the histories behind the three properties:
with `refreshStatus` a read and a write apart, nothing better than their
exemptions is true of the code.

### AttendanceIngest

A row of `attendance_logs` is its unique key (pin, time) with `voided` and two
history fields: the punch it came `of` and the `zone` it was converted with. A
zone is its offset at each hour, so its clocks may change; `Settled` are the hours
that no change is near.

| code | model |
|---|---|
| the terminal's clock and buffer | `Punch` (external) |
| POST `/cdata?table=ATTLOG`: answers OK, then ingests | `Upload`; `unsent` shrinks unless the OK is lost |
| SELECT of the device's time zone | `ReadZone`, `UploadFails` |
| `getZoneOffsetMs`, `deviceWallToUtcIso` | `offset[z][wall]`, `deviceWallToUtc` |
| the loop of INSERT ... ON CONFLICT DO NOTHING | `InsertRow`, `RowFails`, `EndUpload` |
| `updateTimezone`, `void`, `insertManual` | `UpdateTimezone`, `Void`, `InsertManual` |

### MemberRoster

An operation `op[o]` is one call of a dashboard procedure, one POST of the
inbound API or one biometric record of a terminal; its fields are the locals the
handler has, `at` is the statement it comes to next.

| code | model |
|---|---|
| `create`, one USER row of `ingestOperlog` | `Create`, `Operlog` (single statements) |
| `createForEnrollment` | `Enroll`, then the fan-out |
| `update` | `StartUpdate`, `WriteProfile`, `ReadPin`, `ReadLinks`, fan-out without linking |
| `pushUpdateToDevices` | `StartPush`, `ReadLinks`, fan-out without linking |
| `pushBiometricsToDevices` | `StartBiometrics`, `ReadTemplates`, fan-out |
| `delete` | `StartDelete`, `ReadLinks`, fan-out of removals, `DeleteRow` with its cascades |
| `transfer` | `StartTransfer`, fan-out to one device, and to move `QueueRemoval`, `Unlink` |
| `ingestBioRecords` | `StartRecord`, `StoreTemplate`, `SetFlag` |
| POST of the inbound API | `StartInbound` (reads the devices), per member `NextMember`, `FindByExternal`, `FindByPin`, `InsertMember` / `UpdateMember` / `UpsertConflicts`, fan-out; `EndInbound` |
| the fan-out: `queueCommand` and INSERT INTO employee_devices per device | `QueueNext`, `LinkDevice`, `FinishPush` |
| a statement that throws, a process that dies | `OpFails`; in the inbound API it may end one member only (`Leave`) |

`newest[d][p]` is the newest user command device `d` was queued for a PIN, `owed`
says that it is still on its way, and `holds[d]` is the terminal's own user table. A
command is carried out (`Take`) or never is (`Lose`: it expires, is cancelled or fails),
and people enter, change and delete users at the terminal (`EditThere`), whose report
of it is an `Operlog`. `strayed` is where the last two have left a table the
dashboard cannot know of. `pushed` remembers every add ever queued.
`calm` is true until two operations overlap, one fails or an upsert renumbers a
member: the properties that hold only of an operator who works alone say so with
it, and the others do not mention it. A member's id is never used twice, as a
uuid is not.

### OperatorConsole

A call `c` is one tRPC mutation: `request[c]` its input, `step[c]` the statement
it comes to next, `hash[c]` and `todo[c]` its locals. What differs between the
mutations is which of the steps each takes, and in which order.

| code | model |
|---|---|
| `assertDeviceOnline` | `AssertDeviceOnline` |
| `checkOperatorPassword` and its copies: SELECT of the hash; scrypt and comparison | `ReadHash`; `Verify` |
| `bulkReboot`, `bulkClearLog`: SELECT of the group's devices, a loop of `queueCommand` | `ListGroup`, `Queue` |
| `queueCommand`, `runMaintenance`, `queryDeviceInfo`, `setManualTime`, `updateNtp` | `Planned`, `Queue` |
| `attendance.void`, `insertManual` | `Void`, `InsertManual` |
| `updateOperatorPassword` | `Rotate` |
| `setEnabled`, `assignDevice`, groups created and deleted | `SetEnabled`, `AssignDevice`, `CreateGroup`, `DeleteGroup` |
| `logTenantAction`: ok, or denied where the code records a refusal | `LogOk`, `LogDenied` |
| heartbeats and the monitor; a statement that throws | `StatusFlips`; `Fail` |

`Observe` keeps, for each open call, the devices eligible at some and at every
moment of it and the passwords in force: the properties compare what a call did
with what was true while it ran, since "at the moment of the INSERT" is more than
the code can promise.

### AttendanceDesk

| code | model |
|---|---|
| `attendance.list`, `count`, `duplicates`, three reports, `timesheet`, the CSV route | `Listed` (by rank, `Newer`), `Counted`, `Duplicates`, `reportBy...` (the one by member is the set of answers its ORDER BY and LIMIT allow), `DayPunches`, `Exported` (operators on the table) |
| the page's polled queries, each on its own | `FetchList`, `FetchCount`, `FetchPanel` |
| filters, pages, the void dialog | `SetFilter`, `NextPage`, `PrevPage`, `Pick`, `Cancel` |
| `attendance.void` as the page calls it | `VoidDone`; `VoidUnheard` when refused or the answer is lost |
| everybody else | `UploadPunch`, `insertManual`, `CreateMember`, `DeleteMember`, `VoidElsewhere` |

A page of the table is a set of punches: which of them are on it matters, not how
they are laid out. `panel[t]` is what a tab's panel fetched, however old: a group
is its first row, which the panel shows as the original (`OldestRow`: `created_at`
decides, not the time of the punch), and the others, which it offers to void.

### DeviceSettings

One module for the server and a tab that shows one of two pages of a device, because
the question is what a page says of a clock it never sees. The device page has the
clock, the zone card and the network card, the settings page the drift card, the
manual time card and the info card (`view`); they share the last answer of
`devices.get` (`page`), but what their cards remember starts anew each time a page is
drawn (`Drawn`). A unit of time is a minute (`MinutePasses`).

| code | model |
|---|---|
| `measureDriftFromPunch`: label read, drift computed, merged into `settings` | `Upload`, `Drift`, `StoreDrift` |
| `processCommandResult`, `snapshotDeviceInfo`, `snapshotNetwork` | `Answered`, with `NonBlank`, `WithInfo`, `WithNetwork` (only where its pattern matches: `Matched`) |
| `pushManualTime`: a batch of commands, then the record of it | `SetManualTime`, `QueueNext`, `Recorded`, `Return`, `CallFails` |
| `updateTimezone`; `queryDeviceInfo`, the network card's query, "Get options" | `ChooseLabel`, `SaveLabel`, `RelabelElsewhere`; `QueryDeviceInfo`, `QueryNetwork`, `GetOptions`, `QueueElsewhere` |
| pages that are opened, left and reloaded | `Open`, `Forget` |
| `devices.get` polled by either page, `notifications` polled | `PollDevice`, `PollSettings`, `PollBar` |
| `DeviceClock`, `TimeDriftCard`, `DeviceInfoCard`, `NetworkCard` | `Shown`, `DriftCard`, `InfoCard`, `NetworkCard` |
| `ManualTimeCard`'s fields | `SnapToDevice`, `TypeTime` |
| the terminal, people at it, a crash | `Take`, `Punch`, `SetAtTerminal`, `Crash` |

`disturbed` and `beside` are histories: that answers overlapped or one was lost half
way, and which network keys the terminal told last in an answer that the network
section is not taught from.

### TerminalUsers

`row` and `templates` are the dashboard's, `user[d]` and `bios[d]` a terminal's;
`queue` and `reports` the lines between. `Legacy`, `Modern` and the `push...`
operators are the dialects' builders, `parseUserRow` and `parseBioRecord` the
parser, and what a dialect does not carry is lost in them. A report is the set of
its rows, as the server stores each row on its own. `Execute` is the terminal's
side, by what the line asks of it: `StoreUser`, `StoreTemplate`, `Answer`, `Obey`, `Unenrol`,
or `Refuse` for a verb its firmware lacks (`Understands`); people change a user
there (`Edit`), enter one (`Enter`), are enrolled (`Enrol`) or delete the member
(`EraseAt`).

A call of the dashboard (`Update`, `Create`, `Inbound`, `PushProfile`, `Move`, `Delete`,
`PushBiometrics`, `QueryUsers`) is one step but for one thing: the firmware family it
writes its lines for was read earlier, at whichever moment since it began. `versions[d]`
are the families a call may have read, and each line remembers whether the terminal had
told by then. `MemberRoster` takes the calls apart otherwise. `Lose` is a command
that is cancelled or expires, or whose heartbeat's answer is lost, and `Execute(d, i)`
takes the commands in any order. `crossed` marks the terminals the
agreement is not claimed for, and each reason to enter it is a conjunct of the
action that causes it.

### RecordForms

A behaviour is about one of seven forms, chosen by `FormsInit`; `MemberForm` to
`LocationForm` are records of what makes each form what it is: its fields,
whether it holds the edits alone or a copy of the record, whether its page polls,
what it does to the form when data arrives; `ReadsFirst` are those whose handler
reads the row before it writes all of it, and `Over` is how it lays what was sent
over what it read. The
actions then say once what an operator (`Type`, `Submit`, `OpenEdit`, `Close`,
`Discard`, `toggle`), a query (`Fetch`), the server (`SelectBefore`, `create`,
`update`, `Fail`) and an answer (`onSuccess`, `onError`) do. `meant` and a call's
`meant` and `before` are histories: what the operator typed or had before them
for that record.

### ConfirmDialogs

One tab that moves between the pages of a terminal, its settings, the groups, a
member and a tenant. `visit` counts the pages shown: leaving a page unmounts it,
so what was typed is forgotten, `isPending` starts anew, and an answer that comes
later does nothing but, for a deletion, lead elsewhere. A call has what became of
it at the server (`served`) and what the page learnt (`told`). `fate` is the
command's row, `list` what the page's polled list shows of it: the page asks for the
newest `ListLimit` commands (15), and `older` is the order in which they were made.

## 3. Runs

| run | instance | checks | shows |
|---|---|---|---|
| `commands` | 2 callers, 2 heartbeat slots, LIMIT 1, 2 rows, fair clock and timer | `TakenInOrder`, `OutcomeIsFinal`, `LifecycleSpec`, `PendingSettles` | id race, overlapping heartbeats, crashes, duplicate answers, expiry ticks that miss the tenant: commands are taken up in order, outcomes stay right, and where ticks get to the tenant a silent terminal leaves nothing pending |
| `sync_worker` | 2 tenants, one with 2 punches, LIMIT 1, 2 callbacks, 2 attempts per POST and 2 POSTs, 1 fault, fair worker | `PromiseSpec`, `PendingSettles` | crash between POST and mark, lost answers, retryFailed, integrations that change mid-cycle; a misbehaving endpoint cannot keep a punch pending |
| `router` | 2 tenants, 1 device, 1 token, 2 open requests, 1 fault, fair, within `Explored` | `StalenessIsBounded`, `CachedIsPaired`, `NextDeviceIsPaired` | tenants that come and go, with the same slug again, under running resolutions; a device that keeps knocking while one token is open gets in |
| `devices` | 1 device of one of 2 tenants, 2 ticks, 1 refresh, timeouts 1 and 2, 1 fault, fair, within `Explored` | `FreshIsOnline`, `OneNoticePerSilence`, `SilenceIsNoticed` | a device heard of is online, one that falls silent is told to the integration, once, while ticks overlap |
| `attendance_faults` | 2 punches, 2 zones, one with a clock change, 2 overlapping uploads, 1 manual row, 1 fault | `OneRowPerLabel`, `AckedIsHeld`, `StoredIsInstant`, `LogSpec` | repeated uploads and a changing label lose nothing; crashes and failed rows duplicate nothing; a voided punch that comes again stays voided; stored times are off only near the change, by its size |
| `members` | 2 ids, 2 PINs, 2 profiles, 2 devices, 2 operations, 1 external id, 1 fault, within `Explored` | `LinkWasPushed`, `UpdateReachesLinked`, `NoGhostUser`, `ExternalIsUnique` | after any sequence of operations, a terminal that has taken its commands holds only users who are linked to it, but for those entered there or left by a lost command; overlapping or stopped half-way, a link is still recorded after its push |
| `console` | 2 calls of any kind, 2 devices, 1 group, 1 punch, 2 passwords, batches of 2, 1 failing statement | `CommandsWereDue`, `AuditedIsDone`, `OldPasswordsOpenNothing`, `TrailIsComplete` | guards, gate and trail while everything moves under them |
| `desk` | 3 punches of one minute, 2 tabs, one table followed, pages of 1, a report of 1 line, 2 filters, fair polls, within `Explored` | `PanelKeepsTheOriginal`, `ReportsAgree`, `TableComesRight` | stale panels never void the original; the reports agree; the table and its total come to fit |
| `settings` | 1 terminal, 2 pages, 2 labels, 2 clock settings, 2 slots, 3 changes, fair polls and takes, within `Explored` | `ClockComesRight`, `PushedIsWhole`, `SnapshotsAgree` | measurements, pushes and answers that overlap, fail and crash |
| `terminal` | a SpeedFace and a SilkBio, 2 names, 1 card, 1 password, 2 fingers, 2 reports under way per terminal, 3 acts of people, commands in any order, some lost | `RefusedOnlyUnknown`, `AgreeUnlessCrossed`, `FingersKept` | profile and templates survive the round trip through both dialects, with removals, stale families and left-out terminals in between |
| `forms` | 2 tabs on each of 7 forms, 2 rows, 2 values, 2 to 4 acts, 1 fault, within `Explored` | `TokenIsKept`, `EditsKeepTheRest`, `CopiesAreOfTheirRow`, `ScreensCatchUp` | saves under way, stale data and late answers |
| `dialogs` | 2 openings, 2 calls, 2 pages, a list of 1 command, 1 lost answer, within `Explored` | `OneEffectPerOpening`, `ClosedIsDone`, `ListComesRight` | dialogs that are dismissed, reopened and answered late |

Bounds. Two of everything that races (callers, heartbeats, tenants, callbacks,
requests, uploads, operations, calls, tabs) is the smallest number at which the
races exist, and each of the properties relates at most two rows or two actors.
Three punches of one minute are the fewest with which two stale panels could void
all of a group. `LIMIT`, the page, `ReportLimit` and `ListLimit` are 1 so that something
is left behind;
`MaxFailed`, `MaxTries` and `MaxRounds` are 2 so that each limit is reached; `TTL`
and the offline timeout are 1 so that one tick separates fresh from stale; the timeout
of `refreshStatus` is 2 so that the two differ.
`MaxRows` and `MaxManual` bound inserted rows; `Budget`, `MaxChanges`,
`MaxMoves` and `MaxActs` what people change; `Budget`, `MaxDrops` and `MaxFaults` the
crashes, thrown statements, lost uploads and answers and `retryFailed` calls: a run
explores all places where they can happen. A token lives once; a tenant's slug is
used again. The
safety of the server modules does not depend on any of these numbers: the
theorems have them as parameters.

`CONSTRAINT Explored`, in seven runs, cuts a product of independent interests to
their union, and the MC module says which: in `router` only the tenant with the token
is suspended or deleted; in `devices` no INFO line is under way and the second
tenant is active while the second tick runs; in `members` overlapping operations share
one PIN, device and profile and store no template, only operations that do not overlap get two, and
terminals take or lose commands and are edited beside operations of one profile that do
not overlap; in `desk` either the panels are in use or the table is; in `settings` a
behaviour is about punches and labels (with cards first drawn under UTC in minute 0),
about setting the time or about options; in `forms` one tab at a time has a dialog open
or a save under way on a list, and the list of locations has no failures; in `dialogs` a
page left with nothing asked is skipped, and one harmless command is made, first. In
all but `members` the liveness properties are checked of the behaviours within the
constraint. `members`, `attendance_faults`, `console` and `terminal` use symmetry and
check safety only. Deadlock is checked except in `settings`, `terminal`, `forms` and
`dialogs`, which stop when their bounds are used up.

Type invariants are proved for every module that has a theorem (`TypeCorrect`),
so the runs do not repeat them.

Fairness.

- `CommandQueue!FairSpec` asks only that time passes and that the expiry
  interval keeps firing (`command-expiry.ts` re-arms by `setInterval`). That its
  ticks get to the tenant is not fairness, since a suspended tenant or one without
  its schema prevents it for good: it is the premise of `PendingSettles`.
- `SyncDelivery!FairSpec` asks that the worker as a whole keeps taking steps: its
  `setInterval` keeps firing, each POST has a 30 s abort signal, and its
  statements return. `PendingSettles` there holds for finitely many thrown
  statements only; a batch whose transformation throws every time would stay at
  the head of its tenant's queue.
- `TenantRouter!FairSpec` asks that time passes, that a request which has started
  goes on, and that each device gets to start one: strongly, because a server has
  room for any number of requests and only the model makes devices wait for one
  of `Requests`. Operators are not asked for anything.
- `DeviceStatus!FairSpec` asks that time passes, that the monitor's interval fires
  and a tick goes on, and that a webhook and an INFO line in hand are sent and
  stored. Nothing is asked of devices, operators or `refreshStatus`.
- `AttendanceDesk!FairDeskSpec` asks that the followed table's two queries go on being
  polled (`refetchInterval: 10_000`); an open page is all that needs.
- `DeviceSettings!FairSettingsSpec` asks for the open page's and the bar's polls, that the
  terminal takes its commands and that handlers in progress go on. The rest are
  premises of `ClockComesRight`, not fairness: that from some time on the clock and the
  label are left alone, no upload is late and the tab stays on the device, and that
  again and again somebody punches, the upload is live and its measurement is stored.
- `RecordForms!FormsSpec` asks for polls and refetches that are due, that a request
  sent is worked on, and that its answer, good or bad, arrives.
- `ConfirmDialogs!DialogsSpec` asks for the 3 s poll of the terminal page's list, nothing
  else: no call is ever owed an answer. A command that newer ones have pushed off the
  list need not be shown.

`AttendanceIngest`, `MemberRoster`, `OperatorConsole` and `TerminalUsers` are
checked for safety only. None of the fairness conditions assumes that an endpoint
answers well or that an operator does anything.

## 4. Proofs

`tlapm` proves the following for every value of the constants allowed by the
modules' named assumptions, which only say that limits are naturals (positive
where zero makes no sense), that tables have their types, and that `None` is none
of the things it stands in for.

| theorem | states |
|---|---|
| `CommandQueue_proofs!TypeCorrect`, `IdsAreDense`, `HandedAccounted`, `InOrderWhenWaiting`, `DeliveryInOrder`, `OutcomesAreReal` | types; `IdsFollowCreation`, `HandedIsAccountedFor`, `InOrderPerSlot`, `TakenInOrder`, `OutcomeWasHanded` |
| `CommandQueue_proofs!OutcomeFinalWithoutOverlap` | `OutcomeIsFinal`: the outcome of a command one heartbeat alone has carried stays what it is |
| `CommandQueue_proofs!QueueImplementsLifecycle` | the refinement of `CommandLifecycle` |
| `SyncDelivery_proofs!TypeCorrect`, `SyncedMeansTaken`, `NoCrossTenantLeak`, `NothingStranded`, `SyncedStays` | types; `SyncedWasTaken`, `TenantsStayApart`, `NoStrandedPunch`, `SyncedIsFinal` |
| `CommandQueue_proofs!QueueKeepsFate`, `DialogsKeepFate` | the refinements of `CommandFate` by the queue and by the dialogs |
| `SyncDelivery_proofs!WorkerKeepsPromise` | the refinement of `AtLeastOnce` |
| `AttendanceIngest_proofs!IngestKeepsLog`, `DeskKeepsLog`, `SyncDelivery_proofs!SyncKeepsLog` | the refinements of `AttendanceLog` by the ingest, the desk and the sync |
| `TenantRouter_proofs!TypeCorrect`, `CacheForgetsTheDead`, `CachedRowExists`, `TakerRowExists` | types; `StalenessIsBounded`, `CachedIsPaired`, `TakerIsPaired` |
| `TenantRouter_proofs!SequentialTokens` | `TokenPairsOne` for one request at a time and no fault |
| `TenantRouter_proofs!TokensLetInFew` | `TokenPairsFew`: of overlapping requests, a token lets in at most as many devices as can be open at once, and as many again for each fault |
| `AttendanceIngest_proofs!TypeCorrect`, `RepeatsAddNothing`, `LogGrows` | types; `OneRowPerLabel`, `LogOnlyGrows` |
| `AttendanceIngest_proofs!ConversionErrorIsKnown` | `StoredIsInstant` and, for any label, `ErrorIsOfTheOffsets`: for any zones, how far a stored time is from the punch, and when it is exact |
| `AttendanceIngest_proofs!NothingLostWithoutFaults` | `AckedIsHeld`: nothing acknowledged is lost before the first fault |
| `MemberRoster_proofs!TypeCorrect`, `LinksWerePushed`, `FlagsAreTrue` | types; `LinkWasPushed`, `FlagMeansTemplate`, of any overlap and any fault |
| `TerminalUsers_proofs!TypeCorrect`, `FingersAreKept`, `TerminalsAgree` | types; `FingersKept`, `AgreeUnlessCrossed` |
| `TerminalUsers_proofs!OnlyUnknownIsRefused` | `RefusedOnlyUnknown` for terminals whose marks tell their firmware |
| `CommandQueue_proofs!DialogsTypeCorrect`, `OpeningsHaveOneEffect`, `DialogsTellTheTruth` | of `ConfirmDialogs`: types; `OneEffectPerOpening`, `ClosedIsDone` |
| `DeviceStatus_proofs!SettingsTypeCorrect`, `PushesAreWhole`, `CardsAgree` | of `DeviceSettings`: types; `PushedIsWhole`, `SnapshotsAgree` |
| `AttendanceIngest_proofs!DeskTypeCorrect`, `OriginalsAreKept`, `ReportsNeverDiffer`, `VoidsAreExported` | of `AttendanceDesk`: types; `PanelKeepsTheOriginal`, `ReportsAgree`, `ExportsKeepVoids` |
| `TenantRouter_proofs!FormsTypeCorrect`, `TokensAreKept`, `ProfilesKeepTheRest`, `CopiesStayWithTheirRow` | of `RecordForms`: types; `TokenIsKept`, `EditsKeepTheRest`, `CopiesAreOfTheirRow` |
| `MemberRoster_proofs!NoGhostWhenAlone`, `LinkedIsThereWhenAlone`, `UpdatesReachWhenAlone`, `ExternalsUniqueWhenAlone` | what an operator who works alone can rely on: `NoGhostUser`, `LinkedIsThere`, `UpdateReachesLinked`, `ExternalIsUnique` |
| `DeviceStatus_proofs!TypeCorrect`, `FreshDevicesAreOnline`, `SilenceToldOnce` | types; `FreshIsOnline`, `OneNoticePerSilence` |
| `OperatorConsole_proofs!TypeCorrect`, `CommandsGoWhereDue`, `AuditTellsWhatWasDone`, `GateHoldsUnderRotation`, `TrailOmitsFailuresOnly`, `OneCallVoids` | types; the four properties of `console`, and `OneVoids` |

The four page modules are proved in the module of the component they are the page
of: the dialogs with the queue they fill, the settings with the device, the desk with
the ingest, the forms with the tenants. Their operators are prefixed (`DialogsNext`,
`SettingsSpec`, `DeskTypeOK`, `FormsInit`) so that both fit in one module; the two
state machines there share no variable.

The argument for the queue: none of its invariants is inductive. What closes the
induction is a description of a heartbeat between its statements: its batch
exists, skips no older deliverable row (`BatchSkipsNothing`), is dispatched once
marked (`MarkedIsDispatched`), and the device only answers what it was handed
(`DeviceKnows`); for the ids, that a computed id is at most one ahead of the
table (`NumbersLag`). For `TakenInOrder`, nothing older than what the device has is
still to be taken (`NothingLeftBehind`), because no batch skips it. For `OutcomeIsFinal`,
the device answers what one heartbeat delivered once, so all posts of the answer agree
with each other and with the row (`AnswersAgree`).

The argument for the sync: at most one callback is past its first line
(`Exclusive`), so the batch in its hands is still pending and still of the tenant
it was read for when the UPDATE runs (`BatchIsLive`), an accepted one was taken
(`AcceptedIsTaken`), and only a failed punch is out of attempts (`AttemptsLeft`).

The argument for the router: a request that is about to write a binding is never
more wrong than it is old. A cached binding whose device row was dropped with its
schema has been so no longer than the binding is old (`DeadNoLongerThanCached`), and a
claim past its INSERT whose device was dropped no longer than the request has been
open (`OrphanedIsDropped`); any other finds its device in the table
(`PairedIsInserted`). That the slug is given out again changes none of this, because
what is counted is the drop. A token somebody holds was issued (`HeldIsIssued`), so it
goes with its tenant, and a claim for it finds nothing under a new one. The one
theorem that needs requests not to overlap uses it once: between reading a token as
valid and consuming it nobody else reads it.

Without that premise the claims are counted (`ClaimsAreCounted`). While a token may
still be read as valid, whoever let a device in with it has yet to consume it or was
lost with a fault; so the devices let in are no more than the requests now past their
INSERT (`Paired`) and those that faults took, and after the token is consumed only
the requests that hold it by then (`Claiming`) can add to them. TLC reaches the bound
with two requests and one fault.

The argument for the ingest: every row was converted from one of its punches
with the label it records (`RowsAreConverted`), so two rows of a punch and a
label would have the same key, which the index rejects. For `AckedIsHeld` a punch
leaves `unsent` only into an upload's hands and leaves those only when its key is
in the table. That no two rows have one key (`KeysAreUnique`) also makes the table
an `AttendanceLog`: an INSERT that meets a voided row does nothing, so the row's
key stays voided (`IngestKeepsLog`); with an index over the live rows only, which
the mutant `LiveConflict` stands for, the punch would be back. The error of a stored time
is the difference of two offsets, the terminal's at the punch and the label's at the
wall clock read as UTC; where no change lies between the two hours (`Settled`) and the
label is right they are one.

The argument for the roster: ids do not come back (`born`), so what an operation
learnt about an id is either still so or the row is gone (`Fits`, `OthersStay`).
An operation that is about to link a device has pushed to it, and one that is
about to set a flag has stored the template unless the member has gone since.

For an operator who works alone the invariant (`Alone`) is stated of the record of
the one operation that is open, or of `Idle`, and of the tables (`Consistent`). Each
promise has an exemption for what the operation is in the middle of: a linked
device was queued the member last unless a delete or a move has just queued the
removal (`LinkedHas`, `Leaving`), a device queued a user last is linked unless the link is
the next statement (`UserIsLinked`), and external ids are unique with the one about
to be written free (`ExternalsOK`). `Idle` has no exemption, which is what the
properties say. The induction needs to know what a fan-out has left to do: each
linked device not in `todo` was queued the command (`HasQueued`). What was queued says
what a terminal holds only where the terminal has taken it and nobody has edited the
user there (`Settled`); that it then does is an invariant of its own (`TablesOK`), which
asks nothing of the operators.

The argument for liveness: a refresh that holds the verdict "offline" either missed
a contact or is about a device still as old as when it was read (`VerdictIsOld`), so
only one that missed a contact can wrong a fresh device; and each webhook needs a
status `online`, which only a contact or a reviving refresh provides (`Unnoticed`).

The argument for the console: what a call's place says of its request (`Places`);
that the moments it has seen include the present one (`Current`); what it has
established by being past a check, as the password it matched having been in force
(`Earned`); and that what is queued and what is left to do make up what was planned
(`Work`). The last two are what the properties say, read at the end of the call.

The argument for the terminals is in four layers, each used by the next. What a line
on its way looks like (`Types`), because the parser's answer for a line it does not
know is nothing in particular. Which capture each template line was made from
(`Captured`): the builders and the parser lose nothing that identifies a capture,
whichever dialect carries it. That a family a call may have read since the terminal
told is one whose tables the terminal has (`Dialect`), however long the call takes to
queue its lines. And how far a linked terminal that has not been crossed
has come (`Agreement`): the profile is on its way (`Pushed`), or has arrived and nothing
is on its way (`Told`), or a report of it is on its way back (`Telling`), which are
the three ways of being in step; `Idle` leaves the second. A lost, refused or
overtaking command, a removal out of turn and a change that leaves a linked terminal
out take it out of the claim until its next push into quiet.

`RefusedOnlyUnknown` is proved under `MarksTell`: no INFO carries marks of two
firmwares that name their tables differently, and a terminal whose INFO has no mark
has none of the newer firmwares in its handshake. The code needs that and cannot
check it: `detectFirmwareFamily` looks for the marks in a fixed order. The run's
two terminals satisfy it.

The argument for the dialogs: an open dialog is the last that was opened
(`OpenedLast`), what it asked for was asked on this page and with what it shows
(`AskedHere`), and it is asked again only after a refusal (`AskedAgain`), because the
button waits for the answer. For `ClosedIsDone`, no other command of a terminal's page
is on its way while its dialog is open (`OneCommand`), because the openers wait too.
For `DialogsKeepFate`, a command has a row only once its call was served
(`FateFollowsServing`), so it is issued once.

The argument for the settings: what a push has queued and what it has left are the
whole sequence (`PushUnderWay`), so the record made at its end names all of it
(`PushOnRecord`), and the rows it names never change. Of the snapshots
(`SectionsInStep`): while one answer at a time is worked on, the info section has the
values the network section is about to get, and otherwise agrees with it, but for the
keys a "Get options" answer last told (`beside`).

The argument for the desk: rows keep their numbers and new rows get higher ones
(`RowsAreNumbered`), so having an older row in the minute (`HasOlder`) is for ever.
What a panel offers has one when the panel is fetched (`OthersHaveOlder`), and so has
what is picked (`PickedHasOlder`) and voided (`VoidedHasOlder`), however much later.
The oldest row of a minute is therefore never voided from a panel, and it is the
witness of `PanelKeepsTheOriginal`.

`ReportsAgree` says that three ways of grouping the live rows have the same sum.
The sum of a report is stated as the number of points under its graph (`Under`),
which needs no recursion: a group of n rows can be numbered 1 .. n
(`CanBeNumbered`), so its rows and its points are as many (`PointsUnder`), and a
row's group and its number in it are one point, of which every point is one
(`PlacesAddUp`). The sum is therefore the number of live rows, however they are grouped
(`GroupsAddUp`), and that is also what the page counts. An answer with as many groups as
there are is the whole report, and one that lacks a group lacks a point, since no
group is empty (`CutReports`).

The argument for the forms: a form holds what its operator means unless a create that
was answered late emptied it (`DraftsAreMeant`); a save sends that, is of the row
its form was opened for, and has read that row if its handler does (`CallsAreSound`);
and what a handler writes is what was sent laid over what is stored (`UpdatedType`,
`OverType`). Only the handler's own `update` writes (`OnlyUpdateWrites`), so the two
action properties are about that one action.

So every safety and action property that a run checks is stated by a theorem.
Only model-checked: the liveness properties `PendingSettles` (two), `SilenceIsNoticed`,
`NextDeviceIsPaired`, `ClockComesRight`, `TableComesRight`, `ScreensCatchUp` and
`ListComesRight`, since fairness and ENABLED are out of the prover's reach.

## 5. Findings

Differences between what a doc, a comment, a label or a test says and what the
code does, met while modelling. The models follow the code; where a property has
an exemption or a premise because of one of these, it is named.

Commands and liveness

1. *A cancelled command can be executed.* `cancelCommand` (`devices.ts:669`)
   succeeds only on a pending row and reports success, but a heartbeat that
   selected the row before marks it `sent` after (`command.service.ts:30` has no
   condition on the status), and delivers it. `CommandLifecycle` therefore lets a
   cancelled or expired record become sent, `CommandFate` a cancelled row over.
2. A heartbeat response that is lost leaves its commands `sent` for ever: the
   expiry job looks at pending rows only. It also never gets to a suspended tenant, and
   one active tenant without its schema ends every tick for the tenants after it
   (`command-expiry.ts:19-37`), so commands there stay pending for ever: `PendingSettles`
   is of tenants that ticks get to. Of two heartbeats that are open at once the slower
   delivers an older command after a newer one, and both may deliver the same; the
   second answer then turns a success into a failure or back
   (`command.service.ts:96` looks at no status), which `TakenInOrder` and `OutcomeIsFinal`
   leave open.
3. `docs/phase1-acceptance.md:70` says that a paused device stops accepting
   commands; no heartbeat looks at `devices.enabled`, so what was queued before is
   collected.
4. `docs/phase1-acceptance.md:68` expects a change of status "Within 30 seconds";
   the monitor waits 90 s of silence and ticks on top of that. The integration is
   never sent `online`, although the payload has a place for it.
5. `device-monitor.ts:30-31` calls a row that turns offline "a real state change";
   the row may have been online only because an operator's `refreshStatus` wrote an
   outdated verdict over the monitor's, and the integration is told once more
   (`OneNoticePerSilence` counts `revived`).

Pairing and tenants

6. *A claim is not atomic.* `tenant/router.ts:12` says the device is inserted and
   the token consumed atomically. They are two statements (`:125`, `:141`), and the
   second has no condition on `consumed_at`: two new devices that knock at once are
   both let in by one token. `TokenPairsOne` is proved for requests that do not
   overlap, and for those that do how many it can be (`TokensLetInFew`).
7. Re-issuing a token leaves the first one valid; a second open token, of whichever
   tenant, makes every claim ambiguous. `connect-device-card` issues one when it is
   mounted.
8. `docs/connect-device.md:142` says a serial number can be in one tenant only. The
   check looks at active tenants, so a device of a suspended one can be paired with
   another, and both hold it when the first is active again.
9. A tenant row that is active without its schema (a `create` that died before the
   schema, a `delete` that died after dropping it) makes `resolveTenantBySn` throw
   for every device that is not cached, whichever tenant it belongs to, and ends
   every monitor tick. `NextDeviceIsPaired` and `SilenceIsNoticed` say so. A tenant
   created under the slug of a deleted one within the minute is served with device ids
   of the old one's tables, whose UPDATEs find no row (`CachedIsPaired` exempts them).
10. The recovery flow of `tenants.ts:294` updates the password's row; where
    `create` died before writing one, nothing is written and success is reported.

Attendance

11. *The conversion is off around a clock change.* `deviceWallToUtcIso`
    (`attendance.service.ts:13`) takes the offset at the wall clock read as UTC, so
    for as many hours as the zone is away from UTC a punch is stored off by the size
    of the change, and two punches of the repeated hour can become one row.
    `StoredIsInstant` exempts those hours, and `ConversionErrorIsKnown` says of every
    zone and label how far off a row is.
12. `AckedIsHeld` holds until the first fault only: OK is sent before anything is
    stored, and one failing statement after it loses the punch.
13. The confirmation to void (`attendance/page.tsx:431-432`) says the punch "is hidden
    from all views, reports, and exports"; the timesheet (`employees.ts:120-128`) and the CSV
    (`export/route.ts:75-84`) include it (`ExportsKeepVoids`). The report by member
    stops at 100 groups (`attendance.ts:165`), with nothing to say that it did, while
    the others count everything (`ReportsAgree`).
14. The CSV route says it mirrors the filters of the list (`export/route.ts:59`) and
    lacks the one by location. The list's input (`attendance.ts:34`) names overtime
    punches otherwise than the rows do (`parser.ts:82`).
15. A page past the end stays empty: `totalPages` shrinks under it and nothing
    moves it back.
16. `sync-adapters.ts:166` marks the generic adapter's token optional; the worker
    ignores tenants without one.

Clock

17. *The shown clock runs ahead.* `device-clock.tsx:18` and `:45` add the time since
    the page was mounted to an estimate that each poll renews, so a page that stays
    open shows a time ahead by as long as it was open when it polled
    (`ClockComesRight` states exactly that).
18. The drift is measured against the arrival of the upload
    (`attendance.service.ts:108`), where `devices.ts:134-138` speaks of the wall clock at
    the punch: punches uploaded late count
    as drift, and a new label keeps the drift measured under the old one.
19. `timezone_synced_at` is set when the command is queued, and shown as "Time
    synced ... ago". `manual-time-card.tsx:44-51` calls the advancing estimate a
    snapshot of the last punch; `time-drift-card.tsx:103-109` says the helper fills
    in the current time, but it loads the drifted estimate.
20. The answer to "Get options" starts with the serial number, so its address goes into
    the info section and the pattern of `command.service.ts:114` does not match it: the
    network card keeps the old one (`SnapshotsAgree` exempts those keys).
    `timezone.ts:7-9` speaks of pushes by the device monitor around a clock change;
    there is no such code. `time-sync.ts` and `pushSettingsPatch` have no caller.

Members and terminals

21. A user typed in at a terminal becomes a member without a link, and a removal that
    expires, is cancelled or fails is not tried again: either leaves a user on a terminal
    that no later delete goes to (`NoGhostUser` exempts them). An inbound update skips
    linked terminals that are offline (`members/route.ts:201-202`) and nothing pushes it
    later (`AgreeUnlessCrossed` exempts them). A `delete` that overlaps an `update`, a push or a transfer of the same member
    can leave the user on a terminal, with no row to find it by; an OPERLOG record
    that arrives late brings a deleted member back, creates no link, and takes a
    profile back to what the terminal had.
22. `schema/tenant.ts:164` lets the inbound API upsert "even if the PIN changes". It
    adds the new PIN and never removes the old one from the terminals: `calm` ends
    with a renumbering. Without `externalId` it sets the stored one to null, and no
    unique index keeps two overlapping calls from giving two members one external
    id.
23. `pushBiometricsToDevices` (`employees.ts:510-515`) sends the user with
    privilege 0 and no card or password; the terminal's next report
    (`attendance.service.ts:148-152`) writes that into the dashboard. Reports never
    carry a password back, and what one terminal reports is pushed to no other.
24. `packages/shared/src/parser.ts:100` says that `fid` is ignored for faces and palms; the ingest keys
    them by it. A handshake resets the family, so what is queued before the next
    INFO is in the modern dialect and refused by an old terminal; so is, after the INFO,
    what a call queues that read the family before (`employees.ts:204`, `:275`, `:348`,
    `:500`, `members/route.ts:122`, once for a whole batch).
25. The action `clear_data` of `devices.queueCommand` empties a terminal and leaves
    the links.
26. `packages/db/migrations` lacks the columns and tables that `schema/tenant.ts`
    and the code use for external ids, inbound keys, voiding, groups and
    integrations. The models follow the schema.

Pages

27. The member page's query selects neither role, privilege, card nor state, so
    the form shows their defaults: the first click on Active sends
    `enabled: false`. The page says that saving only saves
    (`members/[id]/page.tsx:558-560`), but `update` pushes; and that disabled members
    cannot punch, which no push carries.
28. What is typed while a save is under way is lost when it succeeds. The copy
    forms of groups and locations overwrite what others saved meanwhile; the Add
    form keeps its values after Cancel, and a create answered late empties the edit
    dialog open by then (`CopiesAreOfTheirRow` exempts a save whose form
    was `blanked`). A refetch of the
    shift window overwrites what is being typed.
29. The password dialog keeps password and reason after Cancel and after it is
    closed by a success, and forgets them on Escape. On the settings and groups pages
    and for transfers a success closes whichever dialog of the kind is open by then
    (`ClosedIsDone` is of the terminal's page, which locks its openers). The transfer
    dialog keeps a chosen terminal that its list no longer offers. A deletion
    answered late leads away from wherever its operator is.
30. The page of a terminal asks for its newest 15 commands (`devices/[id]/page.tsx:105`):
    what became of an older one is shown nowhere (`ListComesRight` exempts it). A delete
    whose audit row fails has deleted, shows an error and refetches nothing, so the
    list keeps the record until its next poll or visit.

## 6. Not modelled

- The legacy server (excluded from compilation), process bootstrap, authentication
  (a library), encryption and the formatting of integration payloads: no state or
  control of this code's own.
- `classifyPunch` and `nextDstTransition`: pure functions of one value, for the
  unit tests; nothing decides on them. The second has no caller.
- The columns of a punch other than those its views use, a member's photo and role,
  logging, layout, navigation beyond the five pages of `ConfirmDialogs`, the
  overview pages, the enrollment and new-tenant pages, the live feed.
- Option commands of the settings page and commands sent by hand (`add_user`,
  `delete_user`) as to their content; that they are queued, delivered and answered is
  in `OperatorConsole` and `CommandQueue`.
- Arguments no page uses: `deviceIds` of `pushUpdateToDevices`,
  `alsoRemoveFromDevices: false`.
- The `sync_targets` table, which no worker reads.

## 7. Plan

Done: the queue, the sync, the router with the part of provisioning it depends
on, liveness, the ingest with the conversion of clocks, the roster, the console
with its gate and trail, the views of attendance, a terminal's settings and
clock, the users on terminals in both dialects, the forms and the dialogs; and a
theorem for every safety property a run checks.

Left, in the order of what they would add:

1. The compositions: `AttendanceIngest` and `SyncDelivery` as one module, where so far
   each implements `AttendanceLog`; `MemberRoster` over `CommandQueue` in place of
   `newest` and `owed`.
2. `NoGhostWhenAlone` is about what a terminal holds of a PIN and `TerminalsAgree` about
   what it says of the member: a lemma that ties the roster's `newest` to the last user
   line of `TerminalUsers`.
3. `classifyPunch` against a reference definition over bounded days.
4. The enrollment page with its polled progress, and the live feed.
