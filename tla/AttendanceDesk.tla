---------------------------- MODULE AttendanceDesk ----------------------------
(***************************************************************************)
(* What the dashboard makes of attendance_logs: the attendance page with   *)
(* its filters, pages, counts and duplicates panel, the member timesheet,  *)
(* the reports, the CSV export, and the corrections made from the page.    *)
(* Terminals keep sending punches, members come and go, and every tab acts *)
(* on answers the server gave it a while ago.                              *)
(*                                                                         *)
(* A punch is its unique key (device_sn, pin, punch_time); fact gives what *)
(* never changes about it.  Only recent punches are followed, so the       *)
(* reports' windows and the panel's 14 days hold all of them; free-text    *)
(* search and date limits are filters like the ones kept here.  The        *)
(* operator password and the audit row are OperatorConsole's subject.      *)
(***************************************************************************)
EXTENDS Integers, FiniteSets

CONSTANTS LogKeys, fact,    \* fact[p]: device, site, pin, day, minute, at, type
          Filters,          \* filters an operator may set
          Tabs, Watching,   \* open attendance pages; those whose table is followed
          PageSize,
          ReportLimit,      \* lines of the report by member: 100
          All, None,
          MaxMoves            \* bound on members' comings and goings

ASSUME DeskAssumption ==
    /\ IsFiniteSet(LogKeys)
    /\ \A p \in LogKeys : fact[p].type \in {"in", "out"} /\ fact[p].at \in Nat
    /\ \A p, q \in LogKeys : p # q => fact[p].at # fact[q].at
    /\ Watching \subseteq Tabs
    /\ PageSize \in Nat \ {0} /\ ReportLimit \in Nat /\ MaxMoves \in Nat

VARIABLES rows,         \* attendance_logs: when it was created, whether a member
                        \* is linked, whether (and from where) it was voided
          member,       \* the pins that belong to a member
          filter, page, \* a followed table's controls
          list, total,  \* the answers it shows (None: loading)
          panel,        \* the duplicate groups a tab shows
          dialog,       \* the punch its void dialog names, and where it was picked
          moves

tableVars == <<filter, page, list, total>>
tabVars == <<tableVars, panel, dialog>>
deskVars == <<rows, member, tabVars, moves>>

LoggedPins == {fact[p].pin : p \in LogKeys}
Places == {"panel", "table"}
Target == [punch : LogKeys, from : Places]
NoRow == [born |-> 0, linked |-> FALSE, voided |-> "no"]

-----------------------------------------------------------------------------
(* The queries                                                             *)

Stored(p) == rows[p].born > 0
Live(p) == Stored(p) /\ rows[p].voided = "no"
LiveRows == {p \in LogKeys : Live(p)}

Passes(f, p) ==
    /\ f.device \in {All, fact[p].device}
    /\ f.site \in {All, fact[p].site}
    /\ f.type \in {All, fact[p].type}

Matching(f) == {p \in LiveRows : Passes(f, p)}
Newer(S, p) == {q \in S : fact[q].at > fact[p].at}

\* attendance.list: ORDER BY punch_time DESC LIMIT .. OFFSET.
Listed(f, n) ==
    {p \in Matching(f) :
        Cardinality(Newer(Matching(f), p)) \in n * PageSize .. (n + 1) * PageSize - 1}

CountsAll(f) == Cardinality(LiveRows)
Counted(f) == Cardinality(Matching(f))

\* attendance.duplicates: one group per pin, member and minute, oldest row first.
SameMinute(p) ==
    {q \in LiveRows : /\ fact[q].pin = fact[p].pin
                      /\ fact[q].minute = fact[p].minute
                      /\ rows[q].linked = rows[p].linked}
EarliestPunch(G) == CHOOSE p \in G : \A q \in G : fact[p].at <= fact[q].at
OldestRow(G) == CHOOSE p \in G : \A q \in G : rows[p].born <= rows[q].born
Duplicates ==
    {[first |-> OldestRow(G), others |-> G \ {OldestRow(G)}] :
        G \in {S \in {SameMinute(p) : p \in LiveRows} : Cardinality(S) > 1}}

\* The reports: how many punches each GROUP BY puts in each of its groups.
Tally(S, key(_)) == [k \in {key(p) : p \in S} |-> Cardinality({p \in S : key(p) = k})]
OfMembersOnly == Tally({p \in LiveRows : rows[p].linked}, LAMBDA p : <<fact[p].pin, TRUE>>)
EmployeeGroups == Tally(LiveRows, LAMBDA p : <<fact[p].pin, rows[p].linked>>)
reportByDevice == Tally(LiveRows, LAMBDA p : fact[p].device)
reportDaily == Tally(LiveRows, LAMBDA p : fact[p].day)

\* ORDER BY punches DESC LIMIT 100: the answers the report by member may give, since
\* nothing says which of equal groups are cut off.
AtMost(n, limit) == IF n <= limit THEN n ELSE limit
TopGroups ==
    LET D == DOMAIN EmployeeGroups IN
    {K \in SUBSET D : /\ Cardinality(K) = AtMost(Cardinality(D), ReportLimit)
                      /\ \A k \in K, l \in D \ K : EmployeeGroups[k] >= EmployeeGroups[l]}
reportByEmployee == {[k \in K |-> EmployeeGroups[k]] : K \in TopGroups}

\* The timesheet of the member who has the pin: a day's punches, from the first
\* "in" and the last "out" of which it works out the hours.
DayPunches(pin, day) ==
    {p \in LogKeys : /\ Stored(p) /\ rows[p].linked
                     /\ fact[p].pin = pin /\ fact[p].day = day}

\* The CSV: the page passes it every filter but the site, and the route has no
\* condition on voided_at.
Exported(f) == {p \in LogKeys : Stored(p) /\ Passes([f EXCEPT !.site = All], p)}

-----------------------------------------------------------------------------

DeskTypeOK ==
    /\ rows \in [LogKeys -> [born : 0 .. Cardinality(LogKeys), linked : BOOLEAN,
                             voided : {"no"} \cup Places]]
    /\ member \subseteq LoggedPins
    /\ filter \in [Watching -> Filters] /\ page \in [Watching -> Nat]
    /\ list \in [Watching -> (SUBSET LogKeys) \cup {None}]
    /\ total \in [Watching -> Nat \cup {None}]
    /\ panel \in [Tabs -> SUBSET [first : LogKeys, others : SUBSET LogKeys]]
    /\ dialog \in [Tabs -> Target \cup {None}]
    /\ moves \in 0 .. MaxMoves

DeskInit ==
    /\ rows = [p \in LogKeys |-> NoRow]
    /\ member \in SUBSET LoggedPins
    /\ filter \in [Watching -> Filters]
    /\ page = [t \in Watching |-> 0]
    /\ list = [t \in Watching |-> None] /\ total = [t \in Watching |-> None]
    /\ panel = [t \in Tabs |-> {}]
    /\ dialog = [t \in Tabs |-> None]
    /\ moves = 0

-----------------------------------------------------------------------------
(* Terminals and members                                                   *)

InsertedRow(p) == [born |-> Cardinality({q \in LogKeys : Stored(q)}) + 1,
                   linked |-> fact[p].pin \in member,
                   voided |-> "no"]

\* The upload's INSERT .. ON CONFLICT DO NOTHING.
Upserted(p) == IF Stored(p) THEN rows[p] ELSE InsertedRow(p)

\* A terminal sends a punch, for the first time or again.
UploadPunch(p) ==
    /\ rows' = [rows EXCEPT ![p] = Upserted(p)]
    /\ UNCHANGED <<member, tabVars, moves>>

\* insertManual has no ON CONFLICT: a key already there is an error.
insertManual(p) ==
    /\ ~Stored(p)
    /\ fact[p].pin \in member
    /\ rows' = [rows EXCEPT ![p] = InsertedRow(p)]
    /\ UNCHANGED <<member, tabVars, moves>>

\* Rows that arrived before the member stay unlinked.
CreateMember(pin) ==
    /\ moves < MaxMoves /\ moves' = moves + 1
    /\ pin \notin member
    /\ member' = member \cup {pin}
    /\ UNCHANGED <<rows, tabVars>>

\* ON DELETE SET NULL.
Unlinked(pin) ==
    [p \in LogKeys |-> IF fact[p].pin = pin THEN [rows[p] EXCEPT !.linked = FALSE] ELSE rows[p]]

DeleteMember(pin) ==
    /\ moves < MaxMoves /\ moves' = moves + 1
    /\ pin \in member
    /\ member' = member \ {pin}
    /\ rows' = Unlinked(pin)
    /\ UNCHANGED tabVars

-----------------------------------------------------------------------------
(* A tab's table                                                           *)

SetFilter(t, f) ==
    /\ f # filter[t]
    /\ filter' = [filter EXCEPT ![t] = f]
    /\ page' = [page EXCEPT ![t] = 0]
    /\ list' = [list EXCEPT ![t] = None]
    /\ total' = [total EXCEPT ![t] = None]
    /\ UNCHANGED <<rows, member, panel, dialog, moves>>

TotalPages(t) ==
    LET n == IF total[t] = None THEN 0 ELSE total[t]
    IN  IF n = 0 THEN 1 ELSE (n + PageSize - 1) \div PageSize

\* The buttons are there only below a table that has rows.
Turn(t, n) ==
    /\ list[t] # None /\ list[t] # {}
    /\ n # page[t]
    /\ page' = [page EXCEPT ![t] = n]
    /\ list' = [list EXCEPT ![t] = None]
    /\ UNCHANGED <<rows, member, filter, total, panel, dialog, moves>>

NextPage(t) == page[t] < TotalPages(t) - 1 /\ Turn(t, page[t] + 1)
PrevPage(t) == page[t] > 0 /\ Turn(t, page[t] - 1)

\* Both queries are polled every 10 s, each on its own.  A key shown again
\* starts from loading here: the answer kept from before is as old as one a
\* tab that stayed could still show.
FetchList(t) ==
    /\ list' = [list EXCEPT ![t] = Listed(filter[t], page[t])]
    /\ UNCHANGED <<rows, member, filter, page, total, panel, dialog, moves>>

FetchCount(t) ==
    /\ total' = [total EXCEPT ![t] = Counted(filter[t])]
    /\ UNCHANGED <<rows, member, filter, page, list, panel, dialog, moves>>

\* Not polled: on mount, on focus, or after a void of the tab's own.
FetchPanel(t) ==
    /\ panel' = [panel EXCEPT ![t] = Duplicates]
    /\ UNCHANGED <<rows, member, tableVars, dialog, moves>>

-----------------------------------------------------------------------------
(* Voiding a punch                                                         *)

\* The panel has a button for every row of a group but its first.
Offered(t) == UNION {g.others : g \in panel[t]}

\* Rows are picked from the tables that are followed.
InTable(t) == IF t \in Watching /\ list[t] # None THEN list[t] ELSE {}

Pick(t, p, from) ==
    /\ dialog[t] = None
    /\ p \in (IF from = "panel" THEN Offered(t) ELSE InTable(t))
    /\ dialog' = [dialog EXCEPT ![t] = [punch |-> p, from |-> from]]
    /\ UNCHANGED <<rows, member, tableVars, panel, moves>>

Cancel(t) ==
    /\ dialog[t] # None
    /\ dialog' = [dialog EXCEPT ![t] = None]
    /\ UNCHANGED <<rows, member, tableVars, panel, moves>>

\* A request is one step, at the moment the server carries it out; the button
\* is locked until the answer is there.
VoidTarget(t) ==
    /\ dialog[t] # None /\ Live(dialog[t].punch)
    /\ rows' = [rows EXCEPT ![dialog[t].punch].voided = dialog[t].from]

\* onSuccess closes the dialog and refetches list, count and panel.
VoidDone(t) ==
    /\ VoidTarget(t)
    /\ dialog' = [dialog EXCEPT ![t] = None]
    /\ UNCHANGED <<member, tableVars, panel, moves>>

\* The answer is lost: the tab shows an error, as it does for a punch that is
\* voided already, and keeps the dialog.
VoidUnheard(t) ==
    /\ VoidTarget(t)
    /\ UNCHANGED <<member, tableVars, panel, dialog, moves>>

\* An operator whose tab is not followed voids a punch from its table.
VoidElsewhere(p) ==
    /\ Live(p)
    /\ rows' = [rows EXCEPT ![p].voided = "table"]
    /\ UNCHANGED <<member, tabVars, moves>>

-----------------------------------------------------------------------------

DeskNext ==
    \/ \E p \in LogKeys : UploadPunch(p) \/ insertManual(p) \/ VoidElsewhere(p)
    \/ \E pin \in LoggedPins : CreateMember(pin) \/ DeleteMember(pin)
    \/ \E t \in Watching :
          \/ \E f \in Filters : SetFilter(t, f)
          \/ NextPage(t) \/ PrevPage(t) \/ FetchList(t) \/ FetchCount(t)
    \/ \E t \in Tabs :
          \/ FetchPanel(t)
          \/ \E p \in LogKeys, from \in Places : Pick(t, p, from)
          \/ Cancel(t) \/ VoidDone(t) \/ VoidUnheard(t)

DeskSpec == DeskInit /\ [][DeskNext]_deskVars

\* The 10 s polls of list and count.
Fairness == \A t \in Watching : WF_deskVars(FetchList(t)) /\ WF_deskVars(FetchCount(t))

FairDeskSpec == DeskSpec /\ Fairness

-----------------------------------------------------------------------------
(* Properties                                                              *)

\* The panel's promise, "Void the duplicate keeping the original": however old
\* the panels are and however many operators work through them, whatever was
\* voided from a panel still has, in its minute, an older row of the same pin
\* that no panel has voided.
PanelKeepsTheOriginal ==
    \A p \in LogKeys : rows[p].voided = "panel" =>
        \E q \in LogKeys :
            /\ fact[q].pin = fact[p].pin /\ fact[q].minute = fact[p].minute
            /\ rows[q].born \in 1 .. rows[p].born - 1
            /\ rows[q].voided # "panel"

\* "Showing a-b of total": the list and its total are two queries answered at
\* different times, and voids may go unheard or be another operator's; yet every
\* table that stays open comes to show live punches only, and to end with the
\* last of them on its last page.
ShowsLiveRows(t) == \A p \in list[t] : Live(p)
EndsAtTotal(t) == page[t] + 1 = TotalPages(t) =>
                      page[t] * PageSize + Cardinality(list[t]) = total[t]
TableComesRight ==
    \A t \in Watching :
        []<>(list[t] = None \/ total[t] = None \/ (ShowsLiveRows(t) /\ EndsAtTotal(t)))

\* The reports cut the same punches in three ways and the attendance page
\* counts them a fourth: none counts a punch twice or loses one, whether its
\* pin belongs to a member or not, but that the report by member falls short
\* as soon as there are more groups than it has lines.
Under(f) == UNION {{<<k, i>> : i \in 1 .. f[k]} : k \in DOMAIN f}
SumOf(f) == Cardinality(Under(f))
NoFilter == [device |-> All, site |-> All, type |-> All]
ReportsAgree ==
    /\ SumOf(reportByDevice) = Counted(NoFilter)
    /\ SumOf(reportDaily) = Counted(NoFilter)
    /\ \A r \in reportByEmployee :
          IF Cardinality(DOMAIN EmployeeGroups) <= ReportLimit
          THEN SumOf(r) = Counted(NoFilter)
          ELSE SumOf(r) < Counted(NoFilter)

\* A correction does not reach the CSV and the timesheets: what they hold stays there,
\* voided or not, until the member of the timesheet is deleted.
ExportsKeepVoids ==
    [][\A p \in LogKeys :
          /\ p \in Exported(NoFilter) => p \in Exported(NoFilter)'
          /\ p \in DayPunches(fact[p].pin, fact[p].day)
                => \/ p \in DayPunches(fact[p].pin, fact[p].day)'
                   \/ fact[p].pin \notin member']_deskVars

\* What the desk makes of the table leaves it an AttendanceLog: members who come and go
\* and voids from many tabs bring no row back and lose none.
DeskLog == INSTANCE AttendanceLog
             WITH Keys <- LogKeys, stored <- {p \in LogKeys : Stored(p)},
                  voided <- {p \in LogKeys : rows[p].voided # "no"}
DeskLogSpec == DeskLog!Spec
=============================================================================
