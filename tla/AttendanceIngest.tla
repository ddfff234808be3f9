-------------------------- MODULE AttendanceIngest --------------------------
(***************************************************************************)
(* From a punch on one terminal to a row of attendance_logs: POST /cdata   *)
(* answers OK before anything is stored, ingestAttlog reads the device's   *)
(* timezone label once, converts each row's wall clock with it and inserts *)
(* the row unless (device_sn, pin, punch_time) is there.  Uploads of the   *)
(* device overlap, operators change the label, void rows and insert their  *)
(* own.                                                                    *)
(*                                                                         *)
(* Times are hours; a zone is its offset at each hour of Hours.  The       *)
(* terminal's clock shows deviceZone's wall clock, label is what the       *)
(* dashboard believes.  punch_type, verify_mode and the other columns are  *)
(* payload.                                                                *)
(***************************************************************************)
EXTENDS Integers, Sequences, SequencesExt, FiniteSets

CONSTANTS Pins, Instants,   \* who may punch, and when
          Hours,            \* every hour a conversion may look at
          Zones, offset,    \* offset[z][h]: the zone's distance from UTC at h
          deviceZone,       \* the rule the terminal's own clock follows
          Uploads,          \* uploads that may be in progress at once
          MaxManual,        \* bound on rows an operator inserts
          Budget            \* bound on crashes, failed statements, lost uploads

WallOf(i) == i + offset[deviceZone][i]

ASSUME IngestAssumption ==
    /\ Hours \subseteq Int
    /\ Instants \subseteq Hours
    /\ offset \in [Zones -> [Hours -> Int]]
    /\ deviceZone \in Zones
    /\ \A i \in Instants : WallOf(i) \in Hours
    /\ MaxManual \in Nat /\ Budget \in Nat

Punches == [pin : Pins, at : Instants]

VARIABLES made,     \* punches that happened
          unsent,   \* punches the terminal has had no OK for
          label,    \* devices.timezone
          pc, body, zone, \* an upload's place, rows left, label it read
          table,    \* attendance_logs, in order of insertion
          spent

terminalVars == <<made, unsent>>
uploadVars == <<pc, body, zone>>
vars == <<terminalVars, label, uploadVars, table, spent>>

\* A row is known by its unique key; "of" and "zone" record where it came
\* from ("of" is empty for a row an operator inserted).
Row == [pin : Pins, time : Int, of : SUBSET Punches, zone : Zones, voided : BOOLEAN]

TypeOK ==
    /\ made \subseteq Punches /\ unsent \subseteq made
    /\ label \in Zones
    /\ pc \in [Uploads -> {"idle", "reading", "inserting"}]
    /\ body \in [Uploads -> SUBSET made]
    /\ zone \in [Uploads -> Zones]
    /\ \A u \in Uploads : pc[u] = "idle" => body[u] = {}
    /\ table \in Seq(Row)
    /\ spent \in 0 .. Budget

Init ==
    /\ made = {} /\ unsent = {}
    /\ label \in Zones
    /\ pc = [u \in Uploads |-> "idle"]
    /\ body = [u \in Uploads |-> {}]
    /\ zone = [u \in Uploads |-> deviceZone]
    /\ table = << >>
    /\ spent = 0

-----------------------------------------------------------------------------
(* The terminal                                                            *)

Punch(p) ==
    /\ p \notin made
    /\ made' = made \cup {p}
    /\ unsent' = unsent \cup {p}
    /\ UNCHANGED <<label, uploadVars, table, spent>>

\* The terminal posts what it holds.  The answer is OK whatever becomes of
\* the rows; if it is lost the terminal will post them again.
Upload(u) ==
    /\ pc[u] = "idle" /\ unsent # {}
    /\ pc' = [pc EXCEPT ![u] = "reading"]
    /\ body' = [body EXCEPT ![u] = unsent]
    /\ unsent' \in {{}, unsent}
    /\ UNCHANGED <<made, label, zone, table, spent>>

-----------------------------------------------------------------------------
(* ingestAttlog                                                            *)

ReadZone(u) ==
    /\ pc[u] = "reading"
    /\ pc' = [pc EXCEPT ![u] = "inserting"]
    /\ zone' = [zone EXCEPT ![u] = label]
    /\ UNCHANGED <<terminalVars, label, body, table, spent>>

\* real_UTC = wall - offset, with the offset the zone has at the wall clock
\* read as UTC; and with the wrong sign.
AddsOffset(wall, z) == wall + offset[z][wall]
deviceWallToUtc(wall, z) == wall - offset[z][wall]

TimeOf(p, z) == deviceWallToUtc(WallOf(p.at), z)

\* The unique index on (device_sn, pin, punch_time); none; and one of live rows only.
NoIndex(pin, time) == FALSE
LiveConflict(pin, time) ==
    \E i \in DOMAIN table : table[i].pin = pin /\ table[i].time = time /\ ~table[i].voided
Conflict(pin, time) == \E i \in DOMAIN table : table[i].pin = pin /\ table[i].time = time

\* The rows the loop has left after p, whose INSERT may do nothing but does
\* not throw; and those it has left if a conflict ended it.
RestUnlessConflict(u, p) == IF Conflict(p.pin, TimeOf(p, zone[u])) THEN {} ELSE body[u] \ {p}
Rest(u, p) == body[u] \ {p}

InsertRow(u, p) ==
    /\ pc[u] = "inserting" /\ p \in body[u]
    /\ body' = [body EXCEPT ![u] = Rest(u, p)]
    /\ table' = IF Conflict(p.pin, TimeOf(p, zone[u])) THEN table
                ELSE Append(table, [pin |-> p.pin, time |-> TimeOf(p, zone[u]), of |-> {p},
                                    zone |-> zone[u], voided |-> FALSE])
    /\ UNCHANGED <<terminalVars, label, pc, zone, spent>>

AtLastRow(u) == body[u] = {}

EndUpload(u) ==
    /\ pc[u] = "inserting" /\ AtLastRow(u)
    /\ pc' = [pc EXCEPT ![u] = "idle"]
    /\ zone' = [zone EXCEPT ![u] = deviceZone]
    /\ UNCHANGED <<terminalVars, label, body, table, spent>>

\* A row's INSERT fails: it is logged and the loop goes on.
RowFails(u, p) ==
    /\ pc[u] = "inserting" /\ p \in body[u] /\ spent < Budget
    /\ body' = [body EXCEPT ![u] = @ \ {p}]
    /\ spent' = spent + 1
    /\ UNCHANGED <<terminalVars, label, pc, zone, table>>

\* The serial number resolves to no tenant, or the label cannot be read.
UploadFails(u) ==
    /\ pc[u] = "reading" /\ spent < Budget
    /\ pc' = [pc EXCEPT ![u] = "idle"]
    /\ body' = [body EXCEPT ![u] = {}]
    /\ spent' = spent + 1
    /\ UNCHANGED <<terminalVars, label, zone, table>>

AdmsCrash ==
    /\ spent < Budget
    /\ pc' = [u \in Uploads |-> "idle"]
    /\ body' = [u \in Uploads |-> {}]
    /\ zone' = [u \in Uploads |-> deviceZone]
    /\ spent' = spent + 1
    /\ UNCHANGED <<terminalVars, label, table>>

-----------------------------------------------------------------------------
(* The dashboard                                                           *)

UpdateTimezone(z) ==
    /\ label' = z
    /\ UNCHANGED <<terminalVars, uploadVars, table, spent>>

\* A voided row keeps its place in the table.
VoidIt(i) == [table EXCEPT ![i].voided = TRUE]

Void(i) ==
    /\ i \in DOMAIN table /\ ~table[i].voided
    /\ table' = VoidIt(i)
    /\ UNCHANGED <<terminalVars, label, uploadVars, spent>>

\* insertManual has no ON CONFLICT: a second row for the key is an error.
InsertManual(pin, time) ==
    /\ Cardinality({i \in DOMAIN table : table[i].of = {}}) < MaxManual
    /\ ~Conflict(pin, time)
    /\ table' = Append(table, [pin |-> pin, time |-> time, of |-> {}, zone |-> label,
                               voided |-> FALSE])
    /\ UNCHANGED <<terminalVars, label, uploadVars, spent>>

-----------------------------------------------------------------------------
Ingest(u) ==
    \/ ReadZone(u) \/ EndUpload(u)
    \/ \E p \in body[u] : InsertRow(u, p)

Next ==
    \/ \E p \in Punches : Punch(p)
    \/ \E u \in Uploads : Upload(u) \/ Ingest(u) \/ UploadFails(u)
    \/ \E u \in Uploads : \E p \in body[u] : RowFails(u, p)
    \/ AdmsCrash
    \/ \E z \in Zones : UpdateTimezone(z)
    \/ \E i \in DOMAIN table : Void(i)
    \/ \E pin \in Pins, i \in Instants : InsertManual(pin, i)

Spec == Init /\ [][Next]_vars

-----------------------------------------------------------------------------
(* Properties                                                              *)

\* However often and from however many overlapping uploads a punch arrives,
\* it has one row for each label it was converted with: repeats add nothing,
\* and what an operator voided does not come back while the label stays.
OneRowPerLabel ==
    \A i, j \in DOMAIN table :
        table[i].of = table[j].of /\ table[i].of # {} /\ table[i].zone = table[j].zone => i = j

\* Until the first crash or failing statement, what the terminal believes
\* delivered is stored, in its own row or behind the row that has its key,
\* or in the hands of an upload.  Not longer: the OK comes first.
Held(p) == \E z \in Zones : Conflict(p.pin, TimeOf(p, z))
AckedIsHeld ==
    spent = 0 => \A p \in made \ unsent : Held(p) \/ \E u \in Uploads : p \in body[u]

\* No clock change lies between hour i and the hour its wall clock would be in UTC.
Settled(i) ==
    \A h \in Hours : (i <= h /\ h <= WallOf(i)) \/ (WallOf(i) <= h /\ h <= i)
                        => offset[deviceZone][h] = offset[deviceZone][i]

\* Under the label that is the terminal's zone a row's time is the moment of
\* the punch, unless a clock change is near: then it is off by that change.
StoredIsInstant ==
    \A i \in DOMAIN table : table[i].zone = deviceZone =>
        \A p \in table[i].of :
            /\ Settled(p.at) => table[i].time = p.at
            /\ table[i].time - p.at = offset[deviceZone][p.at] - offset[deviceZone][WallOf(p.at)]

\* The log never forgets: rows stay, in place, with key and origin, and a
\* void is final.
SameFact(r, s) == r.pin = s.pin /\ r.time = s.time /\ r.of = s.of /\ r.zone = s.zone
LogOnlyGrows ==
    [][\A i \in DOMAIN table :
          /\ i \in DOMAIN table' /\ SameFact(table'[i], table[i])
          /\ table[i].voided => table'[i].voided]_vars

\* The table is an AttendanceLog: whatever uploads, crashes, labels and operators do, a
\* key that was voided never counts again.
KeyOf(r) == <<r.pin, r.time>>
KeysOf == {<<p.pin, TimeOf(p, z)>> : p \in Punches, z \in Zones} \cup (Pins \X Instants)
StoredKeys == {KeyOf(table[i]) : i \in DOMAIN table}
LiveKeys == {KeyOf(table[i]) : i \in {j \in DOMAIN table : ~table[j].voided}}
Log == INSTANCE AttendanceLog
         WITH Keys <- KeysOf, stored <- StoredKeys, voided <- StoredKeys \ LiveKeys
LogSpec == Log!Spec
=============================================================================
