------------------------ MODULE AttendanceIngest_proofs ------------------------
(***************************************************************************)
(* AttendanceIngest, for any pins, hours, zones and number of uploads; and *)
(* at the end AttendanceDesk, what operators make of the rows, for any     *)
(* punches, tabs and filters.                                              *)
(*                                                                         *)
(* Every row the ingest wrote is the conversion of a punch with the label  *)
(* its upload read, however the label changed meanwhile.  So a punch that  *)
(* comes again with the same label meets the unique key of its own row.    *)
(***************************************************************************)
EXTENDS AttendanceIngest, AttendanceDesk, FiniteSetTheorems, WellFoundedInduction, TLAPS

RowsAreConverted ==
    \A i \in DOMAIN table :
        /\ table[i].of = {} \/ \E p \in Punches : table[i].of = {p}
        /\ \A p \in table[i].of :
               table[i].pin = p.pin /\ table[i].time = TimeOf(p, table[i].zone)

IInv == TypeOK /\ RowsAreConverted /\ OneRowPerLabel

-----------------------------------------------------------------------------
(* Lemmas about the operators                                              *)

\* A conversion is a whole hour.
LEMMA TimeIsInt ==
    ASSUME NEW p \in Punches, NEW z \in Zones
    PROVE  TimeOf(p, z) \in Int
<1>1. WallOf(p.at) \in Hours /\ WallOf(p.at) \in Int
  BY IngestAssumption DEF Punches
<1>2. offset[z][WallOf(p.at)] \in Int
  BY <1>1, IngestAssumption
<1> QED  BY <1>1, <1>2 DEF TimeOf, deviceWallToUtc

\* The row InsertRow appends.
NewRow(p, z) == [pin |-> p.pin, time |-> TimeOf(p, z), of |-> {p}, zone |-> z, voided |-> FALSE]
LEMMA NewRowIsRow ==
    ASSUME NEW p \in Punches, NEW z \in Zones
    PROVE  NewRow(p, z) \in Row
BY TimeIsInt DEF NewRow, Row, Punches

\* Voiding changes one column of one row.
LEMMA VoidIsLocal ==
    ASSUME table \in Seq(Row), NEW i \in DOMAIN table, table' = VoidIt(i)
    PROVE  /\ table' \in Seq(Row) /\ DOMAIN table' = DOMAIN table
           /\ \A j \in DOMAIN table : /\ SameFact(table'[j], table[j])
                                      /\ table[j].voided => table'[j].voided
<1> DEFINE row == [table[i] EXCEPT !.voided = TRUE]
<1>1. table[i] \in Row
  OBVIOUS
<1>2. row \in Row /\ SameFact(row, table[i]) /\ row.voided
  BY <1>1 DEF Row, SameFact
<1>3. table' = [table EXCEPT ![i] = row]
  BY DEF VoidIt
<1> HIDE DEF row
<1>4. table' \in Seq(Row) /\ DOMAIN table' = DOMAIN table
  BY <1>2, <1>3
<1>5. table'[i] = row /\ \A j \in DOMAIN table : j # i => table'[j] = table[j]
  BY <1>3
<1> QED  BY <1>2, <1>4, <1>5 DEF SameFact

\* Appending or voiding a row never frees a key.
LEMMA KeysStay ==
    ASSUME table \in Seq(Row), NEW pin, NEW time, Conflict(pin, time),
           \/ UNCHANGED table
           \/ \E row \in Row : table' = Append(table, row)
           \/ \E i \in DOMAIN table : table' = VoidIt(i)
    PROVE  Conflict(pin, time)'
<1>1. CASE UNCHANGED table
  BY <1>1 DEF Conflict
<1>2. ASSUME NEW row \in Row, table' = Append(table, row)
      PROVE  Conflict(pin, time)'
  BY <1>2 DEF Conflict
<1>3. ASSUME NEW i \in DOMAIN table, table' = VoidIt(i)
      PROVE  Conflict(pin, time)'
  BY <1>3, VoidIsLocal DEF Conflict, SameFact
<1> QED  BY <1>1, <1>2, <1>3

\* What a step can do to the table.
LEMMA TableSteps ==
    ASSUME TypeOK, [Next]_vars
    PROVE  \/ UNCHANGED table
           \/ \E u \in Uploads, p \in Punches :
                 /\ InsertRow(u, p) /\ p \in body[u]
                 /\ ~Conflict(p.pin, TimeOf(p, zone[u]))
                 /\ table' = Append(table, NewRow(p, zone[u]))
           \/ \E row \in Row : row.of = {} /\ table' = Append(table, row)
           \/ \E i \in DOMAIN table : table' = VoidIt(i)
<1> USE DEF terminalVars, uploadVars
<1>1. ASSUME NEW u \in Uploads, NEW p \in body[u], InsertRow(u, p)
      PROVE  \/ UNCHANGED table
             \/ /\ p \in Punches /\ ~Conflict(p.pin, TimeOf(p, zone[u]))
                /\ table' = Append(table, NewRow(p, zone[u]))
  BY <1>1 DEF InsertRow, NewRow, TypeOK
<1>2. ASSUME NEW pin \in Pins, NEW i \in Instants, InsertManual(pin, i)
      PROVE  \E row \in Row : row.of = {} /\ table' = Append(table, row)
  <2> DEFINE row == [pin |-> pin, time |-> i, of |-> {}, zone |-> label, voided |-> FALSE]
  <2>1. row \in Row /\ row.of = {}
    BY IngestAssumption DEF Row, TypeOK
  <2>2. table' = Append(table, row)
    BY <1>2 DEF InsertManual
  <2> QED  BY <2>1, <2>2
<1>3. ASSUME NEW i \in DOMAIN table, Void(i)
      PROVE  table' = VoidIt(i)
  BY <1>3 DEF Void
<1>4. CASE \/ \E p \in Punches : Punch(p)
           \/ \E u \in Uploads : Upload(u) \/ ReadZone(u) \/ EndUpload(u) \/ UploadFails(u)
           \/ \E u \in Uploads : \E p \in body[u] : RowFails(u, p)
           \/ AdmsCrash
           \/ \E z \in Zones : UpdateTimezone(z)
           \/ UNCHANGED vars
  BY <1>4 DEF Punch, Upload, ReadZone, EndUpload, UploadFails, RowFails, AdmsCrash,
              UpdateTimezone, vars
<1> QED  BY <1>1, <1>2, <1>3, <1>4 DEF Next, Ingest

-----------------------------------------------------------------------------
(* One step                                                                *)

LEMMA InitIsGood == Init => IInv
BY IngestAssumption DEF Init, IInv, TypeOK, RowsAreConverted, OneRowPerLabel

LEMMA TypePreserved == TypeOK /\ [Next]_vars => TypeOK'
<1> SUFFICES ASSUME TypeOK, [Next]_vars PROVE TypeOK'
  OBVIOUS
<1> USE IngestAssumption DEF TypeOK, terminalVars, uploadVars
<1>1. table' \in Seq(Row)
  <2>1. ASSUME NEW u \in Uploads, NEW p \in Punches, table' = Append(table, NewRow(p, zone[u]))
        PROVE  table' \in Seq(Row)
    BY <2>1, NewRowIsRow
  <2>2. ASSUME NEW i \in DOMAIN table, table' = VoidIt(i)
        PROVE  table' \in Seq(Row)
    BY <2>2, VoidIsLocal
  <2>3. ASSUME NEW row \in Row, table' = Append(table, row)
        PROVE  table' \in Seq(Row)
    BY <2>3
  <2> QED  BY <2>1, <2>2, <2>3, TableSteps
<1> DEFINE Others ==
                    /\ made' \subseteq Punches /\ unsent' \subseteq made'
                    /\ label' \in Zones
                    /\ pc' \in [Uploads -> {"idle", "reading", "inserting"}]
                    /\ body' \in [Uploads -> SUBSET made']
                    /\ zone' \in [Uploads -> Zones]
                    /\ \A u \in Uploads : pc'[u] = "idle" => body'[u] = {}
                    /\ spent' \in 0 .. Budget
<1>2. ASSUME NEW p \in Punches, Punch(p)
      PROVE  Others
  BY <1>2 DEF Punch
<1>3. ASSUME NEW u \in Uploads, Upload(u) \/ ReadZone(u)
      PROVE  Others
  BY <1>3 DEF Upload, ReadZone
<1>4. ASSUME NEW u \in Uploads, NEW p \in body[u], InsertRow(u, p) \/ RowFails(u, p)
      PROVE  Others
  <2>1. CASE InsertRow(u, p)
    BY <2>1 DEF InsertRow, Rest
  <2>2. CASE RowFails(u, p)
    BY <2>2 DEF RowFails
  <2> QED  BY <1>4, <2>1, <2>2
<1>5. ASSUME NEW u \in Uploads, EndUpload(u) \/ UploadFails(u)
      PROVE  Others
  <2>1. CASE EndUpload(u)
    BY <2>1 DEF EndUpload, AtLastRow
  <2>2. CASE UploadFails(u)
    BY <2>2 DEF UploadFails
  <2> QED  BY <1>5, <2>1, <2>2
<1>6. ASSUME AdmsCrash
      PROVE  Others
  BY <1>6 DEF AdmsCrash
<1>7. ASSUME \/ \E z \in Zones : UpdateTimezone(z)
             \/ \E i \in DOMAIN table : Void(i)
             \/ \E pin \in Pins, i \in Instants : InsertManual(pin, i)
             \/ UNCHANGED vars
      PROVE  Others
  <2>1. UNCHANGED <<terminalVars, uploadVars, spent>> /\ label' \in Zones
    BY <1>7 DEF UpdateTimezone, Void, InsertManual, vars
  <2> QED  BY <2>1
<1> QED  BY <1>1, <1>2, <1>3, <1>4, <1>5, <1>6, <1>7 DEF Next, Ingest

LEMMA RowsPreserved ==
    ASSUME IInv, [Next]_vars
    PROVE  RowsAreConverted' /\ OneRowPerLabel'
<1> USE DEF IInv, TypeOK, RowsAreConverted, OneRowPerLabel
<1>1. CASE UNCHANGED table
  BY <1>1 DEF TimeOf
<1>2. ASSUME NEW u \in Uploads, NEW p \in Punches, p \in body[u],
             ~Conflict(p.pin, TimeOf(p, zone[u])),
             table' = Append(table, NewRow(p, zone[u]))
      PROVE  RowsAreConverted' /\ OneRowPerLabel'
  <2>1. NewRow(p, zone[u]) \in Row
    BY NewRowIsRow
  <2>2. RowsAreConverted'
    BY <1>2, <2>1, SMTT(60) DEF NewRow
  <2>3. \A i \in DOMAIN table : ~(table[i].of = {p} /\ table[i].zone = zone[u])
    BY <1>2 DEF Conflict
  <2>4. /\ DOMAIN table' = DOMAIN table \cup {Len(table) + 1}
        /\ \A i \in DOMAIN table : table'[i] = table[i]
        /\ table'[Len(table) + 1].of = {p} /\ table'[Len(table) + 1].zone = zone[u]
    BY <1>2, <2>1 DEF NewRow
  <2>5. ASSUME NEW i \in DOMAIN table', NEW j \in DOMAIN table',
               table'[i].of = table'[j].of, table'[i].of # {}, table'[i].zone = table'[j].zone
        PROVE  i = j
    <3>1. CASE i \in DOMAIN table /\ j \in DOMAIN table
      BY <2>4, <2>5, <3>1
    <3>2. CASE i \notin DOMAIN table \/ j \notin DOMAIN table
      BY <2>3, <2>4, <2>5, <3>2
    <3> QED  BY <3>1, <3>2
  <2>6. OneRowPerLabel'
    BY <2>5
  <2> QED  BY <2>2, <2>6
<1>3. ASSUME NEW row \in Row, row.of = {}, table' = Append(table, row)
      PROVE  RowsAreConverted' /\ OneRowPerLabel'
  BY <1>3
<1>4. ASSUME NEW i \in DOMAIN table, table' = VoidIt(i)
      PROVE  RowsAreConverted' /\ OneRowPerLabel'
  <2>1. DOMAIN table' = DOMAIN table /\ \A j \in DOMAIN table : SameFact(table'[j], table[j])
    BY <1>4, VoidIsLocal
  <2>2. RowsAreConverted'
    BY <2>1 DEF SameFact, TimeOf
  <2>3. OneRowPerLabel'
    BY <2>1, Zenon DEF SameFact
  <2> QED  BY <2>2, <2>3
<1> QED  BY <1>1, <1>2, <1>3, <1>4, TableSteps

LEMMA Invariance == Spec => []IInv
<1>1. IInv /\ [Next]_vars => IInv'
  BY TypePreserved, RowsPreserved DEF IInv
<1> QED  BY <1>1, InitIsGood, PTL DEF Spec

-----------------------------------------------------------------------------
(* Theorems                                                                *)

\* Every variable of the ingest keeps its type; an idle upload holds no row.
THEOREM TypeCorrect == Spec => []TypeOK
<1>1. IInv => TypeOK
  BY DEF IInv
<1> QED  BY <1>1, Invariance, PTL

\* attendance.service.ts:79: repeated and overlapping uploads of a punch add
\* nothing while the label stays, even after its row was voided.
THEOREM RepeatsAddNothing == Spec => []OneRowPerLabel
<1>1. IInv => OneRowPerLabel
  BY DEF IInv
<1> QED  BY <1>1, Invariance, PTL

\* How far a stored row is from the moment of its punch, under any label and across
\* any clock change: the difference of two offsets, the one the terminal's clock had
\* at the punch and the one the label's zone has at the wall clock read as UTC.
ErrorIsOfTheOffsets ==
    \A i \in DOMAIN table : \A p \in table[i].of :
        table[i].time - p.at = offset[deviceZone][p.at] - offset[table[i].zone][WallOf(p.at)]

\* attendance.service.ts:16-22, for every zone and label: the error of a stored time
\* is a difference of two offsets, so a right label gives exact rows except in the
\* hours around a clock change, where they are off by that change.
THEOREM ConversionErrorIsKnown == Spec => [](StoredIsInstant /\ ErrorIsOfTheOffsets)
<1>1. ASSUME NEW p \in Punches, NEW z \in Zones
      PROVE  /\ TimeOf(p, z) - p.at = offset[deviceZone][p.at] - offset[z][WallOf(p.at)]
             /\ TimeOf(p, z) \in Int /\ p.at \in Int
             /\ offset[deviceZone][p.at] \in Int /\ offset[z][WallOf(p.at)] \in Int
  <2>1. p.at \in Hours /\ WallOf(p.at) \in Hours /\ p.at \in Int
    BY IngestAssumption DEF Punches
  <2>2. offset[deviceZone][p.at] \in Int /\ offset[z][WallOf(p.at)] \in Int
    BY <2>1, IngestAssumption
  <2> QED  BY <2>1, <2>2 DEF TimeOf, deviceWallToUtc, WallOf
<1>2. ASSUME IInv, NEW i \in DOMAIN table, NEW p \in table[i].of
      PROVE  /\ p \in Punches /\ table[i].zone \in Zones
             /\ table[i].time = TimeOf(p, table[i].zone)
  <2>1. table[i] \in Row
    BY <1>2 DEF IInv, TypeOK
  <2>2. table[i].of \in SUBSET Punches /\ table[i].zone \in Zones
    BY <2>1 DEF Row
  <2> QED  BY <1>2, <2>2 DEF IInv, RowsAreConverted
<1>3. IInv => ErrorIsOfTheOffsets
  BY <1>1, <1>2 DEF ErrorIsOfTheOffsets
<1>4. ASSUME NEW p \in Punches, Settled(p.at)
      PROVE  offset[deviceZone][WallOf(p.at)] = offset[deviceZone][p.at]
  <2>1. p.at \in Hours /\ WallOf(p.at) \in Hours /\ p.at \in Int /\ WallOf(p.at) \in Int
    BY IngestAssumption DEF Punches
  <2>2. \/ p.at <= WallOf(p.at) /\ WallOf(p.at) <= WallOf(p.at)
        \/ WallOf(p.at) <= WallOf(p.at) /\ WallOf(p.at) <= p.at
    BY <2>1
  <2> QED  BY <1>4, <2>1, <2>2 DEF Settled
<1>5. ASSUME IInv
      PROVE  StoredIsInstant
  <2> SUFFICES ASSUME NEW i \in DOMAIN table, table[i].zone = deviceZone,
                      NEW p \in table[i].of
               PROVE  /\ Settled(p.at) => table[i].time = p.at
                      /\ table[i].time - p.at
                           = offset[deviceZone][p.at] - offset[deviceZone][WallOf(p.at)]
    BY DEF StoredIsInstant
  <2>1. p \in Punches /\ table[i].time = TimeOf(p, deviceZone)
    BY <1>2, <1>5
  <2>2. /\ TimeOf(p, deviceZone) \in Int /\ p.at \in Int
        /\ offset[deviceZone][p.at] \in Int /\ offset[deviceZone][WallOf(p.at)] \in Int
        /\ TimeOf(p, deviceZone) - p.at
             = offset[deviceZone][p.at] - offset[deviceZone][WallOf(p.at)]
    BY <1>1, <2>1, IngestAssumption
  <2>3. ASSUME Settled(p.at)
        PROVE  TimeOf(p, deviceZone) = p.at
    <3>1. offset[deviceZone][WallOf(p.at)] = offset[deviceZone][p.at]
      BY <1>4, <2>1, <2>3
    <3> QED  BY <2>2, <3>1
  <2> QED  BY <2>1, <2>2, <2>3
<1> QED  BY <1>3, <1>5, Invariance, PTL

\* routes.ts:74-77: until the first crash or failing statement, and only
\* until then, the OK the terminal got is kept.
THEOREM NothingLostWithoutFaults == Spec => []AckedIsHeld
<1>1. Init => AckedIsHeld
  BY DEF Init, AckedIsHeld
<1>2. ASSUME IInv, AckedIsHeld, [Next]_vars
      PROVE  AckedIsHeld'
  <2> SUFFICES ASSUME spent' = 0, NEW p \in made' \ unsent'
               PROVE  Held(p)' \/ \E u \in Uploads : p \in body'[u]
    BY DEF AckedIsHeld
  <2> USE <1>2 DEF IInv, TypeOK, terminalVars, uploadVars
  <2>0. ~AdmsCrash /\ \A u \in Uploads : ~UploadFails(u) /\ \A q \in body[u] : ~RowFails(u, q)
    BY DEF AdmsCrash, UploadFails, RowFails
  <2>7. spent = 0
    BY <2>0 DEF Next, Ingest, Punch, Upload, ReadZone, InsertRow, EndUpload, UpdateTimezone,
                Void, InsertManual, vars
  <2>8. \A q \in made \ unsent : Held(q) \/ \E u \in Uploads : q \in body[u]
    BY <2>7 DEF AckedIsHeld
  <2>1. Held(p) => Held(p)'
    <3>1. \/ UNCHANGED table
          \/ \E row \in Row : table' = Append(table, row)
          \/ \E i \in DOMAIN table : table' = VoidIt(i)
      BY TableSteps, NewRowIsRow
    <3>2. ASSUME NEW z \in Zones, Conflict(p.pin, TimeOf(p, z))
          PROVE  Conflict(p.pin, TimeOf(p, z))'
      BY <3>1, <3>2, KeysStay
    <3> QED  BY <3>2 DEF Held
  <2>2. CASE UNCHANGED <<made, unsent, body>>
    BY <2>8, <2>1, <2>2
  <2>3. ASSUME NEW q \in Punches, Punch(q)
        PROVE  Held(p)' \/ \E u \in Uploads : p \in body'[u]
    BY <2>8, <2>1, <2>3 DEF Punch
  <2>4. ASSUME NEW u \in Uploads, Upload(u)
        PROVE  Held(p)' \/ \E v \in Uploads : p \in body'[v]
    BY <2>8, <2>1, <2>4 DEF Upload
  <2>5. ASSUME NEW u \in Uploads, NEW q \in body[u], InsertRow(u, q)
        PROVE  Held(p)' \/ \E v \in Uploads : p \in body'[v]
    <3>1. CASE p # q
      BY <2>8, <2>1, <2>5, <3>1 DEF InsertRow, Rest
    <3>2. CASE p = q
      <4>1. zone[u] \in Zones /\ q \in Punches /\ NewRow(q, zone[u]) \in Row
        BY NewRowIsRow
      <4>2. CASE Conflict(q.pin, TimeOf(q, zone[u]))
        BY <2>1, <3>2, <4>1, <4>2 DEF Held
      <4>3. CASE table' = Append(table, NewRow(q, zone[u]))
        <5>1. PICK z \in Zones : z = zone[u]
          BY <4>1
        <5>2. Conflict(q.pin, TimeOf(q, z))'
          BY <4>1, <4>3, <5>1 DEF Conflict, NewRow
        <5> QED  BY <3>2, <5>2 DEF Held
      <4> QED  BY <2>5, <4>2, <4>3 DEF InsertRow, NewRow
    <3> QED  BY <3>1, <3>2
  <2>6. CASE \/ \E u \in Uploads : ReadZone(u) \/ EndUpload(u)
             \/ \E z \in Zones : UpdateTimezone(z)
             \/ \E i \in DOMAIN table : Void(i)
             \/ \E pin \in Pins, i \in Instants : InsertManual(pin, i)
             \/ UNCHANGED vars
    BY <2>2, <2>6 DEF ReadZone, EndUpload, UpdateTimezone, Void, InsertManual, vars
  <2> QED  BY <1>2, <2>0, <2>3, <2>4, <2>5, <2>6 DEF Next, Ingest
<1>3. IInv /\ AckedIsHeld /\ [Next]_vars => AckedIsHeld'
  BY <1>2
<1> QED  BY <1>1, <1>3, Invariance, PTL DEF Spec

\* attendance.ts:259-301 and the absence of any DELETE: the log only grows
\* and a void is final.
THEOREM LogGrows == Spec => LogOnlyGrows
<1> DEFINE Grows == \A i \in DOMAIN table :
                        /\ i \in DOMAIN table' /\ SameFact(table'[i], table[i])
                        /\ table[i].voided => table'[i].voided
<1>1. ASSUME TypeOK, [Next]_vars
      PROVE  Grows
  <2>1. CASE UNCHANGED table
    BY <2>1 DEF SameFact
  <2>2. ASSUME NEW row \in Row, table' = Append(table, row)
        PROVE  Grows
    BY <1>1, <2>2 DEF TypeOK, SameFact
  <2>3. ASSUME NEW i \in DOMAIN table, table' = VoidIt(i)
        PROVE  Grows
    BY <1>1, <2>3, VoidIsLocal DEF TypeOK
  <2>4. \A u \in Uploads, p \in Punches : NewRow(p, zone[u]) \in Row
    BY <1>1, NewRowIsRow DEF TypeOK
  <2> QED  BY <1>1, <2>1, <2>2, <2>3, <2>4, TableSteps
<1>2. TypeOK /\ [Next]_vars => [Grows]_vars
  BY <1>1
<1> QED  BY <1>2, TypeCorrect, PTL DEF Spec, LogOnlyGrows

-----------------------------------------------------------------------------
(* The abstract log                                                        *)

\* The unique index: a key has one row; and no row has a key nobody can have sent.
KeysAreUnique ==
    /\ \A i, j \in DOMAIN table : KeyOf(table[i]) = KeyOf(table[j]) => i = j
    /\ StoredKeys \subseteq KeysOf

\* What a step does to the table, in terms of keys.
Inserts(row) ==
    /\ row \in Row /\ ~row.voided
    /\ KeyOf(row) \in KeysOf /\ KeyOf(row) \notin StoredKeys
    /\ table' = Append(table, row)
LEMMA KeySteps ==
    ASSUME TypeOK, [Next]_vars
    PROVE  \/ UNCHANGED table
           \/ \E row \in Row : Inserts(row)
           \/ \E i \in DOMAIN table : ~table[i].voided /\ table' = VoidIt(i)
<1> USE DEF terminalVars, uploadVars
<1>0. \A pin, time : <<pin, time>> \in StoredKeys <=> Conflict(pin, time)
  BY DEF StoredKeys, KeyOf, Conflict
<1>1. ASSUME NEW u \in Uploads, NEW p \in body[u], InsertRow(u, p)
      PROVE  UNCHANGED table \/ \E row \in Row : Inserts(row)
  <2> DEFINE row == NewRow(p, zone[u])
  <2>1. p \in Punches /\ zone[u] \in Zones
    BY DEF TypeOK
  <2>2. row \in Row /\ ~row.voided /\ KeyOf(row) = <<p.pin, TimeOf(p, zone[u])>>
    BY <2>1, NewRowIsRow DEF NewRow, KeyOf
  <2>3. KeyOf(row) \in KeysOf
    BY <2>1, <2>2 DEF KeysOf
  <2>4. UNCHANGED table \/ (~Conflict(p.pin, TimeOf(p, zone[u])) /\ table' = Append(table, row))
    BY <1>1 DEF InsertRow, NewRow
  <2> HIDE DEF row
  <2> QED  BY <1>0, <2>2, <2>3, <2>4 DEF Inserts
<1>2. ASSUME NEW pin \in Pins, NEW i \in Instants, InsertManual(pin, i)
      PROVE  \E row \in Row : Inserts(row)
  <2> DEFINE row == [pin |-> pin, time |-> i, of |-> {}, zone |-> label, voided |-> FALSE]
  <2>1. row \in Row /\ ~row.voided /\ KeyOf(row) = <<pin, i>> /\ <<pin, i>> \in KeysOf
    BY IngestAssumption DEF Row, TypeOK, KeyOf, KeysOf
  <2>2. ~Conflict(pin, i) /\ table' = Append(table, row)
    BY <1>2 DEF InsertManual
  <2> HIDE DEF row
  <2> QED  BY <1>0, <2>1, <2>2 DEF Inserts
<1>3. ASSUME NEW i \in DOMAIN table, Void(i)
      PROVE  ~table[i].voided /\ table' = VoidIt(i)
  BY <1>3 DEF Void
<1>4. CASE \/ \E p \in Punches : Punch(p)
           \/ \E u \in Uploads : Upload(u) \/ ReadZone(u) \/ EndUpload(u) \/ UploadFails(u)
           \/ \E u \in Uploads : \E p \in body[u] : RowFails(u, p)
           \/ AdmsCrash
           \/ \E z \in Zones : UpdateTimezone(z)
           \/ UNCHANGED vars
  BY <1>4 DEF Punch, Upload, ReadZone, EndUpload, UploadFails, RowFails, AdmsCrash,
              UpdateTimezone, vars
<1> QED  BY <1>1, <1>2, <1>3, <1>4 DEF Next, Ingest

\* The places of a table one row longer.
LEMMA AppendPlaces ==
    ASSUME table \in Seq(Row), NEW row \in Row, table' = Append(table, row)
    PROVE  \E n : /\ n \notin DOMAIN table /\ DOMAIN table' = DOMAIN table \cup {n}
                  /\ table'[n] = row /\ \A i \in DOMAIN table : table'[i] = table[i]
<1> DEFINE n == Len(table) + 1
<1>1. n \notin DOMAIN table /\ DOMAIN table' = DOMAIN table \cup {n}
  OBVIOUS
<1>2. table'[n] = row /\ \A i \in DOMAIN table : table'[i] = table[i]
  OBVIOUS
<1> QED  BY <1>1, <1>2

\* Voiding changes no key and makes one row count no more.
LEMMA VoidedKey ==
    ASSUME table \in Seq(Row), NEW i \in DOMAIN table, table' = VoidIt(i)
    PROVE  /\ DOMAIN table' = DOMAIN table /\ table'[i].voided
           /\ \A j \in DOMAIN table : KeyOf(table'[j]) = KeyOf(table[j])
           /\ \A j \in DOMAIN table : j # i => table'[j] = table[j]
<1>1. table'[i] = [table[i] EXCEPT !.voided = TRUE] /\ table[i] \in Row
  BY DEF VoidIt
<1>2. DOMAIN table' = DOMAIN table /\ \A j \in DOMAIN table : j # i => table'[j] = table[j]
  BY DEF VoidIt
<1>3. table'[i].voided
  BY <1>1 DEF Row
<1> QED  BY <1>2, <1>3, VoidIsLocal DEF KeyOf, SameFact

\* A step keeps the keys apart and is a step of the log.
LEMMA LogStep ==
    ASSUME TypeOK, KeysAreUnique, [Next]_vars
    PROVE  /\ KeysAreUnique'
           /\ [Log!Next]_<<StoredKeys, StoredKeys \ LiveKeys>>
<1> DEFINE Voided == StoredKeys \ LiveKeys
<1>0. table \in Seq(Row)
  BY DEF TypeOK
<1>1. CASE UNCHANGED table
  BY <1>1 DEF KeysAreUnique, StoredKeys, LiveKeys
<1>2. ASSUME NEW row \in Row, Inserts(row)
      PROVE  /\ KeysAreUnique'
             /\ [Log!Next]_<<StoredKeys, StoredKeys \ LiveKeys>>
  <2>1. PICK n : /\ n \notin DOMAIN table /\ DOMAIN table' = DOMAIN table \cup {n}
                 /\ table'[n] = row /\ \A i \in DOMAIN table : table'[i] = table[i]
    BY <1>0, <1>2, AppendPlaces DEF Inserts
  <2>2. StoredKeys' = StoredKeys \cup {KeyOf(row)} /\ LiveKeys' = LiveKeys \cup {KeyOf(row)}
    BY <1>2, <2>1 DEF StoredKeys, LiveKeys, Inserts
  <2>3. KeyOf(row) \notin StoredKeys /\ LiveKeys \subseteq StoredKeys
    BY <1>2 DEF Inserts, StoredKeys, LiveKeys
  <2>4. KeysAreUnique'
    <3>1. \A i, j \in DOMAIN table' : KeyOf(table'[i]) = KeyOf(table'[j]) => i = j
      BY <2>1, <2>3 DEF KeysAreUnique, StoredKeys
    <3>2. StoredKeys' \subseteq KeysOf
      BY <1>2, <2>2 DEF KeysAreUnique, Inserts
    <3> QED  BY <3>1, <3>2 DEF KeysAreUnique, KeysOf, TimeOf, deviceWallToUtc, WallOf
  <2>5. (StoredKeys \ LiveKeys)' = StoredKeys \ LiveKeys
    BY <2>2, <2>3
  <2>6. Log!Insert(KeyOf(row))
    BY <2>2, <2>3, <2>5 DEF Log!Insert
  <2>7. KeyOf(row) \in KeysOf
    BY <1>2 DEF Inserts
  <2> QED  BY <2>4, <2>6, <2>7 DEF Log!Next
<1>3. ASSUME NEW i \in DOMAIN table, ~table[i].voided, table' = VoidIt(i)
      PROVE  /\ KeysAreUnique'
             /\ [Log!Next]_<<StoredKeys, StoredKeys \ LiveKeys>>
  <2> DEFINE k == KeyOf(table[i])
  <2>1. /\ DOMAIN table' = DOMAIN table /\ table'[i].voided
        /\ \A j \in DOMAIN table : KeyOf(table'[j]) = KeyOf(table[j])
        /\ \A j \in DOMAIN table : j # i => table'[j] = table[j]
    BY <1>0, <1>3, VoidedKey
  <2>2. StoredKeys' = StoredKeys
    BY <2>1 DEF StoredKeys
  <2>3. KeysAreUnique'
    BY <2>1, <2>2 DEF KeysAreUnique
  <2>4. k \in StoredKeys /\ k \in LiveKeys /\ LiveKeys \subseteq StoredKeys
    BY <1>3 DEF StoredKeys, LiveKeys
  <2>5. \A l \in LiveKeys : l # k => l \in LiveKeys'
    <3> SUFFICES ASSUME NEW j \in DOMAIN table, ~table[j].voided, KeyOf(table[j]) # k
                 PROVE  KeyOf(table[j]) \in LiveKeys'
      BY DEF LiveKeys
    <3>1. j # i
      OBVIOUS
    <3>2. table'[j] = table[j] /\ j \in DOMAIN table'
      BY <2>1, <3>1
    <3> QED  BY <3>2 DEF LiveKeys
  <2>6. \A l \in LiveKeys' : l # k /\ l \in LiveKeys
    <3> SUFFICES ASSUME NEW j \in DOMAIN table', ~table'[j].voided
                 PROVE  KeyOf(table'[j]) # k /\ KeyOf(table'[j]) \in LiveKeys
      BY DEF LiveKeys
    <3>1. j \in DOMAIN table /\ j # i
      BY <2>1
    <3>2. table'[j] = table[j]
      BY <2>1, <3>1
    <3> QED  BY <3>1, <3>2 DEF LiveKeys, KeysAreUnique
  <2> HIDE DEF k
  <2>7. LiveKeys' = LiveKeys \ {k}
    BY <2>5, <2>6
  <2>8. (StoredKeys \ LiveKeys)' = (StoredKeys \ LiveKeys) \cup {k}
    BY <2>2, <2>4, <2>7
  <2>9. Log!Void(k)
    BY <2>2, <2>4, <2>8 DEF Log!Void
  <2>10. k \in KeysOf
    BY <2>4 DEF KeysAreUnique
  <2> QED  BY <2>3, <2>9, <2>10 DEF Log!Next
<1> QED  BY <1>1, <1>2, <1>3, KeySteps

\* The ingest, its overlapping uploads and crashes, and the operators beside it implement
\* AttendanceLog (attendance.service.ts:56-104, attendance.ts:160-301): keys are unique,
\* rows are never lost and a voided key never counts again.
THEOREM IngestKeepsLog == Spec => LogSpec
<1>1. Init => Log!Init /\ KeysAreUnique
  BY DEF Init, Log!Init, KeysAreUnique, StoredKeys, LiveKeys
<1>2. TypeOK /\ KeysAreUnique /\ [Next]_vars =>
          KeysAreUnique' /\ [Log!Next]_<<StoredKeys, StoredKeys \ LiveKeys>>
  BY LogStep
<1> QED  BY <1>1, <1>2, TypeCorrect, PTL DEF Spec, LogSpec, Log!Spec

-----------------------------------------------------------------------------
(* AttendanceDesk                                                          *)

StoredRows == {p \in LogKeys : Stored(p)}

\* Rows are numbered in the order they came.
RowsAreNumbered ==
    /\ \A p \in LogKeys : rows[p].born <= Cardinality(StoredRows)
    /\ \A p, q \in LogKeys : Stored(p) /\ rows[p].born = rows[q].born => p = q

\* A row of the same pin and minute was there before.
HasOlder(p) ==
    \E q \in LogKeys :
        /\ fact[q].pin = fact[p].pin /\ fact[q].minute = fact[p].minute
        /\ rows[q].born \in 1 .. rows[p].born - 1

\* No panel ever names the oldest row of a minute as a duplicate.
OthersHaveOlder == \A t \in Tabs : \A g \in panel[t] : \A p \in g.others : HasOlder(p)
PickedHasOlder ==
    \A t \in Tabs : dialog[t] # None /\ dialog[t].from = "panel" => HasOlder(dialog[t].punch)
VoidedHasOlder == \A p \in LogKeys : rows[p].voided = "panel" => HasOlder(p)

DeskInv ==
    /\ DeskTypeOK
    /\ RowsAreNumbered
    /\ OthersHaveOlder
    /\ PickedHasOlder
    /\ VoidedHasOlder

-----------------------------------------------------------------------------
(* Numbers and the oldest row                                              *)

\* A set of numbers has a least.
LEMMA LeastNumber ==
    ASSUME NEW S, S \subseteq Nat, S # {}
    PROVE  \E m \in S : \A n \in S : m <= n
<1> DEFINE R == OpToRel(<, Nat)
<1>1. PICK m \in S : \A n \in S : <<n, m>> \notin R
  <2>1. IsWellFoundedOn(R, Nat)
    BY NatLessThanWellFounded
  <2> HIDE DEF R
  <2> QED  BY <2>1, WFMin
<1>2. ASSUME NEW n \in S
      PROVE  m <= n
  <2>1. <<n, m>> \in Nat \X Nat
    OBVIOUS
  <2>2. ~(n < m)
    BY <1>1, <2>1 DEF OpToRel
  <2> QED  BY <2>2
<1> QED  BY <1>2

\* The stored rows of a finite set of keys can be counted.
LEMMA StoredAreCounted ==
    /\ IsFiniteSet(StoredRows)
    /\ Cardinality(StoredRows) \in Nat
    /\ \A p \in LogKeys : ~Stored(p) =>
           Cardinality(StoredRows \cup {p}) = Cardinality(StoredRows) + 1
<1>1. IsFiniteSet(StoredRows)
  BY FS_Subset, DeskAssumption DEF StoredRows
<1>2. Cardinality(StoredRows) \in Nat
  BY <1>1, FS_CardinalityType
<1>3. ASSUME NEW p \in LogKeys, ~Stored(p)
      PROVE  Cardinality(StoredRows \cup {p}) = Cardinality(StoredRows) + 1
  <2>1. p \notin StoredRows
    BY <1>3 DEF StoredRows
  <2> QED  BY <1>1, <2>1, FS_AddElement
<1> QED  BY <1>1, <1>2, <1>3

\* Of rows of which one is stored, the first a group names is one of them, and older
\* than the others.
LEMMA FirstIsOldest ==
    ASSUME DeskTypeOK, RowsAreNumbered, NEW G, G \subseteq LiveRows, G # {}
    PROVE  /\ OldestRow(G) \in G
           /\ \A p \in G \ {OldestRow(G)} : rows[OldestRow(G)].born \in 1 .. rows[p].born - 1
<1> DEFINE B == {rows[p].born : p \in G}
<1>1. \A p \in G : p \in LogKeys /\ Stored(p) /\ rows[p].born \in Nat
  BY DEF LiveRows, Live, DeskTypeOK
<1>2. \E m \in B : \A n \in B : m <= n
  <2>1. B \subseteq Nat /\ B # {}
    BY <1>1
  <2> HIDE DEF B
  <2> QED  BY <2>1, LeastNumber
<1>3. \E p \in G : \A q \in G : rows[p].born <= rows[q].born
  BY <1>2
<1> DEFINE o == OldestRow(G)
<1>4. o \in G /\ \A q \in G : rows[o].born <= rows[q].born
  BY <1>3 DEF OldestRow
<1> HIDE DEF o
<1>5. ASSUME NEW p \in G \ {o}
      PROVE  rows[o].born \in 1 .. rows[p].born - 1
  <2>1. rows[o].born # rows[p].born
    BY <1>1, <1>4 DEF RowsAreNumbered
  <2>2. rows[o].born \in Nat /\ rows[p].born \in Nat /\ rows[o].born > 0
    BY <1>1, <1>4 DEF Stored
  <2> QED  BY <1>4, <2>1, <2>2
<1> QED  BY <1>4, <1>5 DEF o

-----------------------------------------------------------------------------
(* Types                                                                   *)

LogRow == [born : 0 .. Cardinality(LogKeys), linked : BOOLEAN, voided : {"no"} \cup Places]

\* What an update of the table leaves of a row.
LEMMA RowUpdates ==
    ASSUME NEW r \in LogRow
    PROVE  /\ [r EXCEPT !.linked = FALSE] \in LogRow
           /\ \A v \in Places : [r EXCEPT !.voided = v] \in LogRow
BY DEF LogRow, Places

\* There is a number left for a row that is not stored.
LEMMA InsertedIsRow ==
    ASSUME NEW p \in LogKeys, ~Stored(p)
    PROVE  InsertedRow(p) \in LogRow
<1>1. Cardinality(StoredRows \cup {p}) \in Nat
      /\ Cardinality(StoredRows \cup {p}) <= Cardinality(LogKeys)
      /\ Cardinality(LogKeys) \in Nat
  BY FS_Subset, FS_CardinalityType, DeskAssumption DEF StoredRows
<1>2. Cardinality(StoredRows) + 1 \in 0 .. Cardinality(LogKeys)
  BY <1>1, StoredAreCounted
<1> QED  BY <1>2 DEF InsertedRow, LogRow, StoredRows

\* So can the rows that match a filter.
LEMMA MatchingAreFinite ==
    ASSUME NEW f
    PROVE  Matching(f) \subseteq LogKeys /\ Counted(f) \in Nat
<1>1. Matching(f) \subseteq LogKeys
  BY DEF Matching, LiveRows
<1> QED  BY <1>1, FS_Subset, FS_CardinalityType, DeskAssumption DEF Counted

\* At first every variable of the desk has its type.
LEMMA DeskTypesInit == DeskInit => DeskTypeOK
<1> SUFFICES ASSUME DeskInit PROVE DeskTypeOK
  OBVIOUS
<1>1. NoRow \in LogRow
  <2>1. Cardinality(LogKeys) \in Nat
    BY FS_CardinalityType, DeskAssumption
  <2> QED  BY <2>1 DEF NoRow, LogRow
<1>2. rows \in [LogKeys -> LogRow]
  BY <1>1 DEF DeskInit
<1>3. moves \in 0 .. MaxMoves
  BY DeskAssumption DEF DeskInit
<1> QED  BY <1>2, <1>3 DEF DeskInit, DeskTypeOK, LogRow

\* Every key has a row, which has its type.
LEMMA RowsTyped == DeskTypeOK <=> DeskTypeOK /\ rows \in [LogKeys -> LogRow]
BY DEF DeskTypeOK, LogRow

\* Punches that arrive keep the types.
LEMMA StoreTypes ==
    ASSUME DeskTypeOK, NEW p \in LogKeys, UploadPunch(p) \/ insertManual(p)
    PROVE  DeskTypeOK'
<1>1. rows \in [LogKeys -> LogRow] /\ (Stored(p) => Upserted(p) \in LogRow)
  BY RowsTyped DEF Upserted
<1>2. ~Stored(p) => InsertedRow(p) \in LogRow /\ Upserted(p) = InsertedRow(p)
  BY InsertedIsRow DEF Upserted
<1>3. rows' \in [LogKeys -> LogRow]
  BY <1>1, <1>2 DEF UploadPunch, insertManual
<1> QED  BY <1>3 DEF DeskTypeOK, LogRow, UploadPunch, insertManual, tabVars, tableVars

\* So do members who are created and deleted.
LEMMA MemberTypes ==
    ASSUME DeskTypeOK, NEW pin \in LoggedPins, CreateMember(pin) \/ DeleteMember(pin)
    PROVE  DeskTypeOK'
<1>1. moves' \in 0 .. MaxMoves /\ member' \subseteq LoggedPins
  BY DeskAssumption DEF CreateMember, DeleteMember, DeskTypeOK
<1>2. rows \in [LogKeys -> LogRow]
  BY RowsTyped
<1>3. Unlinked(pin) \in [LogKeys -> LogRow]
  BY <1>2, RowUpdates DEF Unlinked
<1>4. rows' \in [LogKeys -> LogRow]
  BY <1>2, <1>3 DEF CreateMember, DeleteMember
<1> QED  BY <1>1, <1>4 DEF DeskTypeOK, LogRow, CreateMember, DeleteMember, tabVars, tableVars

\* So do the pages of the table and the numbers above it.
LEMMA TableTypes ==
    ASSUME DeskTypeOK, NEW t \in Watching,
           \/ \E f \in Filters : SetFilter(t, f)
           \/ NextPage(t) \/ PrevPage(t) \/ FetchList(t) \/ FetchCount(t)
    PROVE  DeskTypeOK'
<1>1. ASSUME NEW f \in Filters, SetFilter(t, f)
      PROVE  DeskTypeOK'
  BY <1>1 DEF SetFilter, DeskTypeOK
<1>2. CASE NextPage(t) \/ PrevPage(t)
  <2>1. \E n \in Nat : Turn(t, n)
    BY <1>2 DEF NextPage, PrevPage, DeskTypeOK
  <2> QED  BY <2>1 DEF Turn, DeskTypeOK
<1>3. CASE FetchList(t)
  <2>1. Listed(filter[t], page[t]) \subseteq LogKeys
    BY MatchingAreFinite DEF Listed
  <2> QED  BY <1>3, <2>1 DEF FetchList, DeskTypeOK
<1>4. CASE FetchCount(t)
  BY <1>4, MatchingAreFinite DEF FetchCount, DeskTypeOK
<1> QED  BY <1>1, <1>2, <1>3, <1>4

\* A group is made of live rows of one pin and minute.
LEMMA GroupsAreLive ==
    ASSUME DeskTypeOK, RowsAreNumbered, NEW g \in Duplicates
    PROVE  \E p \in LiveRows :
               /\ g.first \in SameMinute(p) /\ g.others \subseteq SameMinute(p)
               /\ \A q \in g.others : rows[g.first].born \in 1 .. rows[q].born - 1
<1>1. PICK p \in LiveRows :
          g = [first |-> OldestRow(SameMinute(p)),
               others |-> SameMinute(p) \ {OldestRow(SameMinute(p))}]
  BY DEF Duplicates
<1>2. SameMinute(p) \subseteq LiveRows /\ SameMinute(p) # {}
  BY DEF SameMinute
<1> DEFINE G == SameMinute(p)
<1> HIDE DEF G
<1>3. /\ OldestRow(G) \in G
      /\ \A q \in G \ {OldestRow(G)} : rows[OldestRow(G)].born \in 1 .. rows[q].born - 1
  <2>1. G \subseteq LiveRows /\ G # {}
    BY <1>2 DEF G
  <2> QED  BY <2>1, FirstIsOldest
<1>4. g.first = OldestRow(G) /\ g.others = G \ {OldestRow(G)}
  BY <1>1 DEF G
<1> QED  BY <1>3, <1>4 DEF G

\* So does the panel of duplicates.
LEMMA PanelTypes ==
    ASSUME DeskTypeOK, RowsAreNumbered, NEW t \in Tabs, FetchPanel(t)
    PROVE  DeskTypeOK'
<1>1. LiveRows \subseteq LogKeys /\ \A p \in LiveRows : SameMinute(p) \subseteq LogKeys
  BY DEF LiveRows, SameMinute
<1>2. Duplicates \subseteq [first : LogKeys, others : SUBSET LogKeys]
  <2> SUFFICES ASSUME NEW g \in Duplicates
               PROVE  g \in [first : LogKeys, others : SUBSET LogKeys]
    OBVIOUS
  <2>1. \E G : g = [first |-> OldestRow(G), others |-> G \ {OldestRow(G)}]
    BY DEF Duplicates
  <2>2. g.first \in LogKeys /\ g.others \subseteq LogKeys
    BY <1>1, GroupsAreLive
  <2> QED  BY <2>1, <2>2
<1>3. panel' \in [Tabs -> SUBSET [first : LogKeys, others : SUBSET LogKeys]]
  BY <1>2 DEF FetchPanel, DeskTypeOK
<1> QED  BY <1>3 DEF FetchPanel, DeskTypeOK, tableVars

\* So does choosing a row, from the table or the panel.
LEMMA DialogTypes ==
    ASSUME DeskTypeOK, NEW t \in Tabs,
           (\E p \in LogKeys, from \in Places : Pick(t, p, from)) \/ Cancel(t)
    PROVE  DeskTypeOK'
BY DEF Pick, Cancel, DeskTypeOK, Target, tableVars

\* So does voiding it.
LEMMA VoidTypes ==
    ASSUME DeskTypeOK,
           \/ \E t \in Tabs : VoidDone(t) \/ VoidUnheard(t)
           \/ \E p \in LogKeys : VoidElsewhere(p)
    PROVE  DeskTypeOK'
<1>1. rows \in [LogKeys -> LogRow]
  BY RowsTyped
<1>2. ASSUME NEW t \in Tabs, VoidTarget(t)
      PROVE  rows' \in [LogKeys -> LogRow]
  <2>1. dialog[t].punch \in LogKeys /\ dialog[t].from \in Places
    BY <1>2 DEF VoidTarget, DeskTypeOK, Target
  <2>2. [rows[dialog[t].punch] EXCEPT !.voided = dialog[t].from] \in LogRow
    BY <1>1, <2>1, RowUpdates
  <2> QED  BY <1>1, <1>2, <2>2 DEF VoidTarget
<1>3. ASSUME NEW p \in LogKeys, VoidElsewhere(p)
      PROVE  rows' \in [LogKeys -> LogRow]
  <2>1. [rows[p] EXCEPT !.voided = "table"] \in LogRow
    BY <1>1, RowUpdates DEF Places
  <2> QED  BY <1>1, <1>3, <2>1 DEF VoidElsewhere
<1>4. rows' \in [LogKeys -> LogRow]
  BY <1>2, <1>3 DEF VoidDone, VoidUnheard
<1>5. dialog' \in [Tabs -> Target \cup {None}]
  BY DEF VoidDone, VoidUnheard, VoidElsewhere, DeskTypeOK, tabVars
<1> QED  BY <1>4, <1>5
         DEF VoidDone, VoidUnheard, VoidElsewhere, DeskTypeOK, LogRow, tableVars, tabVars

-----------------------------------------------------------------------------
(* Numbers and older rows stay                                             *)

\* Either no row is added, or one with the next number.
LEMMA NumbersStep ==
    ASSUME DeskTypeOK, [DeskNext]_deskVars
    PROVE  \/ \A p \in LogKeys : rows'[p].born = rows[p].born
           \/ \E p \in LogKeys : /\ ~Stored(p)
                                 /\ rows' = [rows EXCEPT ![p] = InsertedRow(p)]
                                 /\ UNCHANGED <<panel, dialog>>
<1> DEFINE Same == \A p \in LogKeys : rows'[p].born = rows[p].born
           New == \E p \in LogKeys : /\ ~Stored(p)
                                     /\ rows' = [rows EXCEPT ![p] = InsertedRow(p)]
                                     /\ UNCHANGED <<panel, dialog>>
<1>0. rows \in [LogKeys -> LogRow]
  BY RowsTyped
<1>1. ASSUME NEW p \in LogKeys, UploadPunch(p) \/ insertManual(p)
      PROVE  Same \/ New
  <2>1. CASE Stored(p)
    <3>1. rows' = rows
      BY <1>0, <1>1, <2>1 DEF UploadPunch, insertManual, Upserted
    <3> QED  BY <3>1
  <2>2. CASE ~Stored(p)
    <3>1. rows' = [rows EXCEPT ![p] = InsertedRow(p)] /\ UNCHANGED <<panel, dialog>>
      BY <1>1, <2>2 DEF UploadPunch, insertManual, Upserted, tabVars
    <3> QED  BY <2>2, <3>1
  <2> QED  BY <2>1, <2>2
<1>2. ASSUME NEW pin \in LoggedPins, DeleteMember(pin)
      PROVE  Same
  <2>1. \A p \in LogKeys : [rows[p] EXCEPT !.linked = FALSE].born = rows[p].born
    BY <1>0 DEF LogRow
  <2> QED  BY <1>2, <2>1 DEF DeleteMember, Unlinked
<1>3. ASSUME NEW p \in LogKeys, NEW v, rows' = [rows EXCEPT ![p].voided = v]
      PROVE  Same
  BY <1>0, <1>3 DEF LogRow
<1>4. ASSUME NEW t \in Tabs, VoidDone(t) \/ VoidUnheard(t)
      PROVE  Same
  <2>1. dialog[t].punch \in LogKeys
    BY <1>4 DEF VoidDone, VoidUnheard, VoidTarget, DeskTypeOK, Target
  <2>2. \A q \in LogKeys : (IF q = dialog[t].punch
                            THEN [rows[q] EXCEPT !.voided = dialog[t].from]
                            ELSE rows[q]).born = rows[q].born
    BY <1>0 DEF LogRow
  <2>3. \A q \in LogKeys : rows'[q] = IF q = dialog[t].punch
                                      THEN [rows[q] EXCEPT !.voided = dialog[t].from]
                                      ELSE rows[q]
    BY <1>0, <1>4, <2>1 DEF VoidDone, VoidUnheard, VoidTarget
  <2> QED  BY <2>2, <2>3
<1>5. ASSUME NEW p \in LogKeys, VoidElsewhere(p)
      PROVE  Same
  BY <1>3, <1>5 DEF VoidElsewhere
<1>6. CASE UNCHANGED rows
  BY <1>6
<1> HIDE DEF Same, New
<1> QED  BY <1>1, <1>2, <1>4, <1>5, <1>6
         DEF DeskNext, deskVars, Same, New, CreateMember, SetFilter, NextPage, PrevPage, Turn,
             FetchList, FetchCount, FetchPanel, Pick, Cancel

\* A row keeps its number, and new rows get higher ones.
LEMMA NumbersKept ==
    ASSUME DeskTypeOK, RowsAreNumbered, [DeskNext]_deskVars
    PROVE  RowsAreNumbered'
<1>0. rows \in [LogKeys -> LogRow] /\ \A p \in LogKeys : rows[p].born \in Nat
  BY RowsTyped DEF LogRow
<1>1. CASE \A p \in LogKeys : rows'[p].born = rows[p].born
  <2>1. \A p \in LogKeys : Stored(p)' <=> Stored(p)
    BY <1>1 DEF Stored
  <2>2. StoredRows' = StoredRows
    BY <2>1 DEF StoredRows
  <2> QED  BY <1>1, <2>1, <2>2 DEF RowsAreNumbered
<1>2. ASSUME NEW p \in LogKeys, ~Stored(p), rows' = [rows EXCEPT ![p] = InsertedRow(p)]
      PROVE  RowsAreNumbered'
  <2> DEFINE n == Cardinality(StoredRows)
  <2>1. n \in Nat /\ Cardinality(StoredRows \cup {p}) = n + 1
    BY <1>2, StoredAreCounted
  <2>2. rows'[p].born = n + 1 /\ \A q \in LogKeys \ {p} : rows'[q] = rows[q]
    BY <1>0, <1>2 DEF InsertedRow, StoredRows
  <2>3. StoredRows' = StoredRows \cup {p}
    <3>1. \A q \in LogKeys : rows'[q].born > 0 <=> q = p \/ rows[q].born > 0
      BY <2>1, <2>2
    <3> QED  BY <3>1 DEF StoredRows, Stored
  <2>4. Cardinality(StoredRows)' = n + 1
    BY <2>1, <2>3
  <2>5. \A q \in LogKeys : rows[q].born <= n
    BY DEF RowsAreNumbered
  <2> HIDE DEF n
  <2>6. \A q \in LogKeys : rows'[q].born <= n + 1
    BY <1>0, <2>1, <2>2, <2>5
  <2>7. ASSUME NEW q \in LogKeys, NEW r \in LogKeys, rows'[q].born > 0,
               rows'[q].born = rows'[r].born
        PROVE  q = r
    <3>1. CASE q = p \/ r = p
      BY <1>0, <2>1, <2>2, <2>5, <2>7, <3>1
    <3>2. CASE q # p /\ r # p
      BY <2>2, <2>7, <3>2 DEF RowsAreNumbered, Stored
    <3> QED  BY <3>1, <3>2
  <2> QED  BY <2>4, <2>6, <2>7 DEF RowsAreNumbered, Stored
<1> QED  BY <1>1, <1>2, NumbersStep

\* A row that has an older one keeps it.
LEMMA OlderStays ==
    ASSUME DeskTypeOK, [DeskNext]_deskVars, NEW p \in LogKeys, HasOlder(p)
    PROVE  HasOlder(p)'
<1>0. rows \in [LogKeys -> LogRow] /\ \A q \in LogKeys : rows[q].born \in Nat
  BY RowsTyped DEF LogRow
<1>1. PICK q \in LogKeys : /\ fact[q].pin = fact[p].pin /\ fact[q].minute = fact[p].minute
                           /\ rows[q].born \in 1 .. rows[p].born - 1
  BY DEF HasOlder
<1>2. rows[q].born > 0 /\ rows[p].born > 0
  BY <1>0, <1>1
<1>3. \A r \in LogKeys : Stored(r) => rows'[r].born = rows[r].born
  BY <1>0, NumbersStep
<1>4. rows'[q].born = rows[q].born /\ rows'[p].born = rows[p].born
  BY <1>2, <1>3 DEF Stored
<1> QED  BY <1>1, <1>4 DEF HasOlder

-----------------------------------------------------------------------------
(* Panels and dialogs                                                      *)

\* What a panel offers to void keeps an older row of its group.
LEMMA OthersKept ==
    ASSUME DeskTypeOK, RowsAreNumbered, OthersHaveOlder, [DeskNext]_deskVars
    PROVE  OthersHaveOlder'
<1>1. \A t \in Tabs : \A g \in panel[t] : g.others \subseteq LogKeys
  BY DEF DeskTypeOK
<1>2. \A t \in Tabs : \A g \in panel[t] : \A p \in g.others : HasOlder(p)'
  BY <1>1, OlderStays DEF OthersHaveOlder
<1>3. ASSUME NEW t \in Tabs, FetchPanel(t)
      PROVE  OthersHaveOlder'
  <2>1. ASSUME NEW g \in Duplicates, NEW q \in g.others
        PROVE  HasOlder(q)
    <3>1. PICK p \in LiveRows :
              /\ g.first \in SameMinute(p) /\ g.others \subseteq SameMinute(p)
              /\ rows[g.first].born \in 1 .. rows[q].born - 1
      BY GroupsAreLive
    <3>2. g.first \in LogKeys /\ fact[g.first].pin = fact[q].pin
          /\ fact[g.first].minute = fact[q].minute
      BY <3>1 DEF SameMinute, LiveRows
    <3> QED  BY <3>1, <3>2 DEF HasOlder
  <2>2. rows' = rows /\ \A r \in Tabs : panel'[r] = IF r = t THEN Duplicates ELSE panel[r]
    BY <1>3 DEF FetchPanel, DeskTypeOK
  <2>3. \A p : HasOlder(p)' <=> HasOlder(p)
    BY <2>2 DEF HasOlder
  <2> QED  BY <1>2, <2>1, <2>2, <2>3 DEF OthersHaveOlder
<1>4. CASE UNCHANGED panel
  BY <1>2, <1>4 DEF OthersHaveOlder
<1> QED  BY <1>3, <1>4
         DEF DeskNext, deskVars, tabVars, tableVars, UploadPunch, insertManual, VoidElsewhere,
             CreateMember, DeleteMember, SetFilter, NextPage, PrevPage, Turn, FetchList,
             FetchCount, Pick, Cancel, VoidDone, VoidUnheard

\* So does what was picked in it.
LEMMA PickedKept ==
    ASSUME DeskTypeOK, OthersHaveOlder, PickedHasOlder, [DeskNext]_deskVars
    PROVE  PickedHasOlder'
<1>1. \A t \in Tabs, p \in LogKeys :
          dialog[t] # None /\ dialog[t].from = "panel" /\ dialog[t].punch = p => HasOlder(p)'
  <2>1. \A p \in LogKeys : HasOlder(p) => HasOlder(p)'
    BY OlderStays
  <2> QED  BY <2>1 DEF PickedHasOlder
<1>0. \A t \in Tabs : dialog[t] # None => dialog[t].punch \in LogKeys
  BY DEF DeskTypeOK, Target
<1>2. ASSUME NEW t \in Tabs, NEW p \in LogKeys, NEW from \in Places, Pick(t, p, from)
      PROVE  PickedHasOlder'
  <2>1. from = "panel" => HasOlder(p)
    BY <1>2 DEF Pick, Offered, OthersHaveOlder
  <2>2. from = "panel" => HasOlder(p)'
    BY <2>1, OlderStays
  <2>3. \A r \in Tabs : dialog'[r] = IF r = t THEN [punch |-> p, from |-> from] ELSE dialog[r]
    BY <1>2 DEF Pick, DeskTypeOK
  <2>4. ASSUME NEW r \in Tabs, dialog'[r] # None, dialog'[r].from = "panel"
        PROVE  \E q \in LogKeys : q = dialog'[r].punch /\ HasOlder(q)'
    BY <1>1, <1>0, <2>2, <2>3, <2>4
  <2>5. \A r \in Tabs : dialog'[r] # None /\ dialog'[r].from = "panel" => HasOlder(dialog[r].punch)'
    BY <2>4 DEF HasOlder
  <2> QED  BY <2>5 DEF PickedHasOlder
<1>3. ASSUME NEW t \in Tabs, Cancel(t) \/ VoidDone(t)
      PROVE  PickedHasOlder'
  <2>1. \A r \in Tabs : dialog'[r] = IF r = t THEN None ELSE dialog[r]
    BY <1>3 DEF Cancel, VoidDone, DeskTypeOK
  <2>2. ASSUME NEW r \in Tabs, dialog'[r] # None, dialog'[r].from = "panel"
        PROVE  \E q \in LogKeys : q = dialog'[r].punch /\ HasOlder(q)'
    BY <1>1, <1>0, <2>1, <2>2
  <2> QED  BY <2>2 DEF PickedHasOlder, HasOlder
<1>4. CASE UNCHANGED dialog
  <2>1. ASSUME NEW r \in Tabs, dialog'[r] # None, dialog'[r].from = "panel"
        PROVE  \E q \in LogKeys : q = dialog'[r].punch /\ HasOlder(q)'
    BY <1>1, <1>4, <1>0, <2>1
  <2> QED  BY <2>1 DEF PickedHasOlder, HasOlder
<1> QED  BY <1>2, <1>3, <1>4
         DEF DeskNext, deskVars, tabVars, UploadPunch, insertManual, VoidElsewhere, CreateMember,
             DeleteMember, SetFilter, NextPage, PrevPage, Turn, FetchList, FetchCount, FetchPanel,
             VoidUnheard

\* And so does what was voided from it.
LEMMA VoidedKept ==
    ASSUME DeskTypeOK, PickedHasOlder, VoidedHasOlder, [DeskNext]_deskVars
    PROVE  VoidedHasOlder'
<1>0. rows \in [LogKeys -> LogRow]
  BY RowsTyped
<1>1. \A p \in LogKeys : HasOlder(p) => HasOlder(p)'
  BY OlderStays
<1>2. SUFFICES ASSUME NEW p \in LogKeys, rows'[p].voided = "panel", rows[p].voided # "panel"
               PROVE  HasOlder(p)
  BY <1>1 DEF VoidedHasOlder
<1>3. ASSUME NEW q \in LogKeys, UploadPunch(q) \/ insertManual(q)
      PROVE  FALSE
  <2>1. rows'[p] \in {rows[p], InsertedRow(p)}
    BY <1>0, <1>3 DEF UploadPunch, insertManual, Upserted
  <2> QED  BY <1>2, <2>1 DEF InsertedRow
<1>4. ASSUME NEW pin \in LoggedPins, DeleteMember(pin)
      PROVE  FALSE
  <2>1. [rows[p] EXCEPT !.linked = FALSE].voided = rows[p].voided
    BY <1>0 DEF LogRow
  <2> QED  BY <1>2, <1>4, <2>1 DEF DeleteMember, Unlinked
<1>5. ASSUME NEW t \in Tabs, VoidDone(t) \/ VoidUnheard(t)
      PROVE  HasOlder(p)
  <2>1. /\ dialog[t] # None /\ dialog[t].punch \in LogKeys
        /\ rows' = [rows EXCEPT ![dialog[t].punch].voided = dialog[t].from]
    BY <1>5 DEF VoidDone, VoidUnheard, VoidTarget, DeskTypeOK, Target
  <2>2. p = dialog[t].punch
    BY <1>0, <1>2, <2>1
  <2>3. rows'[p].voided = dialog[t].from
    BY <1>0, <2>1, <2>2 DEF LogRow
  <2> QED  BY <1>2, <2>1, <2>2, <2>3 DEF PickedHasOlder
<1>6. ASSUME NEW q \in LogKeys, VoidElsewhere(q)
      PROVE  FALSE
  <2>1. rows' = [rows EXCEPT ![q].voided = "table"]
    BY <1>6 DEF VoidElsewhere
  <2>2. rows'[p].voided = "table" \/ rows'[p] = rows[p]
    BY <1>0, <2>1 DEF LogRow
  <2> QED  BY <1>2, <2>2
<1>7. CASE UNCHANGED rows
  BY <1>2, <1>7
<1> QED  BY <1>3, <1>4, <1>5, <1>6, <1>7
         DEF DeskNext, deskVars, CreateMember, SetFilter, NextPage, PrevPage, Turn, FetchList,
             FetchCount, FetchPanel, Pick, Cancel

-----------------------------------------------------------------------------
(* Theorems about AttendanceDesk                                           *)

\* Every step keeps the types.
LEMMA DeskTypesKept ==
    ASSUME DeskTypeOK, RowsAreNumbered, [DeskNext]_deskVars
    PROVE  DeskTypeOK'
<1>1. CASE UNCHANGED deskVars
  BY <1>1 DEF deskVars, tabVars, tableVars, DeskTypeOK
<1> QED  BY <1>1, StoreTypes, MemberTypes, TableTypes, PanelTypes, DialogTypes, VoidTypes
         DEF DeskNext

\* The invariant holds at first.
LEMMA DeskInvInit == DeskInit => DeskInv
<1> SUFFICES ASSUME DeskInit PROVE DeskInv
  OBVIOUS
<1>1. \A p \in LogKeys : rows[p].born = 0 /\ rows[p].voided = "no"
  BY DEF DeskInit, NoRow
<1>2. RowsAreNumbered
  BY <1>1, StoredAreCounted DEF RowsAreNumbered, Stored
<1>3. OthersHaveOlder /\ PickedHasOlder
  BY DEF DeskInit, OthersHaveOlder, PickedHasOlder
<1>4. VoidedHasOlder
  BY <1>1 DEF VoidedHasOlder
<1> QED  BY <1>2, <1>3, <1>4, DeskTypesInit DEF DeskInv

\* And in every state that is reached.
LEMMA DeskInvHolds == DeskSpec => []DeskInv
<1>1. DeskInv /\ [DeskNext]_deskVars => DeskInv'
  BY DeskTypesKept, NumbersKept, OthersKept, PickedKept, VoidedKept DEF DeskInv
<1> QED  BY <1>1, DeskInvInit, PTL DEF DeskSpec

\* Of the rows of a pin and minute the oldest has no older one, so no panel voided it.
LEMMA OldestIsKept == DeskInv => PanelKeepsTheOriginal
<1> SUFFICES ASSUME DeskInv, NEW p \in LogKeys, rows[p].voided = "panel"
             PROVE  \E q \in LogKeys :
                        /\ fact[q].pin = fact[p].pin /\ fact[q].minute = fact[p].minute
                        /\ rows[q].born \in 1 .. rows[p].born - 1
                        /\ rows[q].voided # "panel"
  BY DEF PanelKeepsTheOriginal
<1>0. \A q \in LogKeys : rows[q].born \in Nat
  BY RowsTyped DEF DeskInv, LogRow
<1> DEFINE G == {q \in LogKeys : /\ fact[q].pin = fact[p].pin
                                 /\ fact[q].minute = fact[p].minute
                                 /\ rows[q].born \in 1 .. rows[p].born - 1}
           B == {rows[q].born : q \in G}
<1>1. HasOlder(p)
  BY DEF DeskInv, VoidedHasOlder
<1>2. PICK m \in B : \A n \in B : m <= n
  <2>1. B \subseteq Nat /\ B # {}
    BY <1>0, <1>1 DEF HasOlder
  <2> HIDE DEF B
  <2> QED  BY <2>1, LeastNumber
<1>3. PICK q \in G : m = rows[q].born
  OBVIOUS
<1>4. ~HasOlder(q)
  <2> SUFFICES ASSUME NEW r \in LogKeys,
                      fact[r].pin = fact[q].pin, fact[r].minute = fact[q].minute,
                      rows[r].born \in 1 .. rows[q].born - 1
               PROVE  FALSE
    BY DEF HasOlder
  <2>1. rows[r].born \in 1 .. rows[p].born - 1 /\ rows[r].born < rows[q].born
    BY <1>0
  <2>2. r \in G
    BY <2>1
  <2>3. rows[q].born <= rows[r].born
    BY <1>2, <1>3, <2>2
  <2> QED  BY <1>0, <2>1, <2>3
<1>5. rows[q].voided # "panel"
  BY <1>4 DEF DeskInv, VoidedHasOlder
<1> QED  BY <1>5

\* Every variable keeps its type, for any punches, filters, tabs and page size; a row that
\* is stored always has a number of its own (attendance_logs).
THEOREM DeskTypeCorrect == DeskSpec => []DeskTypeOK
<1>1. DeskInv => DeskTypeOK
  BY DEF DeskInv
<1> QED  BY <1>1, DeskInvHolds, PTL

\* However old the panels are, however many operators work through them and whatever is
\* stored, linked, unlinked or voided meanwhile, the oldest row of a pin and minute is
\* never voided from a panel (duplicates, setVoidTarget, void).
THEOREM OriginalsAreKept == DeskSpec => []PanelKeepsTheOriginal
BY OldestIsKept, DeskInvHolds, PTL

-----------------------------------------------------------------------------
(* The reports                                                             *)

\* A finite set can be numbered from 1.
LEMMA CanBeNumbered ==
    ASSUME NEW G, IsFiniteSet(G)
    PROVE  \E g \in [1 .. Cardinality(G) -> G] :
               /\ \A i, j \in 1 .. Cardinality(G) : g[i] = g[j] => i = j
               /\ \A p \in G : \E i \in 1 .. Cardinality(G) : g[i] = p
<1>1. PICK g : g \in Bijection(1 .. Cardinality(G), G)
  BY FS_CardinalityType DEF ExistsBijection
<1> DEFINE D == 1 .. Cardinality(G)
<1>2. g \in Bijection(D, G)
  BY <1>1
<1> HIDE DEF D
<1>3. /\ g \in [D -> G]
      /\ \A i, j \in D : g[i] = g[j] => i = j
      /\ \A p \in G : \E i \in D : g[i] = p
  BY <1>2 DEF Bijection, Injection, Surjection, IsInjective
<1> QED  BY <1>3 DEF D

\* The points under the graph of f.
LEMMA PointsUnder ==
    ASSUME NEW f, NEW x
    PROVE  x \in Under(f) <=> \E k \in DOMAIN f : \E i \in 1 .. f[k] : x = <<k, i>>
<1> DEFINE Points(k) == {<<k, i>> : i \in 1 .. f[k]}
<1>1. x \in Under(f) <=> \E T \in {Points(k) : k \in DOMAIN f} : x \in T
  BY Zenon DEF Under
<1>2. \A k : x \in Points(k) <=> \E i \in 1 .. f[k] : x = <<k, i>>
  BY Zenon
<1> HIDE DEF Points
<1> QED  BY <1>1, <1>2

\* They are finitely many if f has finitely many arguments.
LEMMA UnderIsFinite ==
    ASSUME NEW f, IsFiniteSet(DOMAIN f), \A k \in DOMAIN f : f[k] \in Nat
    PROVE  IsFiniteSet(Under(f))
<1> DEFINE Points(k) == {<<k, i>> : i \in 1 .. f[k]}
           Sets == {Points(k) : k \in DOMAIN f}
<1>1. ASSUME NEW k \in DOMAIN f
      PROVE  IsFiniteSet(Points(k))
  <2>1. [i \in 1 .. f[k] |-> <<k, i>>] \in Surjection(1 .. f[k], Points(k))
    BY Zenon DEF Surjection
  <2> HIDE DEF Points
  <2> QED  BY <2>1, FS_Interval, FS_Surjection
<1>2. IsFiniteSet(Sets)
  <2>1. [k \in DOMAIN f |-> Points(k)] \in Surjection(DOMAIN f, Sets)
    BY Zenon DEF Surjection
  <2> HIDE DEF Sets
  <2> QED  BY <2>1, FS_Surjection
<1>3. \A T \in Sets : IsFiniteSet(T)
  BY <1>1
<1> HIDE DEF Sets, Points
<1>4. IsFiniteSet(UNION Sets)
  BY <1>2, <1>3, FS_UNION
<1> QED  BY <1>4, Zenon DEF Under, Sets, Points

\* If every element of a set has a place of its own under the graph of f, and every place
\* is taken, the values of f add up to the size of the set.
LEMMA PlacesAddUp ==
    ASSUME NEW S, IsFiniteSet(S), NEW key, NEW K, NEW f \in [K -> Nat], NEW number,
           \A k \in K : \A i \in 1 .. f[k] : number[k][i] \in S /\ key[number[k][i]] = k,
           \A k \in K : \A i, j \in 1 .. f[k] : number[k][i] = number[k][j] => i = j,
           \A p \in S : key[p] \in K /\ \E i \in 1 .. f[key[p]] : number[key[p]][i] = p
    PROVE  SumOf(f) = Cardinality(S)
<1> DEFINE place == [x \in Under(f) |-> number[x[1]][x[2]]]
<1>1. ASSUME NEW x \in Under(f)
      PROVE  \E k \in K : \E i \in 1 .. f[k] : x = <<k, i>> /\ place[x] = number[k][i]
  <2>1. PICK k \in K : \E i \in 1 .. f[k] : x = <<k, i>>
    BY PointsUnder
  <2>2. PICK i \in 1 .. f[k] : x = <<k, i>>
    BY <2>1
  <2> QED  BY <2>2
<1>2. ASSUME NEW k \in K, NEW i \in 1 .. f[k]
      PROVE  <<k, i>> \in Under(f) /\ place[<<k, i>>] = number[k][i]
  <2>1. <<k, i>> \in Under(f)
    BY PointsUnder
  <2> QED  BY <2>1
<1>3. \A x \in Under(f) : place[x] \in S
  BY <1>1
<1>4. place \in [Under(f) -> S]
  BY <1>3
<1> HIDE DEF place
<1>5. ASSUME NEW x \in Under(f), NEW y \in Under(f), place[x] = place[y]
      PROVE  x = y
  <2>1. PICK k \in K : \E i \in 1 .. f[k] : x = <<k, i>> /\ place[x] = number[k][i]
    BY <1>1
  <2>2. PICK i \in 1 .. f[k] : x = <<k, i>> /\ place[x] = number[k][i]
    BY <2>1
  <2>3. PICK l \in K : \E j \in 1 .. f[l] : y = <<l, j>> /\ place[y] = number[l][j]
    BY <1>1
  <2>4. PICK j \in 1 .. f[l] : y = <<l, j>> /\ place[y] = number[l][j]
    BY <2>3
  <2>5. k = l
    BY <1>5, <2>2, <2>4
  <2>6. i = j
    BY <1>5, <2>2, <2>4, <2>5
  <2> QED  BY <2>2, <2>4, <2>5, <2>6
<1>6. ASSUME NEW p \in S
      PROVE  \E x \in Under(f) : place[x] = p
  <2> DEFINE k == key[p]
  <2>1. k \in K
    OBVIOUS
  <2>2. PICK i \in 1 .. f[k] : number[k][i] = p
    OBVIOUS
  <2> HIDE DEF k
  <2>3. <<k, i>> \in Under(f) /\ place[<<k, i>>] = p
    BY <1>2, <2>1, <2>2
  <2> QED  BY <2>3
<1>7. place \in Injection(Under(f), S) /\ place \in Surjection(Under(f), S)
  BY <1>4, <1>5, <1>6 DEF Injection, Surjection, IsInjective
<1> QED  BY <1>7, FS_Injection DEF SumOf

\* A GROUP BY loses no row and counts none twice: however a finite set is cut by a key,
\* the sizes of its groups add up to the size of the set.
LEMMA GroupsAddUp ==
    ASSUME NEW S, IsFiniteSet(S), NEW Keys, NEW key, \A p \in S : key[p] \in Keys,
           NEW groups, DOMAIN groups = Keys, groups = [k \in Keys |-> groups[k]],
           \A k \in Keys : groups[k] = Cardinality({p \in S : key[p] = k})
    PROVE  SumOf(groups) = Cardinality(S)
<1> DEFINE Group(k) == {p \in S : key[p] = k}
           Numbers(G, g) ==
               /\ g \in [1 .. Cardinality(G) -> G]
               /\ \A i, j \in 1 .. Cardinality(G) : g[i] = g[j] => i = j
               /\ \A p \in G : \E i \in 1 .. Cardinality(G) : g[i] = p
           number == [k \in Keys |-> CHOOSE g : Numbers(Group(k), g)]
<1>1. \A k \in Keys : groups[k] = Cardinality(Group(k))
  OBVIOUS
<1>2. \A G : IsFiniteSet(G) => \E g : Numbers(G, g)
  BY CanBeNumbered
<1>3. \A k : IsFiniteSet(Group(k))
  BY FS_Subset
<1>4. \A p \in S : key[p] \in Keys /\ p \in Group(key[p])
  OBVIOUS
<1>5. \A k, p : p \in Group(k) => p \in S /\ key[p] = k
  OBVIOUS
<1>6. groups \in [Keys -> Nat]
  <2>1. \A k \in Keys : groups[k] \in Nat
    <3> HIDE DEF Group
    <3> QED  BY <1>1, <1>3, FS_CardinalityType
  <2> QED  BY <2>1
<1>7. ASSUME NEW k \in Keys
      PROVE  /\ \A i \in 1 .. groups[k] : number[k][i] \in S /\ key[number[k][i]] = k
             /\ \A i, j \in 1 .. groups[k] : number[k][i] = number[k][j] => i = j
             /\ \A p \in Group(k) : \E i \in 1 .. groups[k] : number[k][i] = p
  <2>1. Numbers(Group(k), number[k])
    <3> HIDE DEF Numbers, Group
    <3> QED  BY <1>2, <1>3
  <2>2. /\ number[k] \in [1 .. groups[k] -> Group(k)]
        /\ \A i, j \in 1 .. groups[k] : number[k][i] = number[k][j] => i = j
        /\ \A p \in Group(k) : \E i \in 1 .. groups[k] : number[k][i] = p
    <3> DEFINE g == number[k]
               G == Group(k)
    <3>1. Numbers(G, g)
      BY <2>1
    <3>2. groups[k] = Cardinality(G)
      BY <1>1
    <3> HIDE DEF g, G
    <3>3. /\ g \in [1 .. groups[k] -> G]
          /\ \A i, j \in 1 .. groups[k] : g[i] = g[j] => i = j
          /\ \A p \in G : \E i \in 1 .. groups[k] : g[i] = p
      BY <3>1, <3>2
    <3> QED  BY <3>3 DEF g, G
  <2> DEFINE g == number[k]
             n == groups[k]
             G == Group(k)
  <2>3. g \in [1 .. n -> G] /\ \A p \in G : p \in S /\ key[p] = k
    BY <1>5, <2>2
  <2>4. n \in Nat
    BY <1>6
  <2> HIDE DEF g, n, G
  <2>5. \A i \in 1 .. n : g[i] \in S /\ key[g[i]] = k
    BY <2>3, <2>4
  <2> QED  BY <2>2, <2>5 DEF g, n, G
<1> HIDE DEF number, Group
<1>8. /\ \A k \in Keys : \A i \in 1 .. groups[k] :
             number[k][i] \in S /\ key[number[k][i]] = k
      /\ \A k \in Keys : \A i, j \in 1 .. groups[k] :
             number[k][i] = number[k][j] => i = j
      /\ \A p \in S : /\ key[p] \in Keys
                      /\ \E i \in 1 .. groups[key[p]] : number[key[p]][i] = p
  <2>1. ASSUME NEW p \in S
        PROVE  key[p] \in Keys /\ \E i \in 1 .. groups[key[p]] : number[key[p]][i] = p
    <3> DEFINE k == key[p]
    <3>1. k \in Keys /\ p \in Group(k)
      BY <1>4
    <3> HIDE DEF k
    <3>2. \E i \in 1 .. groups[k] : number[k][i] = p
      BY <1>7, <3>1
    <3> QED  BY <3>1, <3>2 DEF k
  <2> QED  BY <1>7, <2>1
<1> QED  BY <1>6, <1>8, PlacesAddUp

\* The groups of each report, before any is cut off, add up to what the attendance page
\* counts.
LEMMA ReportsAddUp ==
    /\ SumOf(EmployeeGroups) = Cardinality(LiveRows)
    /\ SumOf(reportByDevice) = Cardinality(LiveRows)
    /\ SumOf(reportDaily) = Cardinality(LiveRows)
<1>1. IsFiniteSet(LiveRows)
  BY FS_Subset, DeskAssumption DEF LiveRows
<1>2. SumOf(EmployeeGroups) = Cardinality(LiveRows)
  <2> DEFINE key == [p \in LiveRows |-> <<fact[p].pin, rows[p].linked>>]
             Keys == {key[p] : p \in LiveRows}
  <2>1. EmployeeGroups = [k \in Keys |-> Cardinality({p \in LiveRows : key[p] = k})]
    BY DEF EmployeeGroups, Tally
  <2>2. \A p \in LiveRows : key[p] \in Keys
    OBVIOUS
  <2> HIDE DEF key, Keys
  <2>3. /\ DOMAIN EmployeeGroups = Keys /\ EmployeeGroups = [k \in Keys |-> EmployeeGroups[k]]
        /\ \A k \in Keys : EmployeeGroups[k] = Cardinality({p \in LiveRows : key[p] = k})
    BY <2>1
  <2> QED  BY <1>1, <2>2, <2>3, GroupsAddUp
<1>3. SumOf(reportByDevice) = Cardinality(LiveRows)
  <2> DEFINE key == [p \in LiveRows |-> fact[p].device]
             Keys == {key[p] : p \in LiveRows}
  <2>1. reportByDevice = [k \in Keys |-> Cardinality({p \in LiveRows : key[p] = k})]
    BY DEF reportByDevice, Tally
  <2>2. \A p \in LiveRows : key[p] \in Keys
    OBVIOUS
  <2> HIDE DEF key, Keys
  <2>3. /\ DOMAIN reportByDevice = Keys /\ reportByDevice = [k \in Keys |-> reportByDevice[k]]
        /\ \A k \in Keys : reportByDevice[k] = Cardinality({p \in LiveRows : key[p] = k})
    BY <2>1
  <2> QED  BY <1>1, <2>2, <2>3, GroupsAddUp
<1>4. SumOf(reportDaily) = Cardinality(LiveRows)
  <2> DEFINE key == [p \in LiveRows |-> fact[p].day]
             Keys == {key[p] : p \in LiveRows}
  <2>1. reportDaily = [k \in Keys |-> Cardinality({p \in LiveRows : key[p] = k})]
    BY DEF reportDaily, Tally
  <2>2. \A p \in LiveRows : key[p] \in Keys
    OBVIOUS
  <2> HIDE DEF key, Keys
  <2>3. /\ DOMAIN reportDaily = Keys /\ reportDaily = [k \in Keys |-> reportDaily[k]]
        /\ \A k \in Keys : reportDaily[k] = Cardinality({p \in LiveRows : key[p] = k})
    BY <2>1
  <2> QED  BY <1>1, <2>2, <2>3, GroupsAddUp
<1> QED  BY <1>2, <1>3, <1>4

\* The groups of members are finitely many, and none is empty.
LEMMA GroupsAreFull ==
    /\ IsFiniteSet(DOMAIN EmployeeGroups)
    /\ EmployeeGroups = [k \in DOMAIN EmployeeGroups |-> EmployeeGroups[k]]
    /\ \A k \in DOMAIN EmployeeGroups : EmployeeGroups[k] \in Nat \ {0}
<1> DEFINE key(p) == <<fact[p].pin, rows[p].linked>>
           Keys == {key(p) : p \in LiveRows}
           Group(k) == {p \in LiveRows : key(p) = k}
<1>1. IsFiniteSet(LiveRows)
  BY FS_Subset, DeskAssumption DEF LiveRows
<1>2. IsFiniteSet(Keys)
  <2>1. [p \in LiveRows |-> key(p)] \in Surjection(LiveRows, Keys)
    BY Zenon DEF Surjection
  <2> HIDE DEF Keys
  <2> QED  BY <1>1, <2>1, FS_Surjection
<1>3. EmployeeGroups = [k \in Keys |-> Cardinality(Group(k))]
  BY DEF EmployeeGroups, Tally
<1>4. ASSUME NEW k \in Keys
      PROVE  Cardinality(Group(k)) \in Nat \ {0}
  <2>1. PICK p \in LiveRows : k = key(p)
    OBVIOUS
  <2>2. p \in Group(k) /\ IsFiniteSet(Group(k))
    BY <1>1, <2>1, FS_Subset
  <2> HIDE DEF Group
  <2> QED  BY <2>2, FS_CardinalityType, FS_EmptySet
<1> HIDE DEF Keys, Group
<1>5. DOMAIN EmployeeGroups = Keys /\ \A k \in Keys : EmployeeGroups[k] = Cardinality(Group(k))
  BY <1>3
<1>6. EmployeeGroups = [k \in Keys |-> EmployeeGroups[k]]
  BY <1>3, <1>5
<1> QED  BY <1>2, <1>4, <1>5, <1>6

\* An answer that has all groups counts everything, and one that lacks some counts less.
LEMMA CutReports ==
    ASSUME NEW K \in TopGroups
    PROVE  LET r == [k \in K |-> EmployeeGroups[k]]
               n == Cardinality(DOMAIN EmployeeGroups)
           IN  /\ n <= ReportLimit => r = EmployeeGroups
               /\ ~(n <= ReportLimit) => SumOf(r) < SumOf(EmployeeGroups)
<1> DEFINE f == EmployeeGroups
           D == DOMAIN EmployeeGroups
           r == [k \in K |-> f[k]]
           n == Cardinality(D)
<1>1. /\ IsFiniteSet(D) /\ n \in Nat
      /\ f = [k \in D |-> f[k]] /\ \A k \in D : f[k] \in Nat \ {0}
  BY GroupsAreFull, FS_CardinalityType
<1>2. K \subseteq D /\ Cardinality(K) = AtMost(n, ReportLimit)
  BY DEF TopGroups
<1>3. ASSUME n <= ReportLimit
      PROVE  r = f
  <2>1. Cardinality(K) = n
    BY <1>2, <1>3 DEF AtMost
  <2>2. K = D
    BY <1>1, <1>2, <2>1, FS_Subset
  <2> QED  BY <1>1, <2>2
<1>4. ASSUME ~(n <= ReportLimit)
      PROVE  SumOf(r) < SumOf(f)
  <2>1. PICK l \in D : l \notin K
    <3>1. Cardinality(K) # n
      BY <1>1, <1>2, <1>4, DeskAssumption DEF AtMost
    <3> QED  BY <1>2, <3>1
  <2>2. <<l, 1>> \in Under(f)
    <3>1. 1 \in 1 .. f[l]
      BY <1>1, <2>1
    <3> QED  BY <2>1, <3>1, PointsUnder
  <2>3. Under(r) \subseteq Under(f) /\ <<l, 1>> \notin Under(r)
    <3>1. DOMAIN r = K /\ \A k \in K : r[k] = f[k]
      OBVIOUS
    <3> HIDE DEF r, f
    <3>2. ASSUME NEW x \in Under(r)
          PROVE  x \in Under(f) /\ x # <<l, 1>>
      <4>1. PICK k \in K : \E i \in 1 .. r[k] : x = <<k, i>>
        BY <3>1, PointsUnder
      <4>2. PICK i \in 1 .. r[k] : x = <<k, i>>
        BY <4>1
      <4>3. k \in D /\ i \in 1 .. f[k] /\ k # l
        BY <1>2, <2>1, <3>1
      <4> HIDE DEF D
      <4>4. k \in DOMAIN f
        BY <4>3 DEF D, f
      <4> QED  BY <4>2, <4>3, <4>4, PointsUnder
    <3> QED  BY <3>2
  <2>4. IsFiniteSet(Under(f))
    <3>1. IsFiniteSet(LiveRows)
      BY FS_Subset, DeskAssumption DEF LiveRows
    <3> QED  BY UnderIsFinite, <1>1
  <2> HIDE DEF r, f
  <2>5. Cardinality(Under(r)) <= Cardinality(Under(f)) /\ Cardinality(Under(r)) # Cardinality(Under(f))
    BY <2>2, <2>3, <2>4, FS_Subset
  <2>6. Cardinality(Under(r)) \in Nat /\ Cardinality(Under(f)) \in Nat
    BY <2>3, <2>4, FS_Subset, FS_CardinalityType
  <2> QED  BY <2>5, <2>6 DEF SumOf
<1> QED  BY <1>3, <1>4

\* The reports and the page's count agree whatever is stored, linked, unlinked and voided,
\* for any devices, days, pins and members; the report by member does while its groups are
\* no more than its lines, and falls short after that (attendance.ts:110-223).
THEOREM ReportsNeverDiffer == DeskSpec => []ReportsAgree
<1>1. ReportsAgree
  <2>1. Counted(NoFilter) = Cardinality(LiveRows)
    BY DEF Counted, Matching, Passes, NoFilter
  <2>2. ASSUME NEW r \in reportByEmployee
        PROVE  IF Cardinality(DOMAIN EmployeeGroups) <= ReportLimit
               THEN SumOf(r) = Counted(NoFilter)
               ELSE SumOf(r) < Counted(NoFilter)
    <3>1. PICK K \in TopGroups : r = [k \in K |-> EmployeeGroups[k]]
      BY DEF reportByEmployee
    <3> QED  BY <2>1, <3>1, CutReports, ReportsAddUp
  <2> QED  BY <2>1, <2>2, ReportsAddUp DEF ReportsAgree
<1> QED  BY <1>1, PTL

-----------------------------------------------------------------------------
(* The desk keeps the log                                                  *)

VoidedRows == {p \in LogKeys : rows[p].voided # "no"}

\* Only a row that is there can be voided.
VoidedAreStored == VoidedRows \subseteq StoredRows

\* What a step does to the rows that are stored and to those that are voided.
LEMMA RowSteps ==
    ASSUME DeskTypeOK, VoidedAreStored, [DeskNext]_deskVars
    PROVE  \/ StoredRows' = StoredRows /\ VoidedRows' = VoidedRows
           \/ \E p \in LogKeys \ StoredRows :
                  StoredRows' = StoredRows \cup {p} /\ VoidedRows' = VoidedRows
           \/ \E p \in StoredRows \ VoidedRows :
                  StoredRows' = StoredRows /\ VoidedRows' = VoidedRows \cup {p}
<1> DEFINE Same == StoredRows' = StoredRows /\ VoidedRows' = VoidedRows
           Stores == \E p \in LogKeys \ StoredRows :
                         StoredRows' = StoredRows \cup {p} /\ VoidedRows' = VoidedRows
           Voids == \E p \in StoredRows \ VoidedRows :
                        StoredRows' = StoredRows /\ VoidedRows' = VoidedRows \cup {p}
<1>0. rows \in [LogKeys -> LogRow]
  BY RowsTyped
<1>1. ASSUME NEW p \in LogKeys, UploadPunch(p) \/ insertManual(p)
      PROVE  Same \/ Stores
  <2>1. CASE Stored(p)
    <3>1. rows' = rows
      BY <1>0, <1>1, <2>1 DEF UploadPunch, insertManual, Upserted
    <3> QED  BY <3>1 DEF StoredRows, VoidedRows, Stored
  <2>2. CASE ~Stored(p)
    <3>1. rows' = [rows EXCEPT ![p] = InsertedRow(p)]
      BY <1>1, <2>2 DEF UploadPunch, insertManual, Upserted
    <3>2. rows'[p].born > 0 /\ rows'[p].voided = "no"
      BY <1>0, <3>1, StoredAreCounted DEF InsertedRow, StoredRows
    <3>3. \A q \in LogKeys \ {p} : rows'[q] = rows[q]
      BY <1>0, <3>1
    <3>4. rows[p].voided = "no" /\ p \in LogKeys \ StoredRows
      BY <2>2 DEF VoidedAreStored, VoidedRows, StoredRows
    <3>5. StoredRows' = StoredRows \cup {p}
      BY <3>2, <3>3 DEF StoredRows, Stored
    <3>6. VoidedRows' = VoidedRows
      BY <3>2, <3>3, <3>4 DEF VoidedRows
    <3> QED  BY <3>4, <3>5, <3>6
  <2> QED  BY <2>1, <2>2
<1>2. ASSUME NEW pin \in LoggedPins, DeleteMember(pin)
      PROVE  Same
  <2>1. \A p \in LogKeys : rows'[p].born = rows[p].born /\ rows'[p].voided = rows[p].voided
    <3>1. \A p \in LogKeys : /\ [rows[p] EXCEPT !.linked = FALSE].born = rows[p].born
                             /\ [rows[p] EXCEPT !.linked = FALSE].voided = rows[p].voided
      BY <1>0 DEF LogRow
    <3> QED  BY <1>2, <3>1 DEF DeleteMember, Unlinked
  <2> QED  BY <2>1 DEF StoredRows, Stored, VoidedRows
<1>3. ASSUME NEW p \in LogKeys, Live(p), NEW v \in Places, rows' = [rows EXCEPT ![p].voided = v]
      PROVE  Voids
  <2>1. rows'[p].born = rows[p].born /\ rows'[p].voided \in Places
    BY <1>0, <1>3 DEF LogRow
  <2>2. \A q \in LogKeys \ {p} : rows'[q] = rows[q]
    BY <1>0, <1>3
  <2>3. p \in StoredRows \ VoidedRows
    BY <1>3 DEF Live, StoredRows, VoidedRows
  <2>4. StoredRows' = StoredRows
    BY <2>1, <2>2 DEF StoredRows, Stored
  <2>5. VoidedRows' = VoidedRows \cup {p}
    BY <2>1, <2>2 DEF VoidedRows, Places
  <2> QED  BY <2>3, <2>4, <2>5
<1>4. ASSUME NEW t \in Tabs, VoidDone(t) \/ VoidUnheard(t)
      PROVE  Voids
  <2>1. dialog[t] \in Target /\ VoidTarget(t)
    BY <1>4 DEF VoidDone, VoidUnheard, VoidTarget, DeskTypeOK
  <2>2. dialog[t].punch \in LogKeys /\ dialog[t].from \in Places
    BY <2>1 DEF Target
  <2> HIDE DEF Voids
  <2> QED  BY <1>3, <2>1, <2>2 DEF VoidTarget
<1>5. ASSUME NEW p \in LogKeys, VoidElsewhere(p)
      PROVE  Voids
  <2> HIDE DEF Voids
  <2> QED  BY <1>3, <1>5 DEF VoidElsewhere, Places
<1>6. ASSUME UNCHANGED rows
      PROVE  Same
  BY <1>6 DEF StoredRows, Stored, VoidedRows
<1> HIDE DEF Same, Stores, Voids
<1>7. Same \/ Stores \/ Voids
  BY <1>1, <1>2, <1>4, <1>5, <1>6
     DEF DeskNext, deskVars, CreateMember, SetFilter, NextPage, PrevPage, Turn,
         FetchList, FetchCount, FetchPanel, Pick, Cancel
<1> QED  BY <1>7 DEF Same, Stores, Voids

\* Whatever terminals, members and tabs do, the desk's table is an AttendanceLog, as the
\* ingest's is: rows are never lost, and a voided one stays voided, whether its punch
\* comes again, its member leaves or another tab voids it (attendance.service.ts:79-95,
\* attendance.ts:160-301).
THEOREM DeskKeepsLog == DeskSpec => DeskLogSpec
<1>1. DeskInit => DeskLog!Init /\ VoidedAreStored
  BY DEF DeskInit, DeskLog!Init, VoidedAreStored, VoidedRows, StoredRows, Stored, NoRow
<1>2. ASSUME DeskTypeOK, VoidedAreStored, [DeskNext]_deskVars
      PROVE  VoidedAreStored' /\ [DeskLog!Next]_<<StoredRows, VoidedRows>>
  <2>1. CASE StoredRows' = StoredRows /\ VoidedRows' = VoidedRows
    BY <1>2, <2>1 DEF VoidedAreStored
  <2>2. ASSUME NEW p \in LogKeys \ StoredRows,
               StoredRows' = StoredRows \cup {p}, VoidedRows' = VoidedRows
        PROVE  VoidedAreStored' /\ [DeskLog!Next]_<<StoredRows, VoidedRows>>
    <3>1. DeskLog!Insert(p)
      BY <2>2 DEF DeskLog!Insert, StoredRows, VoidedRows
    <3> QED  BY <1>2, <2>2, <3>1 DEF DeskLog!Next, VoidedAreStored
  <2>3. ASSUME NEW p \in StoredRows \ VoidedRows,
               StoredRows' = StoredRows, VoidedRows' = VoidedRows \cup {p}
        PROVE  VoidedAreStored' /\ [DeskLog!Next]_<<StoredRows, VoidedRows>>
    <3>1. DeskLog!Void(p) /\ p \in LogKeys
      BY <2>3 DEF DeskLog!Void, StoredRows, VoidedRows
    <3> QED  BY <1>2, <2>3, <3>1 DEF DeskLog!Next, VoidedAreStored
  <2> QED  BY <1>2, <2>1, <2>2, <2>3, RowSteps
<1>3. DeskTypeOK /\ VoidedAreStored /\ [DeskNext]_deskVars =>
          VoidedAreStored' /\ [DeskLog!Next]_<<StoredRows, VoidedRows>>
  BY <1>2
<1>4. DeskLogSpec <=> DeskLog!Init /\ [][DeskLog!Next]_<<StoredRows, VoidedRows>>
  BY DEF DeskLogSpec, DeskLog!Spec, StoredRows, VoidedRows
<1> QED  BY <1>1, <1>3, <1>4, DeskTypeCorrect, PTL DEF DeskSpec

\* A correction does not reach the exports: from the CSV a void takes no row, and from a
\* timesheet only the deletion of the member does (export/route.ts:70-97,
\* employees.ts:120-128).
THEOREM VoidsAreExported == DeskSpec => ExportsKeepVoids
<1>1. ASSUME DeskTypeOK, [DeskNext]_deskVars, NEW p \in LogKeys
      PROVE  /\ p \in Exported(NoFilter) => p \in Exported(NoFilter)'
             /\ p \in DayPunches(fact[p].pin, fact[p].day)
                   => \/ p \in DayPunches(fact[p].pin, fact[p].day)'
                      \/ fact[p].pin \notin member'
  <2> SUFFICES ASSUME Stored(p)
               PROVE  /\ Stored(p)'
                      /\ rows[p].linked => rows'[p].linked \/ fact[p].pin \notin member'
    BY DEF Exported, DayPunches, Passes, NoFilter
  <2>0. rows \in [LogKeys -> LogRow]
    BY <1>1, RowsTyped
  <2>1. ASSUME NEW q \in LogKeys, UploadPunch(q) \/ insertManual(q)
        PROVE  rows'[p] = rows[p]
    BY <2>0, <2>1 DEF UploadPunch, insertManual, Upserted
  <2>2. ASSUME NEW pin \in LoggedPins, DeleteMember(pin)
        PROVE  /\ rows'[p].born = rows[p].born
               /\ rows'[p].linked = rows[p].linked \/ fact[p].pin \notin member'
    <3>1. rows'[p].born = rows[p].born
      BY <2>0, <2>2 DEF DeleteMember, Unlinked, LogRow
    <3>2. fact[p].pin # pin => rows'[p] = rows[p]
      BY <2>0, <2>2 DEF DeleteMember, Unlinked
    <3>3. fact[p].pin = pin => fact[p].pin \notin member'
      BY <2>2 DEF DeleteMember
    <3> QED  BY <3>1, <3>2, <3>3
  <2>3. ASSUME NEW q \in LogKeys, NEW v, rows' = [rows EXCEPT ![q].voided = v]
        PROVE  rows'[p].born = rows[p].born /\ rows'[p].linked = rows[p].linked
    BY <2>0, <2>3 DEF LogRow
  <2>4. ASSUME NEW t \in Tabs, VoidDone(t) \/ VoidUnheard(t)
        PROVE  rows'[p].born = rows[p].born /\ rows'[p].linked = rows[p].linked
    <3>1. dialog[t].punch \in LogKeys
      BY <1>1, <2>4 DEF VoidDone, VoidUnheard, VoidTarget, DeskTypeOK, Target
    <3> QED  BY <2>3, <2>4, <3>1 DEF VoidDone, VoidUnheard, VoidTarget
  <2>5. ASSUME NEW q \in LogKeys, VoidElsewhere(q)
        PROVE  rows'[p].born = rows[p].born /\ rows'[p].linked = rows[p].linked
    BY <2>3, <2>5 DEF VoidElsewhere
  <2>6. CASE UNCHANGED rows
    BY <2>6 DEF Stored
  <2> QED
    BY <1>1, <2>1, <2>2, <2>4, <2>5, <2>6
       DEF Stored, DeskNext, deskVars, CreateMember, SetFilter, NextPage, PrevPage, Turn,
           FetchList, FetchCount, FetchPanel, Pick, Cancel
<1> DEFINE Step == \A p \in LogKeys :
                       /\ p \in Exported(NoFilter) => p \in Exported(NoFilter)'
                       /\ p \in DayPunches(fact[p].pin, fact[p].day)
                              => \/ p \in DayPunches(fact[p].pin, fact[p].day)'
                                 \/ fact[p].pin \notin member'
<1>2. DeskTypeOK /\ [DeskNext]_deskVars => [Step]_deskVars
  BY <1>1
<1>3. DeskSpec => [][Step]_deskVars
  <2> HIDE DEF Step
  <2> QED  BY <1>2, DeskTypeCorrect, PTL DEF DeskSpec
<1> QED  BY <1>3 DEF ExportsKeepVoids
=============================================================================
