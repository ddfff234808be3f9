--------------------------- MODULE TerminalUsers ---------------------------
(***************************************************************************)
(* What the dashboard and the terminals know of one member, and the lines  *)
(* that carry it between them: pushes in the dialect of the terminal's     *)
(* firmware, and the USER, FP, FACE, PALM and BIOPHOTO rows terminals      *)
(* report.  A line is a record of its verb and its fields.                 *)
(*                                                                         *)
(* The terminal is told OK before a report is worked on, so reports are    *)
(* worked on in any order; a row that fails is only logged.  A call that   *)
(* changes the member is one step here, but for the firmware family it     *)
(* wrote its lines for, which it read when it began: MemberRoster takes    *)
(* the calls apart.  What becomes of the queued lines is CommandQueue's:   *)
(* they are taken in any order, and some are lost.  A report is a set of   *)
(* rows: it has one of each slot at most, and they carry every field.      *)
(***************************************************************************)
EXTENDS Naturals, Sequences, FiniteSets, SequencesExt

CONSTANTS Devices,
          FirmwareMarks, TypeMarks,   \* the names that occur in what a terminal tells of
                                      \* itself: in its INFO, in its handshake
          Names, Cards, Passwords,    \* what people type
          Fingers, Captures,          \* finger indices, and what a capture yields
          Clears,                     \* the clearing commands explored
          Sent,                       \* the profiles an inbound call may carry
          MaxUnderWay, Budget,        \* bounds: lines per terminal, acts of people
          None, Blank

Privileges == {0, 14}
Kinds == {"fp", "face", "palm", "photo"}
Profile == [name : Names, privilege : Privileges, card : Cards \cup {None, Blank},
            password : Passwords \cup {None}]

ASSUME TerminalUsersAssumption ==
    /\ IsFiniteSet(Devices) /\ IsFiniteSet(Fingers) /\ 0 \in Fingers /\ Fingers \subseteq Nat
    /\ Sent \subseteq Profile
    /\ None \notin Names \cup Cards \cup Passwords \cup Profile
    /\ Blank \notin Cards \cup Passwords
    /\ \A t \in Captures : DOMAIN t = {"valid", "template"} /\ t.valid \in BOOLEAN
    /\ Clears \subseteq {"clear_all_data", "clear_fingerprints", "clear_faces", "clear_palms",
                         "clear_photos", "clear_admins", "factory_reset"}
    /\ MaxUnderWay \in Nat /\ Budget \in Nat

VARIABLES row,        \* employees: the member, or None
          templates,  \* biometric_templates: from kind and fid
          links,      \* employee_devices
          family,     \* devices.firmware_family
          known,      \* the terminal has sent its INFO since its last handshake
          versions,   \* what a call under way may have read of the two
          queue,      \* commands on their way to each terminal
          user, bios, \* what each terminal holds of the member
          reports,    \* uploads on their way to the server
          refused,    \* user lines terminals answered with -1004
          captured,   \* templates ever captured at a terminal
          crossed,    \* terminals whose record may have parted from the row
          spent

deviceVars == <<family, known, versions>>
serverVars == <<row, templates, links, deviceVars>>
terminalVars == <<user, bios, captured>>
vars == <<serverVars, terminalVars, queue, reports, refused, crossed, spent>>

-----------------------------------------------------------------------------
(* Dialects                                                                *)

Mentions(marks, names) == marks \cap names # {}

ForgetsZem900(marks) ==
    IF Mentions(marks, {"zam170", "speedface"}) THEN "speedface"
    ELSE IF Mentions(marks, {"zem8", "biotime", "iclock"}) THEN "biotime"
    ELSE IF Mentions(marks, {"iface"}) THEN "iface"
    ELSE IF Mentions(marks, {"silkbio", "green"}) THEN "green_label"
    ELSE "unknown"

detectFirmwareFamily(marks) ==
    IF Mentions(marks, {"zam170", "speedface", "zem900"}) THEN "speedface"
    ELSE IF Mentions(marks, {"zem8", "biotime", "iclock"}) THEN "biotime"
    ELSE IF Mentions(marks, {"iface"}) THEN "iface"
    ELSE IF Mentions(marks, {"silkbio", "green"}) THEN "green_label"
    ELSE "unknown"

\* The table a family's user lines name.
UserTable(fam) == IF fam \in {"speedface", "iface"} THEN "USERINFO" ELSE "user"

\* The firmware itself: SpeedFace and iFace know one form, the others the other.
Understands(d, verb) ==
    (verb = "USERINFO") <=>
        Mentions(FirmwareMarks[d], {"zam170", "zem900", "speedface", "iface"})

-----------------------------------------------------------------------------
(* Lines                                                                   *)

Text(value) == IF value = None THEN Blank ELSE value
OrNull(text) == IF text = Blank THEN None ELSE text

Legacy(p) == [verb |-> "USERINFO", Name |-> p.name, Pri |-> p.privilege,
              Passwd |-> Text(p.password), Card |-> Text(p.card)]
Modern(p) == [verb |-> "user", Name |-> p.name, Pri |-> p.privilege,
              Passwd |-> Text(p.password), Card |-> Text(p.card)]
addUser(fam, p) == IF UserTable(fam) = "USERINFO" THEN Legacy(p) ELSE Modern(p)
queryUsers(fam) == [verb |-> UserTable(fam)]

pushFp(fid, t) == [verb |-> "FINGERTMP", FID |-> fid, Valid |-> t.valid, TMP |-> t.template]
pushFirstFinger(fid, t) == pushFp(0, t)
pushFingerprint(fid, t) == pushFp(fid, t)
pushFace(t) == [verb |-> "FACE", FID |-> 0, Valid |-> t.valid, TMP |-> t.template]
pushPalm(t) == [verb |-> "PALMTMP", FID |-> 0, Valid |-> t.valid, TMP |-> t.template]
pushPhoto(t) == [verb |-> "BIOPHOTO", Content |-> t.template]

\* What the clearing commands take from a terminal.
Cleared == [clear_all_data |-> Kinds, clear_fingerprints |-> {"fp"}, clear_faces |-> {"face"},
            clear_palms |-> {"palm"}, clear_photos |-> {"photo"}, clear_admins |-> {},
            factory_reset |-> Kinds]

\* Rows as terminals write them.
UserRow(u) == [verb |-> "USER", Name |-> u.name, Pri |-> u.privilege,
               Passwd |-> Text(u.password), Card |-> Text(u.card)]
Verbs == [fp |-> "FP", face |-> "FACE", palm |-> "PALM", photo |-> "BIOPHOTO"]
BioRow(kind, fid, t) ==
    IF kind = "photo" THEN [verb |-> "BIOPHOTO", Content |-> t.template]
    ELSE [verb |-> Verbs[kind], FID |-> fid, Valid |-> t.valid, TMP |-> t.template]

DropsCard(line) == [name |-> line.Name, privilege |-> line.Pri, card |-> None,
                    password |-> OrNull(line.Passwd)]
parseUserRow(line) == [name |-> line.Name, privilege |-> line.Pri,
                       card |-> OrNull(line.Card), password |-> OrNull(line.Passwd)]

KindOf(line) == CHOOSE k \in Kinds : Verbs[k] = line.verb
parseBioRecord(line) ==
    IF "Content" \in DOMAIN line
    THEN [kind |-> KindOf(line), fid |-> 0, valid |-> TRUE, template |-> line.Content]
    ELSE [kind |-> KindOf(line), fid |-> line.FID, valid |-> line.Valid,
          template |-> line.TMP]

-----------------------------------------------------------------------------

Empty == <<>>

TypeOK ==
    /\ row \in Profile \cup {None} /\ links \subseteq Devices
    /\ DOMAIN templates \subseteq Kinds \X Fingers
    /\ \A d \in Devices : user[d] \in Profile \cup {None}
                          /\ DOMAIN bios[d] \subseteq Kinds \X Fingers
    /\ known \in [Devices -> BOOLEAN] /\ crossed \subseteq Devices /\ spent \in 0 .. Budget

New == [name : Names, privilege : {0}, card : {None}, password : {None}]

\* A member of the dashboard that no terminal has been told of.
Init ==
    /\ row \in New
    /\ templates = Empty /\ links = {}
    /\ family = [d \in Devices |-> "unknown"] /\ known = [d \in Devices |-> FALSE]
    /\ versions = [d \in Devices |-> {[family |-> "unknown", known |-> FALSE]}]
    /\ queue = [d \in Devices |-> <<>>] /\ reports = [d \in Devices |-> <<>>]
    /\ user = [d \in Devices |-> None] /\ bios = [d \in Devices |-> Empty]
    /\ refused = {} /\ captured = {} /\ crossed = {} /\ spent = 0

Spend == spent < Budget /\ spent' = spent + 1

\* What is there after something was stored over it.
Overlaid(new, old) ==
    [s \in DOMAIN new \cup DOMAIN old |-> IF s \in DOMAIN new THEN new[s] ELSE old[s]]
Held(kind, fid, t, old) == Overlaid([s \in {<<kind, fid>>} |-> t], old)

\* A line for a dialect remembers whether the terminal was known when its family was
\* read; the other lines are the same for all.
Command(kind, line) == [kind |-> kind, line |-> line, known |-> FALSE]
InDialect(kind, version, line) == [kind |-> kind, line |-> line, known |-> version.known]
UserCommand(kind, version, p) == InDialect(kind, version, addUser(version.family, p))
Removal == Command("remove", [verb |-> "DEL_USER"])
Idle(d) == queue[d] = <<>> /\ reports[d] = <<>>

-----------------------------------------------------------------------------
(* What terminals tell of themselves                                       *)

Tell(d, fam, knows) ==
    /\ family' = [family EXCEPT ![d] = fam]
    /\ known' = [known EXCEPT ![d] = knows]
    /\ versions' = [versions EXCEPT ![d] = @ \cup {[family |-> fam, known |-> knows]}]
    /\ UNCHANGED <<row, templates, links, terminalVars, queue, reports, refused, crossed>>

Handshake(d) == Spend /\ Tell(d, detectFirmwareFamily(TypeMarks[d]), FALSE)

Info(d) ==
    /\ ~known[d]
    /\ LET fam == detectFirmwareFamily(FirmwareMarks[d])
       IN  Tell(d, IF fam = "unknown" THEN family[d] ELSE fam, TRUE)
    /\ UNCHANGED spent

-----------------------------------------------------------------------------
(* The dashboard                                                           *)

\* What a call read of its targets, some time since it began.
Views(targets) ==
    {view \in [targets -> UNION {versions[d] : d \in targets}] :
        \A d \in targets : view[d] \in versions[d]}
Queued(view, profile) ==
    [d \in Devices |->
        IF d \in DOMAIN view
        THEN Append(queue[d], UserCommand("profile", view[d], profile))
        ELSE queue[d]]

\* The row as the call leaves it is pushed to its targets.  A push that finds nothing
\* under way brings a terminal back in step; a linked one that is left out of a change
\* parts from the row.
Push(targets) ==
    /\ \E view \in Views(targets) : queue' = Queued(view, row')
    /\ crossed' = (crossed \ {d \in targets : Idle(d)}) \cup {d \in targets : ~Idle(d)}
                      \cup (IF row' = row THEN {} ELSE links \ targets)
    /\ UNCHANGED <<templates, deviceVars, terminalVars, reports, refused>>

\* update: a change of name, privilege or card, pushed to the linked terminals: some of
\* them if it stops half-way.
Update(targets) ==
    /\ Spend
    /\ row # None /\ targets \subseteq links
    /\ \/ \E n \in Names : row' = [row EXCEPT !.name = n]
       \/ \E p \in Privileges : row' = [row EXCEPT !.privilege = p]
       \/ \E c \in Cards \cup {Blank} : row' = [row EXCEPT !.card = c]
    /\ row' # row
    /\ Push(targets)
    /\ UNCHANGED links

\* create, createForEnrollment: a member with that PIN again.
Create(targets) ==
    /\ Spend
    /\ row = None /\ row' \in New
    /\ links' = targets
    /\ Push(targets)

\* The inbound API: the whole profile, pushed to those of the terminals asked for that
\* were online when the batch began.
Inbound(targets) ==
    /\ Spend
    /\ row' \in Sent
    /\ links' = links \cup targets
    /\ Push(targets)

\* pushUpdateToDevices, to linked terminals or others; transfer links with its push.
PushProfile(targets) ==
    /\ Spend
    /\ row # None /\ row' = row
    /\ links' \in {links, links \cup targets}
    /\ Push(targets)

\* transfer, as a move.
Move(from, to) ==
    /\ Spend
    /\ row # None /\ from # to
    /\ \E view \in Views({to}) :
         queue' = [Queued(view, row) EXCEPT ![from] = Append(@, Removal)]
    /\ links' = (links \cup {to}) \ {from}
    /\ crossed' = IF Idle(to) THEN crossed \ {to} ELSE crossed \cup {to}
    /\ UNCHANGED <<row, templates, deviceVars, terminalVars, reports, refused>>

\* delete, with or without the terminals; templates and links go with the row.
Delete(also) ==
    /\ Spend
    /\ row # None /\ row' = None
    /\ queue' = [d \in Devices |->
            IF also /\ d \in links THEN Append(queue[d], Removal) ELSE queue[d]]
    /\ templates' = Empty /\ links' = {}
    /\ UNCHANGED <<deviceVars, terminalVars, reports, refused, crossed>>

\* pushBiometricsToDevices: first the user, by name alone, then each template.
BareUser == [name |-> row.name, privilege |-> 0, card |-> None, password |-> None]
pushTemplate(kind, fid) ==
    LET t == templates[<<kind, fid>>]
    IN  CASE kind = "fp" -> pushFingerprint(fid, t)
          [] kind = "face" -> pushFace(t)
          [] kind = "palm" -> pushPalm(t)
          [] kind = "photo" -> pushPhoto(t)

PushBiometrics(d) ==
    /\ row # None /\ DOMAIN templates # {} /\ Spend
    /\ \E version \in versions[d], order \in SetToSeqs(DOMAIN templates) :
         queue' = [queue EXCEPT ![d] = @ \o
            <<UserCommand("user", version, BareUser)>> \o
            [i \in DOMAIN order |->
                Command("template", pushTemplate(order[i][1], order[i][2]))]]
    /\ links' = links \cup {d}
    /\ crossed' = crossed \cup {d}
    /\ UNCHANGED <<row, templates, deviceVars, terminalVars, reports, refused>>

\* queueCommand: ask for the users, or clear something.
QueryUsers(d) ==
    /\ Spend
    /\ \E version \in versions[d] :
         queue' = [queue EXCEPT ![d] =
             Append(@, InDialect("query", version, queryUsers(version.family)))]
    /\ UNCHANGED <<serverVars, terminalVars, reports, refused, crossed>>

Clear(d, what) ==
    /\ Spend
    /\ queue' = [queue EXCEPT ![d] = Append(@, Command("clear", [verb |-> what]))]
    /\ crossed' = crossed \cup {d}
    /\ UNCHANGED <<serverVars, terminalVars, reports, refused>>

\* A command that is cancelled, that expires, or whose answer to the heartbeat is lost.
Lose(d, i) ==
    /\ queue' = [queue EXCEPT ![d] = RemoveAt(@, i)]
    /\ crossed' = IF queue[d][i].kind = "query" THEN crossed ELSE crossed \cup {d}
    /\ UNCHANGED <<serverVars, terminalVars, reports, refused, spent>>

-----------------------------------------------------------------------------
(* The terminal                                                            *)

Send(d, lines) ==
    /\ Len(reports[d]) < MaxUnderWay
    /\ reports' = [reports EXCEPT ![d] = Append(@, lines)]

AllOf(d) ==
    {UserRow(user[d])} \cup {BioRow(s[1], s[2], bios[d][s]) : s \in DOMAIN bios[d]}

WithUser(d, line) ==
    user' = [user EXCEPT ![d] = [name |-> line.Name, privilege |-> line.Pri,
                                 card |-> OrNull(line.Card), password |-> OrNull(line.Passwd)]]

TakenIn(line) ==
    IF line.verb = "BIOPHOTO"
    THEN [kind |-> "photo", fid |-> 0, valid |-> TRUE, template |-> line.Content]
    ELSE [kind |-> (CASE line.verb = "FINGERTMP" -> "fp"
                      [] line.verb = "FACE" -> "face"
                      [] line.verb = "PALMTMP" -> "palm"),
          fid |-> line.FID, valid |-> line.Valid, template |-> line.TMP]

WithTemplate(d, line) ==
    LET rec == TakenIn(line)
    IN  bios' = [bios EXCEPT ![d] =
            Held(rec.kind, rec.fid, [valid |-> rec.valid, template |-> rec.template], @)]

StoreUser(d, c) ==
    /\ c.kind \in {"profile", "user"} /\ Understands(d, c.line.verb)
    /\ WithUser(d, c.line)
    /\ UNCHANGED <<bios, reports, refused>>

Refuse(d, c) ==
    /\ c.kind \in {"profile", "user", "query"} /\ ~Understands(d, c.line.verb)
    /\ refused' = refused \cup {[d |-> d, known |-> c.known]}
    /\ UNCHANGED <<user, bios, reports>>

Answer(d, c) ==
    /\ c.kind = "query" /\ Understands(d, c.line.verb)
    /\ IF user[d] = None THEN UNCHANGED reports ELSE Send(d, AllOf(d))
    /\ UNCHANGED <<user, bios, refused>>

StoreTemplate(d, c) ==
    /\ c.kind = "template"
    /\ IF user[d] = None THEN UNCHANGED bios ELSE WithTemplate(d, c.line)
    /\ UNCHANGED <<user, reports, refused>>

Obey(d, c) ==
    LET what == c.line.verb
    IN  /\ c.kind = "clear"
        /\ user' = [user EXCEPT ![d] =
               IF @ = None \/ what \in {"clear_all_data", "factory_reset"} THEN None
               ELSE IF what = "clear_admins" THEN [@ EXCEPT !.privilege = 0]
               ELSE @]
        /\ bios' = [bios EXCEPT ![d] =
               [s \in {x \in DOMAIN @ : x[1] \notin Cleared[what]} |-> @[s]]]
        /\ UNCHANGED <<reports, refused>>

Forget(d) ==
    /\ user' = [user EXCEPT ![d] = None]
    /\ bios' = [bios EXCEPT ![d] = Empty]
    /\ UNCHANGED <<reports, refused>>
Unenrol(d, c) == c.kind = "remove" /\ Forget(d)

\* The i-th command reaches the terminal: the first, unless heartbeats overlap.
InTurn(d, i) ==
    LET c == queue[d][i]
    IN  /\ i = 1
        /\ c.kind \in {"profile", "user"} => Understands(d, c.line.verb)
        /\ c.kind = "query" /\ Understands(d, c.line.verb) => Len(queue[d]) = 1 /\ reports[d] = <<>>
Execute(d, i) ==
    /\ queue' = [queue EXCEPT ![d] = RemoveAt(@, i)]
    /\ LET c == queue[d][i]
       IN  \/ StoreUser(d, c) \/ Refuse(d, c) \/ Answer(d, c) \/ StoreTemplate(d, c)
           \/ Obey(d, c) \/ Unenrol(d, c)
    /\ crossed' = IF InTurn(d, i) THEN crossed ELSE crossed \cup {d}
    /\ UNCHANGED <<serverVars, captured, spent>>

\* Someone changes the member at the terminal's menu, enters it there, or enrols at it;
\* it reports the member.
Edit(d) ==
    /\ user[d] # None
    /\ \/ \E n \in Names : user' = [user EXCEPT ![d].name = n]
       \/ \E p \in Privileges : user' = [user EXCEPT ![d].privilege = p]
       \/ \E c \in Cards : user' = [user EXCEPT ![d].card = c]
       \/ \E w \in Passwords : user' = [user EXCEPT ![d].password = w]
    /\ user' # user
    /\ Send(d, {UserRow(user'[d])})
    /\ UNCHANGED <<bios, captured>>

Enter(d) ==
    /\ user[d] = None
    /\ \E u \in New : user' = [user EXCEPT ![d] = u] /\ Send(d, {UserRow(u)})
    /\ UNCHANGED <<bios, captured>>

Enrol(d) ==
    /\ user[d] # None
    /\ \E kind \in Kinds, fid \in Fingers, capture \in Captures :
         LET t == [capture EXCEPT !.valid = @ \/ kind = "photo"]
         IN  /\ kind # "fp" => fid = 0
             /\ bios' = [bios EXCEPT ![d] = Held(kind, fid, t, @)]
             /\ captured' = captured \cup {<<kind, fid, t>>}
             /\ Send(d, {BioRow(kind, fid, t)})
    /\ UNCHANGED user

ChangeAt(d) ==
    /\ Spend
    /\ Edit(d) \/ Enter(d) \/ Enrol(d)
    /\ crossed' = IF Idle(d) THEN crossed ELSE crossed \cup {d}
    /\ UNCHANGED <<serverVars, queue, refused>>

\* Someone deletes the member at the terminal, which tells nobody.
EraseAt(d) ==
    /\ Spend
    /\ user[d] # None /\ Forget(d)
    /\ crossed' = crossed \cup {d}
    /\ UNCHANGED <<serverVars, captured, queue>>

-----------------------------------------------------------------------------
(* Reports                                                                 *)

\* ingestOperlog: a PIN nobody has becomes a member, an existing one keeps its password.
Upserted(u) ==
    IF row = None THEN u
    ELSE [row EXCEPT !.name = u.name, !.privilege = u.privilege, !.card = u.card]

IsUser(line) == line.verb = "USER"
Stored(lines) ==
    LET recs == {parseBioRecord(line) : line \in {x \in lines : ~IsUser(x)}}
    IN  [s \in {<<r.kind, r.fid>> : r \in recs} |->
            LET r == CHOOSE x \in recs : <<x.kind, x.fid>> = s
            IN  [valid |-> r.valid, template |-> r.template]]

\* handleDataUpload and handleFData: the USER rows first, then the templates; each
\* row on its own may fail, and templates of a PIN nobody has are skipped.
Ingest(d, i) ==
    LET lines == reports[d][i]
        users == {parseUserRow(line) : line \in {x \in lines : IsUser(x)}}
    IN  /\ reports' = [reports EXCEPT ![d] = RemoveAt(@, i)]
        /\ \/ \E u \in users : row' = Upserted(u)
           \/ UNCHANGED row
        /\ \/ row' # None /\ templates' = Overlaid(Stored(lines), templates)
           \/ UNCHANGED templates
        /\ crossed' =
             crossed \cup (IF row' # row THEN links \ {d} ELSE {})
                     \cup (IF \E u \in users : row' # Upserted(u) THEN {d} ELSE {})
        /\ UNCHANGED <<links, deviceVars, terminalVars, queue, refused, spent>>

Next ==
    \/ \E targets \in SUBSET Devices :
        Update(targets) \/ Create(targets) \/ Inbound(targets) \/ PushProfile(targets)
    \/ \E also \in BOOLEAN : Delete(also)
    \/ \E d \in Devices :
        \/ Handshake(d) \/ Info(d)
        \/ \E to \in Devices : Move(d, to)
        \/ PushBiometrics(d) \/ QueryUsers(d)
        \/ \E what \in Clears : Clear(d, what)
        \/ \E i \in DOMAIN queue[d] : Execute(d, i) \/ Lose(d, i)
        \/ ChangeAt(d) \/ EraseAt(d)
        \/ \E i \in DOMAIN reports[d] : Ingest(d, i)

Spec == Init /\ [][Next]_vars

-----------------------------------------------------------------------------
(* Properties                                                              *)

\* A terminal refuses a line only if the call that wrote it had read the terminal's family
\* before the terminal told what it is, since its last handshake: however long after that
\* the line was queued and taken (detectFirmwareFamily, pickCommand).
RefusedOnlyUnknown == \A r \in refused : ~r.known

\* Once nothing is under way, a linked terminal and the dashboard say the same of the
\* member, whoever of them was changed last, through every conversion on the way, removals
\* and PINs given out again included (addUser, parseUserRows, ingestOperlog).  Until its
\* next push into quiet, a terminal may differ that
\*   - was left out of a change: of an inbound call while it was offline, of an update that
\*     stopped half-way, of what another terminal reported, which nobody pushes on;
\*   - lost a command, refused one as of another dialect, or took one out of turn;
\*   - had a push and a report of it cross, or a row of its report fail;
\*   - was cleared, had the member deleted at its menu, or was sent the bare user of a
\*     biometric push.
SameProfile(u) ==
    /\ u.name = row.name /\ u.privilege = row.privilege
    /\ u.card = OrNull(row.card) \/ u.card = row.card
AgreeUnlessCrossed ==
    \A d \in links \ crossed : Idle(d) => user[d] # None /\ SameProfile(user[d])

\* However often templates are copied between terminals and reported back, a stored one
\* and one on a terminal is of the finger it was captured from, as it was captured
\* (buildPushFingerprint, parseBioRecords).
AsCaptured(held) ==
    \A s \in DOMAIN held : \E c \in captured : c = <<s[1], s[2], held[s]>>
FingersKept == AsCaptured(templates) /\ \A d \in Devices : AsCaptured(bios[d])
=============================================================================
