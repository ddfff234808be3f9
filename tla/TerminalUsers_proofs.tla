------------------------ MODULE TerminalUsers_proofs ------------------------
(***************************************************************************)
(* What a member's record and templates keep on their way between the      *)
(* dashboard and any number of terminals, for any names, cards, captures   *)
(* and firmware.                                                           *)
(*                                                                         *)
(* Four invariants, each used by the next ones: what every line on its way *)
(* looks like, in which dialect it was written, which capture a template   *)
(* line carries, and how far a terminal that agrees with the dashboard has *)
(* come.                                                                   *)
(***************************************************************************)
EXTENDS TerminalUsers, SequenceTheorems, FiniteSetTheorems, TLAPS

\* What a capture can be: of one finger, face, palm or photo.
Templates == [valid : BOOLEAN, template : {t.template : t \in Captures}]
Copies == {c \in Kinds \X Fingers \X Templates :
              (c[1] # "fp" => c[2] = 0) /\ (c[1] = "photo" => c[3].valid)}

PushOf(c) == CASE c[1] = "fp" -> pushFingerprint(c[2], c[3])
               [] c[1] = "face" -> pushFace(c[3])
               [] c[1] = "palm" -> pushPalm(c[3])
               [] c[1] = "photo" -> pushPhoto(c[3])
RowOf(c) == BioRow(c[1], c[2], c[3])

\* Lines on their way.
UserFields(verbs) == [verb : verbs, Name : Names, Pri : Privileges,
                      Passwd : Passwords \cup {Blank}, Card : Cards \cup {Blank}]
Tables == {"USERINFO", "user"}
Issued ==
    [kind : {"profile", "user"}, line : UserFields(Tables), known : BOOLEAN]
      \cup [kind : {"query"}, line : [verb : Tables], known : BOOLEAN]
      \cup [kind : {"template"}, line : {PushOf(c) : c \in Copies}, known : BOOLEAN]
      \cup [kind : {"clear"}, line : [verb : Clears], known : BOOLEAN]
      \cup [kind : {"remove"}, line : [verb : {"DEL_USER"}], known : BOOLEAN]
ReportRows == UserFields({"USER"}) \cup {RowOf(c) : c \in Copies}

OnTerminal == [name : Names, privilege : Privileges, card : Cards \cup {None},
               password : Passwords \cup {None}]
Families == {"speedface", "biotime", "iface", "green_label", "unknown"}
Versions == [family : Families, known : BOOLEAN]

ServerTypes ==
    /\ row \in Profile \cup {None} /\ links \subseteq Devices
    /\ row = None => links = {}
    /\ DOMAIN templates \subseteq Kinds \X Fingers
    /\ family \in [Devices -> Families] /\ known \in [Devices -> BOOLEAN]
    /\ versions \in [Devices -> SUBSET Versions]
TerminalTypes ==
    /\ user \in [Devices -> OnTerminal \cup {None}]
    /\ DOMAIN bios = Devices
    /\ \A d \in Devices : DOMAIN bios[d] \subseteq Kinds \X Fingers
    /\ captured \subseteq Copies
LineTypes ==
    /\ queue \in [Devices -> Seq(Issued)]
    /\ reports \in [Devices -> Seq(SUBSET ReportRows)]
GhostTypes ==
    /\ refused \subseteq [d : Devices, known : BOOLEAN]
    /\ crossed \subseteq Devices /\ spent \in 0 .. Budget
Types == ServerTypes /\ TerminalTypes /\ LineTypes /\ GhostTypes

\* A call that reads what a terminal is, after it told, writes lines of a table it has.
Right(d, version) ==
    /\ detectFirmwareFamily(FirmwareMarks[d]) = "unknown" =>
           version.family \in {"unknown", detectFirmwareFamily(TypeMarks[d])}
    /\ version.known => Understands(d, UserTable(version.family))
FamilyIsRight ==
    \A d \in Devices :
        /\ [family |-> family[d], known |-> known[d]] \in versions[d]
        /\ \A version \in versions[d] : Right(d, version)
QueuedIsRight ==
    \A d \in Devices : \A i \in DOMAIN queue[d] :
        LET c == queue[d][i]
        IN  c.kind \in {"profile", "user", "query"} /\ c.known => Understands(d, c.line.verb)
Dialect == FamilyIsRight /\ QueuedIsRight /\ RefusedOnlyUnknown

\* Every template on its way was captured.
QueuedIsCaptured ==
    \A d \in Devices : \A i \in DOMAIN queue[d] :
        queue[d][i].kind = "template" => \E c \in captured : queue[d][i].line = PushOf(c)
ReportedIsCaptured ==
    \A d \in Devices : \A i \in DOMAIN reports[d] : \A line \in reports[d][i] :
        ~IsUser(line) => \E c \in captured : line = RowOf(c)
Captured == QueuedIsCaptured /\ ReportedIsCaptured /\ FingersKept

\* A linked terminal that agrees with the row, or is about to: its profile is on its
\* way to it, nothing is, or a report of what it holds is on its way back.  Otherwise
\* it has only queries to answer.
Says(line) == line.Name = row.name /\ line.Pri = row.privilege /\ line.Card = Text(row.card)
OnlyQueries(q) == \A i \in DOMAIN q : q[i].kind = "query"
Pushed(d) ==
    /\ reports[d] = <<>> /\ queue[d] # <<>>
    /\ queue[d][1].kind = "profile" /\ Says(queue[d][1].line)
    /\ \A i \in DOMAIN queue[d] : i # 1 => queue[d][i].kind = "query"
Told(d) ==
    /\ reports[d] = <<>> /\ OnlyQueries(queue[d])
    /\ user[d] # None /\ SameProfile(user[d])
Telling(d) ==
    /\ Len(reports[d]) = 1 /\ OnlyQueries(queue[d])
    /\ user[d] # None
    /\ \A line \in reports[d][1] : IsUser(line) => line = UserRow(user[d])
    /\ UserRow(user[d]) \notin reports[d][1] => SameProfile(user[d])
InStep(d) == Pushed(d) \/ Told(d) \/ Telling(d)
Agreement == \A d \in links \ crossed : InStep(d)

-----------------------------------------------------------------------------
(* Lines                                                                   *)

\* A user line says what the profile it was made from says, in either dialect.
LEMMA UserLines ==
    ASSUME NEW fam, NEW p \in Profile
    PROVE  /\ addUser(fam, p) \in UserFields(Tables)
           /\ addUser(fam, p).verb = UserTable(fam)
           /\ addUser(fam, p).Name = p.name /\ addUser(fam, p).Pri = p.privilege
           /\ addUser(fam, p).Card = Text(p.card)
<1>1. Text(p.card) \in Cards \cup {Blank} /\ Text(p.password) \in Passwords \cup {Blank}
  BY TerminalUsersAssumption DEF TerminalUsersAssumption, Text, Profile
<1> QED  BY <1>1 DEF addUser, Legacy, Modern, UserTable, UserFields, Tables, Profile

\* What is read from a user line, by the server and by a terminal.
LEMMA UserRead ==
    ASSUME NEW verbs, NEW line \in UserFields(verbs)
    PROVE  parseUserRow(line) \in OnTerminal
  BY TerminalUsersAssumption DEF TerminalUsersAssumption, UserFields, parseUserRow, OrNull, OnTerminal

\* A user row that is read back gives what the terminal holds.
LEMMA UserRowRead ==
    ASSUME NEW u \in OnTerminal
    PROVE  /\ UserRow(u) \in UserFields({"USER"})
           /\ parseUserRow(UserRow(u)) = u
<1>1. Text(u.card) \in Cards \cup {Blank} /\ Text(u.password) \in Passwords \cup {Blank}
  BY TerminalUsersAssumption DEF TerminalUsersAssumption, Text, OnTerminal
<1>2. OrNull(Text(u.card)) = u.card /\ OrNull(Text(u.password)) = u.password
  BY TerminalUsersAssumption DEF TerminalUsersAssumption, Text, OrNull, OnTerminal
<1>3. u = [name |-> u.name, privilege |-> u.privilege, card |-> u.card,
           password |-> u.password]
  BY DEF OnTerminal
<1> QED  BY <1>1, <1>2, <1>3 DEF UserRow, UserFields, parseUserRow, OnTerminal

\* What a terminal holds of a profile is one.
LEMMA OnTerminalIsProfile == OnTerminal \subseteq Profile
  BY DEF OnTerminal, Profile

\* The server reads from the row of a template what was captured, and so does a terminal
\* from the line that pushes it.
Contents(c) == [kind |-> c[1], fid |-> c[2], valid |-> c[3].valid, template |-> c[3].template]

\* A template row that is read back gives the template.
LEMMA BioRowRead ==
    ASSUME NEW c \in Copies
    PROVE  /\ ~IsUser(RowOf(c))
           /\ parseBioRecord(RowOf(c)) = Contents(c)
<1>1. c[1] \in Kinds /\ c[3] \in Templates /\ c[2] \in Fingers
      /\ (c[1] # "fp" => c[2] = 0) /\ (c[1] = "photo" => c[3].valid = TRUE)
  BY DEF Copies, Templates
<1>2. KindOf(RowOf(c)) = c[1]
  <2>1. RowOf(c).verb = Verbs[c[1]]
    BY <1>1 DEF RowOf, BioRow, Verbs, Kinds
  <2>2. \A k \in Kinds : Verbs[k] = Verbs[c[1]] => k = c[1]
    BY <1>1 DEF Verbs, Kinds
  <2> QED  BY <1>1, <2>1, <2>2 DEF KindOf
<1>3. CASE c[1] = "photo"
  <2>1. RowOf(c) = [verb |-> "BIOPHOTO", Content |-> c[3].template]
    BY <1>3 DEF RowOf, BioRow
  <2>2. parseBioRecord(RowOf(c)) = [kind |-> c[1], fid |-> 0, valid |-> TRUE,
                                    template |-> c[3].template]
    BY <1>2, <2>1 DEF parseBioRecord
  <2>3. c[2] = 0 /\ c[3].valid = TRUE
    BY <1>1, <1>3
  <2>4. Contents(c) = [kind |-> c[1], fid |-> 0, valid |-> TRUE, template |-> c[3].template]
    BY <2>3, Zenon DEF Contents
  <2> QED  BY <2>1, <2>2, <2>4 DEF IsUser
<1>4. CASE c[1] # "photo"
  <2>1. RowOf(c) = [verb |-> Verbs[c[1]], FID |-> c[2], Valid |-> c[3].valid,
                    TMP |-> c[3].template]
    BY <1>4 DEF RowOf, BioRow
  <2>2. Verbs[c[1]] # "USER"
    BY <1>1 DEF Verbs, Kinds
  <2> QED  BY <1>1, <1>2, <1>4, <2>1, <2>2 DEF parseBioRecord, Contents, IsUser
<1> QED  BY <1>3, <1>4

\* A push that is read back gives the profile.
LEMMA PushRead ==
    ASSUME NEW c \in Copies
    PROVE  TakenIn(PushOf(c)) = Contents(c)
<1>1. c[1] \in Kinds /\ c[3] \in Templates /\ c[2] \in Fingers
      /\ (c[1] # "fp" => c[2] = 0) /\ (c[1] = "photo" => c[3].valid = TRUE)
  BY DEF Copies, Templates
<1>2. CASE c[1] = "fp"
  <2>1. PushOf(c) = [verb |-> "FINGERTMP", FID |-> c[2], Valid |-> c[3].valid,
                     TMP |-> c[3].template]
    BY <1>2 DEF PushOf, pushFingerprint, pushFp
  <2> QED  BY <1>1, <1>2, <2>1 DEF TakenIn, Contents
<1>3. CASE c[1] = "face"
  <2>1. PushOf(c) = [verb |-> "FACE", FID |-> 0, Valid |-> c[3].valid,
                     TMP |-> c[3].template]
    BY <1>3 DEF PushOf, pushFace
  <2> QED  BY <1>1, <1>3, <2>1 DEF TakenIn, Contents
<1>4. CASE c[1] = "palm"
  <2>1. PushOf(c) = [verb |-> "PALMTMP", FID |-> 0, Valid |-> c[3].valid,
                     TMP |-> c[3].template]
    BY <1>4 DEF PushOf, pushPalm
  <2> QED  BY <1>1, <1>4, <2>1 DEF TakenIn, Contents
<1>5. CASE c[1] = "photo"
  <2>1. PushOf(c) = [verb |-> "BIOPHOTO", Content |-> c[3].template]
    BY <1>5 DEF PushOf, pushPhoto
  <2>2. TakenIn(PushOf(c)) = [kind |-> "photo", fid |-> 0, valid |-> TRUE,
                              template |-> c[3].template]
    BY <2>1 DEF TakenIn
  <2>3. c[2] = 0 /\ c[3].valid = TRUE
    BY <1>1, <1>5
  <2>4. Contents(c) = [kind |-> "photo", fid |-> 0, valid |-> TRUE,
                       template |-> c[3].template]
    BY <1>5, <2>3, Zenon DEF Contents
  <2> QED  BY <2>2, <2>4
<1> QED  BY <1>1, <1>2, <1>3, <1>4, <1>5 DEF Kinds

\* A copy is its slot and what is held there.
LEMMA CopyParts ==
    ASSUME NEW c \in Copies
    PROVE  /\ <<c[1], c[2]>> \in Kinds \X Fingers
           /\ c = <<c[1], c[2], [valid |-> c[3].valid, template |-> c[3].template]>>
  BY DEF Copies, Templates

-----------------------------------------------------------------------------
(* Sequences                                                               *)

\* A report or a command that is taken out leaves the others, in their order.
LEMMA Taken ==
    ASSUME NEW S, NEW q \in Seq(S), NEW i \in DOMAIN q
    PROVE  /\ RemoveAt(q, i) \in Seq(S)
           /\ \A j \in DOMAIN RemoveAt(q, i) :
                  /\ j \in DOMAIN q /\ j + 1 \in DOMAIN q
                  /\ RemoveAt(q, i)[j] = IF j < i THEN q[j] ELSE q[j + 1]
           /\ \A j \in DOMAIN RemoveAt(q, i) : \E k \in DOMAIN q : RemoveAt(q, i)[j] = q[k]
           /\ Len(RemoveAt(q, i)) = Len(q) - 1
<1> DEFINE front == SubSeq(q, 1, i - 1)
           back == SubSeq(q, i + 1, Len(q))
<1>1. i \in 1 .. Len(q) /\ Len(q) \in Nat
  OBVIOUS
<1>2. /\ front \in Seq(S) /\ Len(front) = i - 1
      /\ \A j \in 1 .. i - 1 : front[j] = q[j]
  BY <1>1, SubSeqProperties, ElementOfSeq
<1>3. /\ back \in Seq(S) /\ Len(back) = Len(q) - i
      /\ \A j \in 1 .. Len(q) - i : back[j] = q[i + j]
  BY <1>1, SubSeqProperties, ElementOfSeq
<1>4. RemoveAt(q, i) = front \o back
  BY DEF RemoveAt
<1> HIDE DEF front, back
<1>5. /\ front \o back \in Seq(S) /\ Len(front \o back) = Len(q) - 1
      /\ \A j \in 1 .. Len(q) - 1 :
             (front \o back)[j] = IF j < i THEN q[j] ELSE q[j + 1]
  <2>1. front \o back \in Seq(S) /\ Len(front \o back) = Len(q) - 1
    BY <1>1, <1>2, <1>3, ConcatProperties
  <2>2. ASSUME NEW j \in 1 .. Len(q) - 1
        PROVE  (front \o back)[j] = IF j < i THEN q[j] ELSE q[j + 1]
    BY <1>1, <1>2, <1>3, ConcatProperties
  <2> QED  BY <2>1, <2>2
<1>6. ASSUME NEW j \in DOMAIN RemoveAt(q, i)
      PROVE  /\ j \in DOMAIN q /\ j + 1 \in DOMAIN q
             /\ RemoveAt(q, i)[j] = IF j < i THEN q[j] ELSE q[j + 1]
             /\ \E k \in DOMAIN q : RemoveAt(q, i)[j] = q[k]
  <2>1. j \in 1 .. Len(q) - 1
    BY <1>4, <1>5, <1>6, LenProperties
  <2>2. j \in DOMAIN q /\ j + 1 \in DOMAIN q
    BY <1>1, <2>1
  <2> QED  BY <1>4, <1>5, <2>1, <2>2
<1> QED  BY <1>4, <1>5, <1>6

-----------------------------------------------------------------------------
(* Types                                                                   *)

\* Every marks belong to a family.
LEMMA FamilyType == \A marks : detectFirmwareFamily(marks) \in Families
  BY DEF detectFirmwareFamily, Families

\* The commands that are queued are commands.
LEMMA CommandType ==
    ASSUME NEW line
    PROVE  /\ line \in {PushOf(c) : c \in Copies} => Command("template", line) \in Issued
           /\ line \in [verb : Clears] => Command("clear", line) \in Issued
           /\ Removal \in Issued
           /\ \A version \in Versions :
                  line \in [verb : Tables] => InDialect("query", version, line) \in Issued
  BY DEF Command, InDialect, Removal, Issued, Versions

LEMMA UserCommandType ==
    ASSUME NEW kind \in {"profile", "user"}, NEW version \in Versions, NEW p \in Profile
    PROVE  /\ UserCommand(kind, version, p) \in Issued
           /\ UserCommand(kind, version, p).kind = kind
           /\ UserCommand(kind, version, p).known = version.known
           /\ UserCommand(kind, version, p).line = addUser(version.family, p)
  BY UserLines DEF UserCommand, InDialect, Issued, Versions

\* A call reads versions of its targets that were there.
LEMMA ViewRead ==
    ASSUME Types, NEW targets \in SUBSET Devices, NEW view \in Views(targets)
    PROVE  /\ DOMAIN view = targets
           /\ \A d \in targets : view[d] \in versions[d] /\ view[d] \in Versions
  BY DEF Views, Types, ServerTypes

\* Of a push's queues: each holds what it held, or one command more.
LEMMA PushedTypes ==
    ASSUME Types, NEW p \in Profile, NEW targets \in SUBSET Devices,
           NEW view \in Views(targets)
    PROVE  Queued(view, p) \in [Devices -> Seq(Issued)]
<1>1. ASSUME NEW d \in targets
      PROVE  UserCommand("profile", view[d], p) \in Issued
  BY ViewRead, UserCommandType
<1> QED  BY <1>1, ViewRead DEF Queued, Types, LineTypes

LEMMA PushTypes ==
    ASSUME Types, NEW targets \in SUBSET Devices, Push(targets), Spend,
           row' \in Profile, links' \subseteq Devices
    PROVE  Types'
<1>1. queue' \in [Devices -> Seq(Issued)]
  BY PushedTypes DEF Push
<1>2. crossed' \subseteq Devices
  BY DEF Push, Types, ServerTypes, GhostTypes
<1>3. row' # None
  BY TerminalUsersAssumption DEF TerminalUsersAssumption
<1> QED  BY <1>1, <1>2, <1>3, TerminalUsersAssumption
         DEF TerminalUsersAssumption, Push, Spend, deviceVars, terminalVars, Types, ServerTypes,
             TerminalTypes, LineTypes, GhostTypes

\* The calls that push the row.
PushesTo(targets) ==
    Update(targets) \/ Create(targets) \/ Inbound(targets) \/ PushProfile(targets)

LEMMA PushCalls ==
    ASSUME Types, NEW targets \in SUBSET Devices, PushesTo(targets)
    PROVE  /\ Spend /\ Push(targets)
           /\ row' \in Profile /\ links' \subseteq links \cup targets
<1>1. CASE Update(targets)
  BY <1>1 DEF Update, Types, ServerTypes, Profile
<1>2. CASE Create(targets)
  BY <1>2 DEF Create, New, Profile, Privileges
<1>3. CASE Inbound(targets)
  BY <1>3, TerminalUsersAssumption DEF TerminalUsersAssumption, Inbound
<1>4. CASE PushProfile(targets)
  BY <1>4 DEF PushProfile, Types, ServerTypes
<1> QED  BY <1>1, <1>2, <1>3, <1>4 DEF PushesTo

LEMMA PushesToTypes ==
    ASSUME Types, NEW targets \in SUBSET Devices, PushesTo(targets)
    PROVE  Types'
<1>1. links' \subseteq Devices
  BY PushCalls DEF Types, ServerTypes
<1> QED  BY <1>1, PushCalls, PushTypes

LEMMA MoveTypes ==
    ASSUME Types, NEW from \in Devices, NEW to \in Devices, Move(from, to)
    PROVE  Types'
<1>1. PICK view \in Views({to}) :
         queue' = [Queued(view, row) EXCEPT ![from] = Append(@, Removal)]
  BY DEF Move
<1>2. row \in Profile
  BY DEF Move, Types, ServerTypes
<1>3. Queued(view, row) \in [Devices -> Seq(Issued)] /\ Removal \in Issued
  BY <1>2, PushedTypes, CommandType
<1>4. queue' \in [Devices -> Seq(Issued)]
  BY <1>1, <1>3
<1> QED  BY <1>4, TerminalUsersAssumption
         DEF TerminalUsersAssumption, Move, Spend, deviceVars, terminalVars, Types, ServerTypes,
             TerminalTypes, LineTypes, GhostTypes

LEMMA DeleteTypes ==
    ASSUME Types, NEW also \in BOOLEAN, Delete(also)
    PROVE  Types'
<1>1. queue' \in [Devices -> Seq(Issued)]
  BY CommandType DEF Delete, Types, LineTypes
<1>2. ServerTypes'
  BY DEF Delete, deviceVars, Empty, Types, ServerTypes
<1> QED  BY <1>1, <1>2, TerminalUsersAssumption
         DEF TerminalUsersAssumption, Delete, Spend, terminalVars, Types, TerminalTypes,
             LineTypes, GhostTypes

\* What pushBiometricsToDevices queues after the user: a line for each template.
TemplateCommands(order) ==
    [i \in DOMAIN order |-> Command("template", pushTemplate(order[i][1], order[i][2]))]

LEMMA TemplateCommandsTypes ==
    ASSUME Types, FingersKept, NEW order \in SetToSeqs(DOMAIN templates)
    PROVE  /\ TemplateCommands(order) \in Seq(Issued)
           /\ \A i \in DOMAIN TemplateCommands(order) :
                  LET c == TemplateCommands(order)[i]
                  IN  c.kind = "template" /\ \E x \in captured : c.line = PushOf(x)
<1>1. IsFiniteSet(Kinds \X Fingers)
  <2>1. Kinds = {"fp"} \cup {"face"} \cup {"palm"} \cup {"photo"}
    BY DEF Kinds
  <2>2. IsFiniteSet(Kinds)
    BY <2>1, FS_Singleton, FS_Union
  <2> QED  BY <2>2, FS_Product, TerminalUsersAssumption DEF TerminalUsersAssumption
<1>2. Cardinality(DOMAIN templates) \in Nat
  BY <1>1, FS_Subset, FS_CardinalityType DEF Types, ServerTypes
<1>3. order \in [1 .. Cardinality(DOMAIN templates) -> DOMAIN templates]
  BY DEF SetToSeqs
<1>4. ASSUME NEW i \in 1 .. Cardinality(DOMAIN templates)
      PROVE  \E x \in captured : pushTemplate(order[i][1], order[i][2]) = PushOf(x)
  <2>1. order[i] \in DOMAIN templates
    BY <1>3
  <2>2. PICK x \in captured : x = <<order[i][1], order[i][2], templates[order[i]]>>
    BY <2>1 DEF FingersKept, AsCaptured
  <2>3. order[i] = <<order[i][1], order[i][2]>>
    BY <2>1 DEF Types, ServerTypes
  <2>4. pushTemplate(order[i][1], order[i][2]) = PushOf(x)
    BY <2>2, <2>3 DEF pushTemplate, PushOf
  <2> QED  BY <2>4
<1>5. ASSUME NEW i \in 1 .. Cardinality(DOMAIN templates)
      PROVE  TemplateCommands(order)[i] \in Issued
  <2>1. pushTemplate(order[i][1], order[i][2]) \in {PushOf(c) : c \in Copies}
    BY <1>4 DEF Types, TerminalTypes
  <2>2. TemplateCommands(order)[i] =
           Command("template", pushTemplate(order[i][1], order[i][2]))
    BY <1>3 DEF TemplateCommands
  <2> QED  BY <2>1, <2>2, CommandType
<1>6. DOMAIN TemplateCommands(order) = 1 .. Cardinality(DOMAIN templates)
  BY <1>3 DEF TemplateCommands
<1>7. TemplateCommands(order) \in [1 .. Cardinality(DOMAIN templates) -> Issued]
  BY <1>3, <1>5, <1>6 DEF TemplateCommands
<1>8. TemplateCommands(order) \in Seq(Issued)
  BY <1>2, <1>7, SeqDef
<1>9. ASSUME NEW i \in DOMAIN TemplateCommands(order)
      PROVE  /\ TemplateCommands(order)[i].kind = "template"
             /\ \E x \in captured : TemplateCommands(order)[i].line = PushOf(x)
  BY <1>3, <1>4, <1>6 DEF TemplateCommands, Command
<1> QED  BY <1>8, <1>9

LEMMA PushBiometricsTypes ==
    ASSUME Types, FingersKept, NEW d \in Devices, PushBiometrics(d)
    PROVE  Types'
<1>1. PICK version \in versions[d], order \in SetToSeqs(DOMAIN templates) :
         queue' = [queue EXCEPT ![d] =
            @ \o <<UserCommand("user", version, BareUser)>> \o TemplateCommands(order)]
  BY DEF PushBiometrics, TemplateCommands
<1>2. BareUser \in Profile /\ version \in Versions
  BY DEF BareUser, PushBiometrics, Types, ServerTypes, Profile, Privileges
<1>3. UserCommand("user", version, BareUser) \in Issued
  BY <1>2, UserCommandType
<1>4. queue[d] \o <<UserCommand("user", version, BareUser)>>
        \o TemplateCommands(order) \in Seq(Issued)
  BY <1>3, TemplateCommandsTypes, ConcatProperties DEF Types, LineTypes
<1>5. queue' \in [Devices -> Seq(Issued)]
  BY <1>1, <1>4 DEF Types, LineTypes
<1> QED  BY <1>5, TerminalUsersAssumption
         DEF TerminalUsersAssumption, PushBiometrics, Spend, deviceVars, terminalVars, Types,
             ServerTypes, TerminalTypes, LineTypes, GhostTypes

LEMMA QueryTypes ==
    ASSUME Types, NEW d \in Devices, QueryUsers(d)
    PROVE  Types'
<1>1. PICK version \in versions[d] :
         queue' = [queue EXCEPT ![d] =
             Append(@, InDialect("query", version, queryUsers(version.family)))]
  BY DEF QueryUsers
<1>2. version \in Versions
  BY DEF Types, ServerTypes
<1>3. InDialect("query", version, queryUsers(version.family)) \in Issued
  BY <1>2, CommandType DEF queryUsers, UserTable, Tables
<1>4. queue' \in [Devices -> Seq(Issued)]
  BY <1>1, <1>3 DEF Types, LineTypes
<1> QED  BY <1>4, TerminalUsersAssumption
         DEF TerminalUsersAssumption, QueryUsers, Spend, serverVars, deviceVars, terminalVars,
             Types, ServerTypes, TerminalTypes, LineTypes, GhostTypes

LEMMA ClearTypes ==
    ASSUME Types, NEW d \in Devices, NEW what \in Clears, Clear(d, what)
    PROVE  Types'
<1>1. Command("clear", [verb |-> what]) \in Issued
  BY CommandType
<1> QED  BY <1>1, TerminalUsersAssumption
         DEF TerminalUsersAssumption, Clear, Spend, serverVars, deviceVars, terminalVars, Types,
             ServerTypes, TerminalTypes, LineTypes, GhostTypes

LEMMA LoseTypes ==
    ASSUME Types, NEW d \in Devices, NEW i \in DOMAIN queue[d], Lose(d, i)
    PROVE  Types'
<1>1. queue' \in [Devices -> Seq(Issued)]
  BY Taken DEF Lose, Types, LineTypes
<1> QED  BY <1>1 DEF Lose, serverVars, deviceVars, terminalVars, Types, ServerTypes,
                     TerminalTypes, LineTypes, GhostTypes

LEMMA TellTypes ==
    ASSUME Types, NEW d \in Devices, Handshake(d) \/ Info(d)
    PROVE  Types'
<1>1. PICK fam \in Families, knows \in BOOLEAN : Tell(d, fam, knows)
  <2>1. CASE Handshake(d)
    BY <2>1, FamilyType DEF Handshake
  <2>2. CASE Info(d)
    BY <2>2, FamilyType DEF Info, Types, ServerTypes
  <2> QED  BY <2>1, <2>2
<1> DEFINE v == [family |-> fam, known |-> knows]
<1>2. v \in Versions
  BY DEF Versions
<1>5. versions' = [versions EXCEPT ![d] = @ \cup {v}]
  BY <1>1 DEF Tell
<1> HIDE DEF v
<1>3. versions' \in [Devices -> SUBSET Versions]
  BY <1>2, <1>5 DEF Types, ServerTypes
<1>4. spent' \in 0 .. Budget
  <2>1. Spend \/ spent' = spent
    BY Zenon DEF Handshake, Info
  <2> QED  BY <2>1, TerminalUsersAssumption DEF TerminalUsersAssumption, Spend, Types, GhostTypes
<1> QED  BY <1>1, <1>3, <1>4
         DEF Tell, terminalVars, Types, ServerTypes, TerminalTypes, LineTypes, GhostTypes

\* A command is one of six kinds.
LEMMA CommandKinds ==
    ASSUME NEW c \in Issued
    PROVE  /\ c.known \in BOOLEAN /\ c.kind \in {"profile", "user", "query", "template", "clear", "remove"}
           /\ c.kind \in {"profile", "user"} => c.line \in UserFields(Tables)
           /\ c.kind = "query" => c.line \in [verb : Tables]
           /\ c.kind = "template" => \E x \in Copies : c.line = PushOf(x)
           /\ c.kind = "clear" => c.line \in [verb : Clears]
  BY DEF Issued

\* What a terminal writes of itself.
LEMMA AllOfType ==
    ASSUME Types, FingersKept, NEW d \in Devices, user[d] # None
    PROVE  /\ AllOf(d) \in SUBSET ReportRows
           /\ \A line \in AllOf(d) :
                  \/ line = UserRow(user[d]) /\ IsUser(line)
                  \/ ~IsUser(line) /\ \E x \in captured : line = RowOf(x)
<1>1. UserRow(user[d]) \in UserFields({"USER"}) /\ IsUser(UserRow(user[d]))
  <2>1. user[d] \in OnTerminal
    BY DEF Types, TerminalTypes
  <2> QED  BY <2>1, UserRowRead DEF IsUser, UserRow
<1>2. ASSUME NEW s \in DOMAIN bios[d]
      PROVE  \E x \in captured : BioRow(s[1], s[2], bios[d][s]) = RowOf(x)
  <2>1. PICK x \in captured : x = <<s[1], s[2], bios[d][s]>>
    BY DEF FingersKept, AsCaptured
  <2> QED  BY <2>1 DEF RowOf
<1>3. \A x \in captured : ~IsUser(RowOf(x)) /\ RowOf(x) \in ReportRows
  BY BioRowRead DEF Types, TerminalTypes, ReportRows
<1> QED  BY <1>1, <1>2, <1>3 DEF AllOf, ReportRows

LEMMA SendTypes ==
    ASSUME Types, NEW d \in Devices, NEW lines \in SUBSET ReportRows, Send(d, lines)
    PROVE  reports' \in [Devices -> Seq(SUBSET ReportRows)]
  BY DEF Send, Types, LineTypes

\* What is held after a template was stored over a slot.
LEMMA Overlay ==
    ASSUME NEW held, NEW c \in Copies, DOMAIN held \subseteq Kinds \X Fingers,
           NEW t, t = [valid |-> c[3].valid, template |-> c[3].template]
    PROVE  /\ DOMAIN Held(c[1], c[2], t, held) \subseteq Kinds \X Fingers
           /\ \A S : AsCaptured(held) /\ captured \subseteq S /\ c \in S =>
                 \A s \in DOMAIN Held(c[1], c[2], t, held) :
                     \E x \in S : x = <<s[1], s[2], Held(c[1], c[2], t, held)[s]>>
<1> DEFINE slot == <<c[1], c[2]>>
           next == Held(c[1], c[2], t, held)
<1>1. DOMAIN next = {slot} \cup DOMAIN held
  BY DEF Held, Overlaid
<1>2. /\ next[slot] = t
      /\ \A s \in DOMAIN held : s # slot => next[s] = held[s]
  BY DEF Held, Overlaid
<1>3. slot \in Kinds \X Fingers /\ c = <<slot[1], slot[2], t>>
  BY CopyParts
<1> HIDE DEF next, slot
<1>4. DOMAIN next \subseteq Kinds \X Fingers
  BY <1>1, <1>3
<1>5. ASSUME NEW S, AsCaptured(held), captured \subseteq S, c \in S,
             NEW s \in DOMAIN next
      PROVE  \E x \in S : x = <<s[1], s[2], next[s]>>
  <2>1. CASE s = slot
    BY <1>2, <1>3, <1>5, <2>1
  <2>2. CASE s # slot
    BY <1>1, <1>2, <1>5, <2>2 DEF AsCaptured
  <2> QED  BY <2>1, <2>2
<1> QED  BY <1>4, <1>5 DEF next

\* A terminal that stores a template line.
LEMMA TemplateTakenIn ==
    ASSUME NEW d \in Devices, NEW c \in Copies, WithTemplate(d, PushOf(c))
    PROVE  bios' = [bios EXCEPT ![d] =
               Held(c[1], c[2], [valid |-> c[3].valid, template |-> c[3].template], @)]
<1>1. TakenIn(PushOf(c)) = Contents(c)
  BY PushRead
<1> QED  BY <1>1 DEF WithTemplate, Contents

\* A terminal that forgets the member holds nothing of it.
LEMMA ForgetTypes ==
    ASSUME Types, NEW d \in Devices, Forget(d), captured' \subseteq Copies
    PROVE  TerminalTypes'
<1>1. DOMAIN bios'[d] = {}
  BY DEF Forget, Empty, Types, TerminalTypes
<1> QED  BY <1>1 DEF Forget, Types, TerminalTypes

LEMMA ExecuteTypes ==
    ASSUME Types, FingersKept, NEW d \in Devices, NEW i \in DOMAIN queue[d], Execute(d, i)
    PROVE  Types'
<1> DEFINE c == queue[d][i]
<1>1. c \in Issued /\ queue' \in [Devices -> Seq(Issued)]
  BY Taken, ElementOfSeq, LenProperties DEF Execute, Types, LineTypes
<1>2. /\ ServerTypes' /\ captured' \subseteq Copies /\ spent' \in 0 .. Budget
      /\ crossed' \subseteq Devices
  BY DEF Execute, serverVars, deviceVars, Types, ServerTypes, TerminalTypes, GhostTypes
<1> HIDE DEF c
<1>3. CASE StoreUser(d, c)
  <2>1. parseUserRow(c.line) \in OnTerminal
    BY <1>1, <1>3, CommandKinds, UserRead DEF StoreUser
  <2>2. user' \in [Devices -> OnTerminal \cup {None}]
    BY <1>3, <2>1 DEF StoreUser, WithUser, parseUserRow, Types, TerminalTypes
  <2> QED  BY <1>1, <1>2, <1>3, <2>2
           DEF StoreUser, Types, TerminalTypes, LineTypes, GhostTypes
<1>4. CASE Refuse(d, c)
  <2>1. refused' \subseteq [d : Devices, known : BOOLEAN]
    BY <1>1, <1>4, CommandKinds DEF Refuse, Types, GhostTypes
  <2> QED  BY <1>1, <1>2, <1>4, <2>1
           DEF Refuse, Types, TerminalTypes, LineTypes, GhostTypes
<1>5. CASE Answer(d, c)
  <2>1. reports' \in [Devices -> Seq(SUBSET ReportRows)]
    BY <1>5, AllOfType, SendTypes DEF Answer, Types, LineTypes
  <2> QED  BY <1>1, <1>2, <1>5, <2>1
           DEF Answer, Types, TerminalTypes, LineTypes, GhostTypes
<1>6. CASE StoreTemplate(d, c)
  <2>1. DOMAIN bios' = Devices /\ \A e \in Devices : DOMAIN bios'[e] \subseteq Kinds \X Fingers
    <3>1. CASE user[d] = None
      BY <1>6, <3>1 DEF StoreTemplate, Types, TerminalTypes
    <3>2. CASE user[d] # None
      <4>1. PICK x \in Copies : c.line = PushOf(x)
        BY <1>1, <1>6, CommandKinds DEF StoreTemplate
      <4>2. WithTemplate(d, PushOf(x))
        BY <1>6, <3>2, <4>1 DEF StoreTemplate
      <4> DEFINE t == [valid |-> x[3].valid, template |-> x[3].template]
      <4>3. bios' = [bios EXCEPT ![d] = Held(x[1], x[2], t, @)]
        BY <4>2, TemplateTakenIn
      <4>4. DOMAIN Held(x[1], x[2], t, bios[d]) \subseteq Kinds \X Fingers
        BY Overlay DEF Types, TerminalTypes
      <4> HIDE DEF t
      <4> QED  BY <4>3, <4>4 DEF Types, TerminalTypes
    <3> QED  BY <3>1, <3>2
  <2> QED  BY <1>1, <1>2, <1>6, <2>1
           DEF StoreTemplate, Types, TerminalTypes, LineTypes, GhostTypes
<1>7. CASE Obey(d, c)
  <2>1. user' \in [Devices -> OnTerminal \cup {None}]
    BY <1>7 DEF Obey, Types, TerminalTypes, OnTerminal, Privileges
  <2>2. DOMAIN bios' = Devices /\ \A e \in Devices : DOMAIN bios'[e] \subseteq Kinds \X Fingers
    BY <1>7 DEF Obey, Types, TerminalTypes
  <2> QED  BY <1>1, <1>2, <1>7, <2>1, <2>2
           DEF Obey, Types, TerminalTypes, LineTypes, GhostTypes
<1>8. CASE Unenrol(d, c)
  <2>1. TerminalTypes'
    BY <1>2, <1>8, ForgetTypes DEF Unenrol
  <2> QED  BY <1>1, <1>2, <1>8, <2>1
           DEF Unenrol, Forget, Types, TerminalTypes, LineTypes, GhostTypes
<1> QED  BY <1>3, <1>4, <1>5, <1>6, <1>7, <1>8 DEF Execute, c

\* What an enrolment yields is a copy.
LEMMA CaptureIsCopy ==
    ASSUME NEW kind \in Kinds, NEW fid \in Fingers, NEW capture \in Captures, NEW t,
           t = [capture EXCEPT !.valid = @ \/ kind = "photo"], kind # "fp" => fid = 0
    PROVE  /\ <<kind, fid, t>> \in Copies
           /\ t = [valid |-> t.valid, template |-> t.template]
<1>1. DOMAIN capture = {"valid", "template"} /\ capture.valid \in BOOLEAN
  BY TerminalUsersAssumption DEF TerminalUsersAssumption
<1>2. /\ t.template = capture.template
      /\ t.valid = (capture.valid \/ kind = "photo")
      /\ DOMAIN t = {"valid", "template"}
  BY <1>1
<1>3. t \in Templates
  BY <1>1, <1>2 DEF Templates
<1> QED  BY <1>2, <1>3 DEF Copies, Templates

LEMMA ChangeAtTypes ==
    ASSUME Types, NEW d \in Devices, ChangeAt(d)
    PROVE  Types'
<1>1. spent' \in 0 .. Budget /\ crossed' \subseteq Devices
  BY TerminalUsersAssumption
  DEF TerminalUsersAssumption, ChangeAt, Spend, Types, GhostTypes
<1>2. CASE Edit(d)
  <2>1. user' \in [Devices -> OnTerminal \cup {None}] /\ user'[d] \in OnTerminal
    BY <1>2 DEF ChangeAt, Edit, Types, TerminalTypes, OnTerminal
  <2>2. {UserRow(user'[d])} \in SUBSET ReportRows
    BY <2>1, UserRowRead DEF ReportRows
  <2>3. reports' \in [Devices -> Seq(SUBSET ReportRows)]
    BY <1>2, <2>2, SendTypes DEF Edit
  <2> QED  BY <1>1, <1>2, <2>1, <2>3
           DEF ChangeAt, Edit, serverVars, deviceVars, Types, ServerTypes, TerminalTypes, LineTypes,
               GhostTypes
<1>3. CASE Enrol(d)
  <2>1. PICK kind \in Kinds, fid \in Fingers, capture \in Captures :
           LET t == [capture EXCEPT !.valid = @ \/ kind = "photo"]
           IN  /\ kind # "fp" => fid = 0
               /\ bios' = [bios EXCEPT ![d] = Held(kind, fid, t, @)]
               /\ captured' = captured \cup {<<kind, fid, t>>}
               /\ Send(d, {BioRow(kind, fid, t)})
    BY <1>3 DEF Enrol
  <2> DEFINE t == [capture EXCEPT !.valid = @ \/ kind = "photo"]
  <2>2. <<kind, fid, t>> \in Copies /\ t = [valid |-> t.valid, template |-> t.template]
    BY <2>1, CaptureIsCopy
  <2> HIDE DEF t
  <2>3. {BioRow(kind, fid, t)} \in SUBSET ReportRows
    BY <2>2 DEF ReportRows, RowOf
  <2>4. reports' \in [Devices -> Seq(SUBSET ReportRows)]
    BY <2>1, <2>3, SendTypes DEF t
  <2>5. DOMAIN Held(kind, fid, t, bios[d]) \subseteq Kinds \X Fingers
    BY <2>2, Overlay DEF Types, TerminalTypes
  <2>6. DOMAIN bios' = Devices /\ \A e \in Devices : DOMAIN bios'[e] \subseteq Kinds \X Fingers
    BY <2>1, <2>5 DEF t, Types, TerminalTypes
  <2>7. captured' \subseteq Copies
    BY <2>1, <2>2 DEF t, Types, TerminalTypes
  <2>8. user' = user
    BY <1>3 DEF Enrol
  <2> QED  BY <1>1, <2>4, <2>6, <2>7, <2>8
           DEF ChangeAt, serverVars, deviceVars, Types, ServerTypes, TerminalTypes, LineTypes,
               GhostTypes
<1>4. CASE Enter(d)
  <2>1. PICK u \in New : user' = [user EXCEPT ![d] = u] /\ Send(d, {UserRow(u)})
    BY <1>4 DEF Enter
  <2>2. u \in OnTerminal
    BY DEF New, OnTerminal, Privileges
  <2>3. {UserRow(u)} \in SUBSET ReportRows
    BY <2>2, UserRowRead DEF ReportRows
  <2>4. reports' \in [Devices -> Seq(SUBSET ReportRows)]
    BY <2>1, <2>3, SendTypes
  <2>5. user' \in [Devices -> OnTerminal \cup {None}]
    BY <2>1, <2>2 DEF Types, TerminalTypes
  <2> QED  BY <1>1, <1>4, <2>4, <2>5
           DEF ChangeAt, Enter, serverVars, deviceVars, Types, ServerTypes, TerminalTypes,
               LineTypes, GhostTypes
<1> QED  BY <1>2, <1>3, <1>4 DEF ChangeAt

LEMMA EraseAtTypes ==
    ASSUME Types, NEW d \in Devices, EraseAt(d)
    PROVE  Types'
<1>1. TerminalTypes'
  BY ForgetTypes DEF EraseAt, Types, TerminalTypes
<1> QED  BY <1>1, TerminalUsersAssumption
         DEF TerminalUsersAssumption, EraseAt, Forget, Spend, serverVars, deviceVars, Types,
             ServerTypes, LineTypes, GhostTypes

\* What the server stores of a report is of the slots and as it was captured.
LEMMA StoredRows ==
    ASSUME NEW S \in SUBSET Copies, NEW lines,
           \A line \in lines : ~IsUser(line) => \E x \in S : line = RowOf(x)
    PROVE  /\ DOMAIN Stored(lines) \subseteq Kinds \X Fingers
           /\ \A s \in DOMAIN Stored(lines) :
                  \E x \in S : x = <<s[1], s[2], Stored(lines)[s]>>
<1> DEFINE recs == {parseBioRecord(line) : line \in {x \in lines : ~IsUser(x)}}
           Of(s) == CHOOSE r \in recs : <<r.kind, r.fid>> = s
<1>1. \A r \in recs : \E x \in S : r = Contents(x)
  BY BioRowRead
<1>2. Stored(lines) = [s \in {<<r.kind, r.fid>> : r \in recs} |->
                           [valid |-> Of(s).valid, template |-> Of(s).template]]
  BY DEF Stored
<1> HIDE DEF recs
<1>3. ASSUME NEW s \in DOMAIN Stored(lines)
      PROVE  s \in Kinds \X Fingers /\ \E x \in S : x = <<s[1], s[2], Stored(lines)[s]>>
  <2>1. Of(s) \in recs /\ <<Of(s).kind, Of(s).fid>> = s
    BY <1>2
  <2>2. Stored(lines)[s] = [valid |-> Of(s).valid, template |-> Of(s).template]
    BY <1>2
  <2> HIDE DEF Of
  <2>3. PICK x \in S : Of(s) = Contents(x)
    BY <1>1, <2>1
  <2>4. /\ <<x[1], x[2]>> = s
        /\ Stored(lines)[s] = [valid |-> x[3].valid, template |-> x[3].template]
    BY <2>1, <2>2, <2>3 DEF Contents
  <2> QED  BY <2>4, CopyParts
<1> QED  BY <1>3

\* What Ingest does, with the report it works on.
LEMMA IngestTypes ==
    ASSUME Types, Captured, NEW d \in Devices, NEW i \in DOMAIN reports[d], Ingest(d, i)
    PROVE  Types'
<1> DEFINE lines == reports[d][i]
           users == {parseUserRow(line) : line \in {x \in lines : IsUser(x)}}
<1>1. lines \in SUBSET ReportRows
  BY ElementOfSeq, LenProperties DEF Types, LineTypes
<1>2. reports' \in [Devices -> Seq(SUBSET ReportRows)]
  BY Taken DEF Ingest, Types, LineTypes
<1>3. users \subseteq OnTerminal
  BY <1>1, UserRead, BioRowRead DEF ReportRows
<1>4. row' \in Profile \cup {None} /\ (row' = None => row = None)
  <2>1. CASE row' = row
    BY <2>1 DEF Types, ServerTypes
  <2>2. CASE \E u \in users : row' = Upserted(u)
    <3>1. PICK u \in users : row' = Upserted(u)
      BY <2>2
    <3>2. u \in Profile
      BY <1>3, OnTerminalIsProfile
    <3>3. row \in Profile => row' \in Profile
      BY <3>1, <3>2, TerminalUsersAssumption
      DEF TerminalUsersAssumption, Upserted, Profile
    <3> QED  BY <3>1, <3>2, <3>3, TerminalUsersAssumption
             DEF TerminalUsersAssumption, Upserted, Types, ServerTypes
  <2> QED  BY <2>1, <2>2 DEF Ingest
<1>5. DOMAIN templates' \subseteq Kinds \X Fingers
  <2>1. captured \in SUBSET Copies
        /\ \A line \in lines : ~IsUser(line) => \E x \in captured : line = RowOf(x)
    BY DEF Captured, ReportedIsCaptured, Types, TerminalTypes
  <2> HIDE DEF lines
  <2>2. DOMAIN Stored(lines) \subseteq Kinds \X Fingers
    BY <2>1, StoredRows
  <2>3. DOMAIN Overlaid(Stored(lines), templates) \subseteq Kinds \X Fingers
    BY <2>2 DEF Overlaid, Types, ServerTypes
  <2> QED  BY <2>3 DEF Ingest, lines, Types, ServerTypes
<1>6. crossed' \subseteq Devices
  BY DEF Ingest, Types, ServerTypes, GhostTypes
<1> QED  BY <1>2, <1>4, <1>5, <1>6
         DEF Ingest, deviceVars, terminalVars, Types, ServerTypes, TerminalTypes, LineTypes,
             GhostTypes

\* The types hold at first.
LEMMA InitTypes == Init => Types
<1> SUFFICES ASSUME Init PROVE Types
  OBVIOUS
<1>1. ServerTypes
  <2>1. row \in Profile /\ row # None
    BY TerminalUsersAssumption
    DEF TerminalUsersAssumption, Init, New, Profile, Privileges
  <2> QED  BY <2>1 DEF Init, ServerTypes, Families, Versions, Empty
<1>2. TerminalTypes
  BY DEF Init, TerminalTypes, Empty
<1>3. LineTypes /\ GhostTypes
  BY TerminalUsersAssumption DEF TerminalUsersAssumption, Init, LineTypes, GhostTypes
<1> QED  BY <1>1, <1>2, <1>3 DEF Types

\* Every step keeps them.
LEMMA TypesKept == Types /\ Captured /\ [Next]_vars => Types'
<1> SUFFICES ASSUME Types, Captured, [Next]_vars PROVE Types'
  OBVIOUS
<1>1. ASSUME NEW targets \in SUBSET Devices, PushesTo(targets) PROVE Types'
  BY <1>1, PushesToTypes
<1>2. ASSUME NEW also \in BOOLEAN, Delete(also) PROVE Types'
  BY <1>2, DeleteTypes
<1>3. ASSUME NEW d \in Devices, Handshake(d) \/ Info(d) PROVE Types'
  BY <1>3, TellTypes
<1>4. ASSUME NEW d \in Devices, NEW to \in Devices, Move(d, to) PROVE Types'
  BY <1>4, MoveTypes
<1>5. ASSUME NEW d \in Devices, PushBiometrics(d) PROVE Types'
  BY <1>5, PushBiometricsTypes DEF Captured
<1>6. ASSUME NEW d \in Devices, QueryUsers(d) PROVE Types'
  BY <1>6, QueryTypes
<1>7. ASSUME NEW d \in Devices, NEW what \in Clears, Clear(d, what) PROVE Types'
  BY <1>7, ClearTypes
<1>8. ASSUME NEW d \in Devices, NEW i \in DOMAIN queue[d], Execute(d, i) PROVE Types'
  BY <1>8, ExecuteTypes DEF Captured
<1>9. ASSUME NEW d \in Devices, NEW i \in DOMAIN queue[d], Lose(d, i) PROVE Types'
  BY <1>9, LoseTypes
<1>10. ASSUME NEW d \in Devices, ChangeAt(d) \/ EraseAt(d) PROVE Types'
  BY <1>10, ChangeAtTypes, EraseAtTypes
<1>11. ASSUME NEW d \in Devices, NEW i \in DOMAIN reports[d], Ingest(d, i) PROVE Types'
  BY <1>11, IngestTypes
<1>12. CASE UNCHANGED vars
  BY <1>12 DEF vars, serverVars, deviceVars, terminalVars, Types, ServerTypes, TerminalTypes,
               LineTypes, GhostTypes
<1> QED  BY <1>1, <1>2, <1>3, <1>4, <1>5, <1>6, <1>7, <1>8, <1>9, <1>10, <1>11, <1>12
         DEF Next, PushesTo

-----------------------------------------------------------------------------
(* Queues                                                                  *)

\* A command that is queued in this step: a line of a dialect some call read, a template
\* that was captured, a clearing or a removal.
Fresh(d, c) ==
    \/ /\ c.kind \in {"profile", "user", "query"}
       /\ \E version \in versions[d] :
              c.known = version.known /\ c.line.verb = UserTable(version.family)
    \/ c.kind = "template" /\ \E x \in captured : c.line = PushOf(x)
    \/ c.kind \in {"clear", "remove"}
Holds(q, c) == \E i \in DOMAIN q : q[i] = c

\* An entry of a queue that was appended to was in it or is the new one.
LEMMA Appended ==
    ASSUME NEW S, NEW q \in Seq(S), NEW c, NEW e, Holds(Append(q, c), e)
    PROVE  Holds(q, e) \/ e = c
  BY DEF Holds

\* An entry of what is left of a queue was in the queue.
LEMMA LeftHolds ==
    ASSUME NEW S, NEW q \in Seq(S), NEW i \in DOMAIN q, NEW e, Holds(RemoveAt(q, i), e)
    PROVE  Holds(q, e)
  BY Taken DEF Holds

\* An entry of two queues, one after the other, is of the one or of the other.
LEMMA BothHold ==
    ASSUME NEW S, NEW q \in Seq(S), NEW r \in Seq(S), NEW e, Holds(q \o r, e)
    PROVE  Holds(q, e) \/ Holds(r, e)
<1>1. PICK i \in DOMAIN (q \o r) : (q \o r)[i] = e
  BY DEF Holds
<1>2. /\ i \in 1 .. Len(q) + Len(r)
      /\ e = IF i <= Len(q) THEN q[i] ELSE r[i - Len(q)]
  BY <1>1, ConcatProperties, LenProperties
<1>3. CASE i <= Len(q)
  BY <1>2, <1>3, LenProperties DEF Holds
<1>4. CASE i > Len(q)
  <2>1. i - Len(q) \in DOMAIN r /\ e = r[i - Len(q)]
    BY <1>2, <1>4, LenProperties
  <2> QED  BY <2>1 DEF Holds
<1> QED  BY <1>2, <1>3, <1>4, LenProperties

\* A user line for what a call read is fresh.
LEMMA FreshUser ==
    ASSUME Types, NEW d \in Devices, NEW version \in versions[d],
           NEW kind \in {"profile", "user"}, NEW p \in Profile
    PROVE  UserCommand(kind, version, p) \in Issued /\ Fresh(d, UserCommand(kind, version, p))
<1>1. version \in Versions
  BY DEF Types, ServerTypes
<1>2. addUser(version.family, p).verb = UserTable(version.family)
  BY UserLines
<1> QED  BY <1>1, <1>2, UserCommandType DEF Fresh

\* A profile that is pushed is at the end of its queue.
LEMMA PushedQueue ==
    ASSUME Types, NEW p \in Profile, NEW targets \in SUBSET Devices,
           NEW view \in Views(targets),
           NEW d \in Devices, NEW c, Holds(Queued(view, p)[d], c)
    PROVE  Holds(queue[d], c) \/ Fresh(d, c)
<1>1. CASE d \in targets
  <2>1. view[d] \in versions[d] /\ Queued(view, p)[d] =
            Append(queue[d], UserCommand("profile", view[d], p))
    BY <1>1, ViewRead DEF Queued
  <2>2. Fresh(d, UserCommand("profile", view[d], p))
    BY <2>1, FreshUser
  <2> QED  BY <2>1, <2>2, Appended DEF Types, LineTypes
<1>2. CASE d \notin targets
  BY <1>2, ViewRead DEF Queued
<1> QED  BY <1>1, <1>2

LEMMA PushBiometricsQueue ==
    ASSUME Types, Captured, NEW e \in Devices, PushBiometrics(e),
           NEW d \in Devices, NEW c, Holds(queue'[d], c)
    PROVE  Holds(queue[d], c) \/ Fresh(d, c)
<1>1. PICK version \in versions[e], order \in SetToSeqs(DOMAIN templates) :
         queue' = [queue EXCEPT ![e] =
            @ \o <<UserCommand("user", version, BareUser)>> \o TemplateCommands(order)]
  BY DEF PushBiometrics, TemplateCommands
<1> DEFINE u == UserCommand("user", version, BareUser)
           ts == TemplateCommands(order)
<1>2. BareUser \in Profile
  BY DEF BareUser, PushBiometrics, Types, ServerTypes, Profile, Privileges
<1>3. u \in Issued /\ Fresh(e, u)
  BY <1>2, FreshUser
<1>4. ts \in Seq(Issued) /\ \A x : Holds(ts, x) => Fresh(e, x)
  BY TemplateCommandsTypes DEF Captured, Holds, Fresh
<1> HIDE DEF u, ts
<1>5. \A x : Holds(<<u>>, x) => x = u
  BY DEF Holds
<1>6. queue[e] \o <<u>> \in Seq(Issued) /\ <<u>> \in Seq(Issued) /\ queue[e] \in Seq(Issued)
  BY <1>3, ConcatProperties DEF Types, LineTypes
<1>7. CASE d = e
  <2>1. queue'[d] = queue[e] \o <<u>> \o ts
    BY <1>1, <1>7 DEF u, ts, Types, LineTypes
  <2>2. Holds(queue[e] \o <<u>>, c) \/ Holds(ts, c)
    BY <1>4, <1>6, <2>1, BothHold
  <2>3. Holds(queue[e], c) \/ Holds(<<u>>, c) \/ Holds(ts, c)
    BY <1>6, <2>2, BothHold
  <2> QED  BY <1>3, <1>4, <1>5, <1>7, <2>3
<1>8. CASE d # e
  BY <1>1, <1>8 DEF Types, LineTypes
<1> QED  BY <1>7, <1>8

\* Whatever a step leaves in a queue was in it or is fresh.
LEMMA QueuesGrow ==
    ASSUME Types, Captured, Next, NEW d \in Devices, NEW c, Holds(queue'[d], c)
    PROVE  Holds(queue[d], c) \/ Fresh(d, c)
<1>1. ASSUME NEW targets \in SUBSET Devices, PushesTo(targets)
      PROVE  Holds(queue[d], c) \/ Fresh(d, c)
  <2>1. row' \in Profile /\ \E view \in Views(targets) : queue' = Queued(view, row')
    BY <1>1, PushCalls DEF Push
  <2> QED  BY <2>1, PushedQueue
<1>2. ASSUME NEW e \in Devices, NEW to \in Devices, Move(e, to)
      PROVE  Holds(queue[d], c) \/ Fresh(d, c)
  <2>1. row \in Profile
    BY <1>2 DEF Move, Types, ServerTypes
  <2>2. PICK view \in Views({to}) :
           queue' = [Queued(view, row) EXCEPT ![e] = Append(@, Removal)]
    BY <1>2 DEF Move
  <2>3. Queued(view, row) \in [Devices -> Seq(Issued)]
    BY <2>1, PushedTypes
  <2>4. Holds(Queued(view, row)[d], c) \/ c = Removal
    BY <2>2, <2>3, Appended
  <2> QED  BY <2>1, <2>4, PushedQueue DEF Fresh, Removal, Command
<1>3. ASSUME NEW also \in BOOLEAN, Delete(also)
      PROVE  Holds(queue[d], c) \/ Fresh(d, c)
  <2>1. Holds(queue[d], c) \/ c = Removal
    BY <1>3, Appended DEF Delete, Types, LineTypes
  <2> QED  BY <2>1 DEF Fresh, Removal, Command
<1>4. ASSUME NEW e \in Devices, PushBiometrics(e)
      PROVE  Holds(queue[d], c) \/ Fresh(d, c)
  BY <1>4, PushBiometricsQueue
<1>5. ASSUME NEW e \in Devices, QueryUsers(e)
      PROVE  Holds(queue[d], c) \/ Fresh(d, c)
  <2>1. PICK version \in versions[e] :
           queue' = [queue EXCEPT ![e] =
               Append(@, InDialect("query", version, queryUsers(version.family)))]
    BY <1>5 DEF QueryUsers
  <2>2. Fresh(e, InDialect("query", version, queryUsers(version.family)))
    BY DEF Fresh, InDialect, queryUsers
  <2> QED  BY <2>1, <2>2, Appended DEF Types, LineTypes
<1>6. ASSUME NEW e \in Devices, NEW what \in Clears, Clear(e, what)
      PROVE  Holds(queue[d], c) \/ Fresh(d, c)
  <2>1. Fresh(e, Command("clear", [verb |-> what]))
    BY DEF Fresh, Command
  <2> QED  BY <1>6, <2>1, Appended DEF Clear, Types, LineTypes
<1>7. ASSUME NEW e \in Devices, NEW i \in DOMAIN queue[e], Execute(e, i) \/ Lose(e, i)
      PROVE  Holds(queue[d], c) \/ Fresh(d, c)
  <2>1. queue' = [queue EXCEPT ![e] = RemoveAt(@, i)]
    BY <1>7 DEF Execute, Lose
  <2>2. CASE d = e
    <3>1. queue'[d] = RemoveAt(queue[e], i) /\ queue[e] \in Seq(Issued)
      BY <2>1, <2>2 DEF Types, LineTypes
    <3> QED  BY <2>2, <3>1, LeftHolds
  <2>3. CASE d # e
    BY <2>1, <2>3 DEF Types, LineTypes
  <2> QED  BY <2>2, <2>3
<1>8. CASE UNCHANGED queue
  BY <1>8
<1> QED  BY <1>1, <1>2, <1>3, <1>4, <1>5, <1>6, <1>7, <1>8
         DEF Next, PushesTo, Handshake, Info, Tell, ChangeAt, EraseAt, Ingest

-----------------------------------------------------------------------------
(* Dialects                                                                *)

\* No INFO has marks of two firmwares that name their tables differently, and a terminal
\* whose INFO has no mark at all has none of the newer firmwares in its handshake either.
\* The code cannot do without: it looks for the marks in a fixed order and falls back on
\* the handshake.
NewerMarks == {"zam170", "zem900", "speedface", "iface"}
OlderMarks == {"zem8", "biotime", "iclock"}
OtherMarks == {"silkbio", "green"}
MarksTell ==
    \A d \in Devices :
        /\ ~(Mentions(FirmwareMarks[d], OlderMarks) /\ Mentions(FirmwareMarks[d], {"iface"}))
        /\ ~Mentions(FirmwareMarks[d], NewerMarks \cup OlderMarks \cup OtherMarks) =>
               ~Mentions(TypeMarks[d], NewerMarks)

\* detectFirmwareFamily finds what the marks tell.
LEMMA Detected ==
    ASSUME MarksTell, NEW d \in Devices
    PROVE  LET fam == detectFirmwareFamily(FirmwareMarks[d])
           IN  /\ Understands(d, UserTable(fam))
               /\ fam = "unknown" => UserTable(detectFirmwareFamily(TypeMarks[d])) = "user"
<1> DEFINE F == FirmwareMarks[d]
           T == TypeMarks[d]
<1>1. CASE Mentions(F, {"zam170", "speedface", "zem900"})
  <2>1. detectFirmwareFamily(F) = "speedface"
    BY <1>1 DEF detectFirmwareFamily
  <2> QED  BY <1>1, <2>1 DEF Understands, UserTable, Mentions
<1>2. CASE ~Mentions(F, {"zam170", "speedface", "zem900"}) /\ Mentions(F, OlderMarks)
  <2>1. detectFirmwareFamily(F) = "biotime"
    BY <1>2 DEF detectFirmwareFamily, OlderMarks
  <2>2. ~Mentions(F, {"iface"})
    BY <1>2 DEF MarksTell
  <2> QED  BY <1>2, <2>1, <2>2 DEF Understands, UserTable, Mentions
<1>3. CASE /\ ~Mentions(F, {"zam170", "speedface", "zem900"}) /\ ~Mentions(F, OlderMarks)
           /\ Mentions(F, {"iface"})
  <2>1. detectFirmwareFamily(F) = "iface"
    BY <1>3 DEF detectFirmwareFamily, OlderMarks
  <2> QED  BY <1>3, <2>1 DEF Understands, UserTable, Mentions
<1>4. CASE /\ ~Mentions(F, {"zam170", "speedface", "zem900"}) /\ ~Mentions(F, OlderMarks)
           /\ ~Mentions(F, {"iface"})
  <2>1. detectFirmwareFamily(F) \in {"green_label", "unknown"}
    BY <1>4 DEF detectFirmwareFamily, OlderMarks
  <2>2. Understands(d, UserTable(detectFirmwareFamily(F)))
    BY <1>4, <2>1 DEF Understands, UserTable, Mentions
  <2>3. ASSUME detectFirmwareFamily(F) = "unknown"
        PROVE  UserTable(detectFirmwareFamily(T)) = "user"
    <3>1. ~Mentions(F, OtherMarks)
      BY <1>4, <2>3 DEF detectFirmwareFamily, OlderMarks, OtherMarks
    <3>2. ~Mentions(T, NewerMarks)
      BY <1>4, <3>1 DEF MarksTell, Mentions, NewerMarks, OlderMarks, OtherMarks
    <3> QED  BY <3>2 DEF detectFirmwareFamily, UserTable, Mentions, NewerMarks
  <2> QED  BY <2>2, <2>3
<1> QED  BY <1>1, <1>2, <1>3, <1>4

\* What a terminal tells of itself is right, whether its marks tell or not.
LEMMA ToldIsRight ==
    ASSUME MarksTell, Types, FamilyIsRight, NEW d \in Devices,
           NEW fam \in Families, NEW knows \in BOOLEAN,
           \/ fam = detectFirmwareFamily(TypeMarks[d]) /\ knows = FALSE
           \/ knows = TRUE /\ LET f == detectFirmwareFamily(FirmwareMarks[d])
                              IN  fam = IF f = "unknown" THEN family[d] ELSE f
    PROVE  Right(d, [family |-> fam, known |-> knows])
<1> DEFINE f == detectFirmwareFamily(FirmwareMarks[d])
<1>1. CASE fam = detectFirmwareFamily(TypeMarks[d]) /\ knows = FALSE
  BY <1>1 DEF Right
<1>2. CASE fam = f /\ f # "unknown" /\ knows = TRUE
  BY <1>2, Detected DEF Right
<1>3. CASE f = "unknown" /\ fam = family[d] /\ knows = TRUE
  <2>1. Right(d, [family |-> family[d], known |-> known[d]])
    BY DEF FamilyIsRight
  <2>2. family[d] \in {"unknown", detectFirmwareFamily(TypeMarks[d])}
    BY <1>3, <2>1 DEF Right
  <2>3. UserTable(family[d]) = "user" /\ Understands(d, "user")
    BY <1>3, <2>2, Detected DEF UserTable
  <2> QED  BY <1>3, <2>2, <2>3 DEF Right
<1> QED  BY <1>1, <1>2, <1>3

\* What calls may read is right of a terminal that sent its INFO.
LEMMA FamilyKept ==
    ASSUME MarksTell, Types, FamilyIsRight, Next
    PROVE  FamilyIsRight'
<1>1. ASSUME NEW d \in Devices, Handshake(d) \/ Info(d)
      PROVE  FamilyIsRight'
  <2>1. PICK fam \in Families, knows \in BOOLEAN :
           /\ Tell(d, fam, knows)
           /\ \/ fam = detectFirmwareFamily(TypeMarks[d]) /\ knows = FALSE
              \/ knows = TRUE /\ LET f == detectFirmwareFamily(FirmwareMarks[d])
                                 IN  fam = IF f = "unknown" THEN family[d] ELSE f
    BY <1>1, FamilyType DEF Handshake, Info, Types, ServerTypes
  <2>2. Right(d, [family |-> fam, known |-> knows])
    BY <2>1, ToldIsRight
  <2>3. ASSUME NEW e \in Devices
        PROVE  /\ [family |-> family'[e], known |-> known'[e]] \in versions'[e]
               /\ \A version \in versions'[e] : Right(e, version)
    <3>1. CASE e = d
      BY <2>1, <2>2, <3>1 DEF Tell, FamilyIsRight, Types, ServerTypes
    <3>2. CASE e # d
      BY <2>1, <3>2 DEF Tell, FamilyIsRight, Types, ServerTypes
    <3> QED  BY <3>1, <3>2
  <2> QED  BY <2>3 DEF FamilyIsRight, Right
<1>2. CASE UNCHANGED deviceVars
  BY <1>2 DEF FamilyIsRight, Right, deviceVars
<1> QED  BY <1>1, <1>2
         DEF Next, Update, Create, Inbound, PushProfile, Push, Move, Delete, PushBiometrics,
             QueryUsers, Clear, Execute, Lose, ChangeAt, EraseAt, Ingest, serverVars

\* Commands stay in the dialect of their terminal.
LEMMA DialectKept ==
    ASSUME MarksTell, Types, Captured, Dialect, [Next]_vars
    PROVE  Dialect'
<1>1. CASE UNCHANGED vars
  BY <1>1 DEF vars, serverVars, deviceVars, terminalVars, Dialect, FamilyIsRight, Right,
              QueuedIsRight, RefusedOnlyUnknown
<1>2. CASE Next
  <2>1. FamilyIsRight'
    BY <1>2, FamilyKept DEF Dialect
  <2>2. ASSUME NEW d \in Devices, NEW i \in DOMAIN queue'[d]
        PROVE  LET c == queue'[d][i]
               IN  c.kind \in {"profile", "user", "query"} /\ c.known =>
                      Understands(d, c.line.verb)
    <3> DEFINE c == queue'[d][i]
    <3>1. Holds(queue[d], c) \/ Fresh(d, c)
      BY <1>2, <2>2, QueuesGrow DEF Holds
    <3> HIDE DEF c
    <3>2. CASE Holds(queue[d], c)
      BY <3>2 DEF Holds, Dialect, QueuedIsRight, c
    <3>3. CASE Fresh(d, c)
      BY <3>3 DEF Fresh, Dialect, FamilyIsRight, Right, c
    <3> QED  BY <3>1, <3>2, <3>3
  <2>3. RefusedOnlyUnknown'
    <3>1. ASSUME NEW d \in Devices, NEW i \in DOMAIN queue[d], Execute(d, i),
                 Refuse(d, queue[d][i])
          PROVE  RefusedOnlyUnknown'
      <4>1. queue[d][i] \in Issued
        BY ElementOfSeq, LenProperties DEF Types, LineTypes
      <4>2. ~queue[d][i].known
        BY <3>1, <4>1 DEF Refuse, Dialect, QueuedIsRight
      <4> QED  BY <3>1, <4>2 DEF Refuse, Dialect, RefusedOnlyUnknown
    <3>2. CASE UNCHANGED refused
      BY <3>2 DEF Dialect, RefusedOnlyUnknown
    <3>3. ASSUME NEW d \in Devices, NEW i \in DOMAIN queue[d], Execute(d, i),
                 ~Refuse(d, queue[d][i])
          PROVE  UNCHANGED refused
      BY <3>3 DEF Execute, StoreUser, Answer, StoreTemplate, Obey, Unenrol, Forget
    <3>4. ASSUME NEW targets, PushesTo(targets) PROVE UNCHANGED refused
      BY <3>4 DEF PushesTo, Update, Create, Inbound, PushProfile, Push
    <3>5. ASSUME NEW d \in Devices, ChangeAt(d) \/ EraseAt(d) PROVE UNCHANGED refused
      BY <3>5 DEF ChangeAt, EraseAt, Forget
    <3> QED  BY <1>2, <3>1, <3>2, <3>3, <3>4, <3>5
             DEF Next, PushesTo, Move, Delete, Handshake, Info, Tell, PushBiometrics, QueryUsers,
                 Clear, Lose, Ingest
  <2> QED  BY <2>1, <2>2, <2>3 DEF Dialect, QueuedIsRight
<1> QED  BY <1>1, <1>2

-----------------------------------------------------------------------------
(* Templates                                                               *)

\* What was captured stays captured.
LEMMA CapturedGrows == Next => captured \subseteq captured'
<1> SUFFICES ASSUME Next PROVE captured \subseteq captured'
  OBVIOUS
<1>1. ASSUME NEW targets, PushesTo(targets) PROVE captured' = captured
  BY <1>1 DEF PushesTo, Update, Create, Inbound, PushProfile, Push, terminalVars
<1>2. ASSUME NEW d \in Devices, ChangeAt(d) PROVE captured \subseteq captured'
  BY <1>2 DEF ChangeAt, Edit, Enter, Enrol
<1> QED  BY <1>1, <1>2
         DEF Next, PushesTo, Move, Delete, Handshake, Info, Tell, PushBiometrics, QueryUsers,
             Clear, Execute, Lose, EraseAt, Ingest, terminalVars

\* A report that is sent joins those on their way.
LEMMA SentRows ==
    ASSUME Types, Captured, NEW d \in Devices, NEW lines, Send(d, lines),
           captured \subseteq captured',
           \A line \in lines : ~IsUser(line) => \E c \in captured' : line = RowOf(c)
    PROVE  ReportedIsCaptured'
<1>1. ASSUME NEW e \in Devices, NEW i \in DOMAIN reports'[e]
      PROVE  \A line \in reports'[e][i] : ~IsUser(line) => \E c \in captured' : line = RowOf(c)
  <2>1. Holds(reports'[e], reports'[e][i])
    BY <1>1 DEF Holds
  <2>2. Holds(reports[e], reports'[e][i]) \/ reports'[e][i] = lines
    BY <2>1, Appended DEF Send, Types, LineTypes
  <2> QED  BY <2>2 DEF Holds, Captured, ReportedIsCaptured
<1> QED  BY <1>1 DEF ReportedIsCaptured

\* Reports stay about what their terminal held.
LEMMA ReportsKept ==
    ASSUME Types, Captured, Next
    PROVE  ReportedIsCaptured'
<1>1. ASSUME NEW d \in Devices, NEW j \in DOMAIN queue[d], Execute(d, j)
      PROVE  ReportedIsCaptured'
  <2>1. captured' = captured
    BY <1>1 DEF Execute
  <2>2. CASE UNCHANGED reports
    BY <2>1, <2>2 DEF Captured, ReportedIsCaptured
  <2>3. CASE user[d] # None /\ Send(d, AllOf(d))
    BY <2>1, <2>3, AllOfType, SentRows DEF Captured
  <2> QED  BY <1>1, <2>2, <2>3
           DEF Execute, StoreUser, Refuse, Answer, StoreTemplate, Obey, Unenrol, Forget
<1>2. ASSUME NEW d \in Devices, ChangeAt(d)
      PROVE  ReportedIsCaptured'
  <2>1. CASE Edit(d)
    <3>1. user'[d] \in OnTerminal
      BY <1>2, <2>1 DEF ChangeAt, Edit, Types, TerminalTypes, OnTerminal
    <3>2. IsUser(UserRow(user'[d]))
      BY DEF IsUser, UserRow
    <3> QED  BY <2>1, <3>2, SentRows DEF Edit
  <2>2. CASE Enrol(d)
    <3>1. PICK kind \in Kinds, fid \in Fingers, capture \in Captures :
             LET t == [capture EXCEPT !.valid = @ \/ kind = "photo"]
             IN  /\ captured' = captured \cup {<<kind, fid, t>>}
                 /\ Send(d, {BioRow(kind, fid, t)})
      BY <2>2, Zenon DEF Enrol
    <3> QED  BY <3>1, SentRows DEF RowOf
  <2>3. CASE Enter(d)
    <3>1. \A u : IsUser(UserRow(u))
      BY DEF IsUser, UserRow
    <3> QED  BY <2>3, <3>1, SentRows DEF Enter
  <2> QED  BY <1>2, <2>1, <2>2, <2>3 DEF ChangeAt
<1>3. ASSUME NEW d \in Devices, NEW i \in DOMAIN reports[d], Ingest(d, i)
      PROVE  ReportedIsCaptured'
  <2>1. captured' = captured /\ reports' = [reports EXCEPT ![d] = RemoveAt(@, i)]
    BY <1>3 DEF Ingest, terminalVars
  <2>2. ASSUME NEW e \in Devices, NEW j \in DOMAIN reports'[e]
        PROVE  \E k \in DOMAIN reports[e] : reports'[e][j] = reports[e][k]
    BY <2>1, <2>2, <1>3, Taken DEF Types, LineTypes
  <2> QED  BY <2>1, <2>2 DEF Captured, ReportedIsCaptured
<1>4. CASE UNCHANGED <<reports, captured>>
  BY <1>4 DEF Captured, ReportedIsCaptured
<1> QED  BY <1>1, <1>2, <1>3, <1>4
         DEF Next, Update, Create, Inbound, PushProfile, Push, Move, Delete, Handshake, Info,
             Tell, PushBiometrics, QueryUsers, Clear, Lose, EraseAt, Forget, serverVars,
             terminalVars

\* A terminal that forgets the member is left with nothing to keep.
LEMMA ForgottenIsKept ==
    ASSUME Types, NEW d \in Devices, Forget(d)
    PROVE  \A S : (\A e \in Devices : \A s \in DOMAIN bios[e] :
                      \E c \in S : c = <<s[1], s[2], bios[e][s]>>) =>
                 \A e \in Devices : \A s \in DOMAIN bios'[e] :
                      \E c \in S : c = <<s[1], s[2], bios'[e][s]>>
<1>1. DOMAIN bios'[d] = {} /\ \A e \in Devices : e # d => bios'[e] = bios[e]
  BY DEF Forget, Empty, Types, TerminalTypes
<1> QED  BY <1>1

\* A template a terminal holds or the server stores is one that was captured: it came from a
\* line that carries one (Execute), from an enrolment (Enrol) or from a report (Ingest).
LEMMA FingersStay ==
    ASSUME Types, Captured, Next
    PROVE  FingersKept'
<1> DEFINE Kept(held) == \A s \in DOMAIN held : \E c \in captured' : c = <<s[1], s[2], held[s]>>
<1>1. captured \subseteq captured'
  BY CapturedGrows
<1>2. \A held : AsCaptured(held) => Kept(held)
  BY <1>1 DEF AsCaptured
<1>3. Kept(templates) /\ \A d \in Devices : Kept(bios[d])
  BY <1>2 DEF Captured, FingersKept
<1>4. ASSUME Kept(templates'), \A d \in Devices : Kept(bios'[d])
      PROVE  FingersKept'
  BY <1>4 DEF FingersKept, AsCaptured
<1>5. ASSUME NEW d \in Devices, NEW j \in DOMAIN queue[d], Execute(d, j)
      PROVE  FingersKept'
  <2> DEFINE c == queue[d][j]
  <2>1. c \in Issued /\ Holds(queue[d], c)
    BY ElementOfSeq, LenProperties DEF Holds, Types, LineTypes
  <2>2. templates' = templates /\ captured' = captured
    BY <1>5 DEF Execute, serverVars
  <2> HIDE DEF c
  <2>3. CASE UNCHANGED bios
    BY <1>3, <1>4, <2>2, <2>3
  <2>4. CASE c.kind = "template" /\ WithTemplate(d, c.line)
    <3>1. PICK x \in captured : c.line = PushOf(x)
      BY <2>1, <2>4 DEF Holds, Captured, QueuedIsCaptured
    <3>2. x \in Copies
      BY DEF Types, TerminalTypes
    <3> DEFINE t == [valid |-> x[3].valid, template |-> x[3].template]
    <3>3. bios' = [bios EXCEPT ![d] = Held(x[1], x[2], t, @)]
      BY <2>4, <3>1, <3>2, TemplateTakenIn
    <3>4. Kept(Held(x[1], x[2], t, bios[d]))
      BY <1>1, <3>2, Overlay DEF Captured, FingersKept, Types, TerminalTypes
    <3> HIDE DEF t, Kept
    <3>5. \A e \in Devices : Kept(bios'[e])
      BY <1>3, <3>3, <3>4 DEF Types, TerminalTypes
    <3> QED  BY <1>3, <1>4, <2>2, <3>5
  <2>5. CASE Obey(d, c)
    <3>1. \A e \in Devices : \A s \in DOMAIN bios'[e] :
              s \in DOMAIN bios[e] /\ bios'[e][s] = bios[e][s]
      BY <2>5 DEF Obey, Types, TerminalTypes
    <3>2. \A e \in Devices : Kept(bios'[e])
      BY <1>3, <3>1
    <3> QED  BY <1>3, <1>4, <2>2, <3>2
  <2>6. CASE Forget(d)
    BY <1>3, <1>4, <2>2, <2>6, ForgottenIsKept
  <2> QED  BY <1>5, <2>3, <2>4, <2>5, <2>6
           DEF Execute, StoreUser, Refuse, Answer, StoreTemplate, Unenrol, c
<1>6. ASSUME NEW d \in Devices, ChangeAt(d)
      PROVE  FingersKept'
  <2>1. templates' = templates
    BY <1>6 DEF ChangeAt, serverVars
  <2>2. CASE Edit(d) \/ Enter(d)
    BY <1>3, <1>4, <2>1, <2>2 DEF Edit, Enter
  <2>3. CASE Enrol(d)
    <3>1. PICK kind \in Kinds, fid \in Fingers, capture \in Captures :
             LET t == [capture EXCEPT !.valid = @ \/ kind = "photo"]
             IN  /\ kind # "fp" => fid = 0
                 /\ bios' = [bios EXCEPT ![d] = Held(kind, fid, t, @)]
                 /\ captured' = captured \cup {<<kind, fid, t>>}
      BY <2>3 DEF Enrol
    <3> DEFINE t == [capture EXCEPT !.valid = @ \/ kind = "photo"]
               x == <<kind, fid, t>>
    <3>2. x \in Copies /\ t = [valid |-> t.valid, template |-> t.template] /\ x \in captured'
      BY <3>1, CaptureIsCopy
    <3>3. x[1] = kind /\ x[2] = fid /\ x[3] = t
      OBVIOUS
    <3>4. bios' = [bios EXCEPT ![d] = Held(kind, fid, t, @)]
      BY <3>1
    <3> HIDE DEF t, x
    <3>5. t = [valid |-> x[3].valid, template |-> x[3].template]
      BY <3>2, <3>3
    <3>6. Kept(Held(x[1], x[2], t, bios[d]))
      BY <1>1, <3>2, <3>5, Overlay DEF Captured, FingersKept, Types, TerminalTypes
    <3> HIDE DEF Kept
    <3>7. \A e \in Devices : Kept(bios'[e])
      BY <1>3, <3>3, <3>4, <3>6 DEF Types, TerminalTypes
    <3> QED  BY <1>3, <1>4, <2>1, <3>7
  <2> QED  BY <1>6, <2>2, <2>3 DEF ChangeAt
<1>7. ASSUME NEW d \in Devices, NEW i \in DOMAIN reports[d], Ingest(d, i)
      PROVE  FingersKept'
  <2> DEFINE lines == reports[d][i]
  <2>1. bios' = bios /\ captured' = captured
    BY <1>7 DEF Ingest, terminalVars
  <2>2. templates' = Overlaid(Stored(lines), templates) \/ templates' = templates
    BY <1>7 DEF Ingest
  <2>3. captured \in SUBSET Copies
        /\ \A line \in lines : ~IsUser(line) => \E x \in captured : line = RowOf(x)
    BY DEF Captured, ReportedIsCaptured, Types, TerminalTypes
  <2> HIDE DEF lines
  <2>4. Kept(Stored(lines))
    BY <1>1, <2>3, StoredRows
  <2>5. Kept(Overlaid(Stored(lines), templates))
    BY <1>3, <2>4 DEF Overlaid
  <2> HIDE DEF Kept
  <2> QED  BY <1>3, <1>4, <2>1, <2>2, <2>5
<1>8. ASSUME NEW d \in Devices, EraseAt(d)
      PROVE  FingersKept'
  <2>1. templates' = templates /\ captured' = captured /\ Forget(d)
    BY <1>8 DEF EraseAt, serverVars
  <2> QED  BY <1>3, <1>4, <2>1, ForgottenIsKept
<1>9. ASSUME NEW also \in BOOLEAN, Delete(also)
      PROVE  FingersKept'
  <2>1. Kept(templates') /\ bios' = bios
    BY <1>9 DEF Delete, Empty, terminalVars
  <2> QED  BY <1>3, <1>4, <2>1
<1>10. CASE UNCHANGED <<templates, bios>>
  BY <1>3, <1>4, <1>10
<1> QED  BY <1>5, <1>6, <1>7, <1>8, <1>9, <1>10
         DEF Next, Update, Create, Inbound, PushProfile, Push, Move, Handshake, Info, Tell,
             PushBiometrics, QueryUsers, Clear, Lose, serverVars, terminalVars

\* A captured template stays what was captured.
LEMMA CapturedKept ==
    ASSUME Types, Captured, [Next]_vars
    PROVE  Captured'
<1>1. CASE UNCHANGED vars
  BY <1>1 DEF vars, serverVars, deviceVars, terminalVars, Captured, QueuedIsCaptured,
              ReportedIsCaptured, FingersKept, AsCaptured
<1>2. CASE Next
  <2>1. captured \subseteq captured'
    BY <1>2, CapturedGrows
  <2>2. ASSUME NEW d \in Devices, NEW i \in DOMAIN queue'[d], queue'[d][i].kind = "template"
        PROVE  \E c \in captured' : queue'[d][i].line = PushOf(c)
    <3>1. Holds(queue[d], queue'[d][i]) \/ Fresh(d, queue'[d][i])
      BY <1>2, <2>2, QueuesGrow DEF Holds
    <3> QED  BY <2>1, <2>2, <3>1 DEF Holds, Fresh, Captured, QueuedIsCaptured
  <2> QED  BY <1>2, <2>2, ReportsKept, FingersStay DEF Captured, QueuedIsCaptured
<1> QED  BY <1>1, <1>2

-----------------------------------------------------------------------------
(* Agreement                                                               *)

\* A terminal nobody touches stays in agreement.
LEMMA StaysInStep ==
    ASSUME NEW d, InStep(d),
           queue'[d] = queue[d], reports'[d] = reports[d], user'[d] = user[d], row' = row
    PROVE  InStep(d)'
  BY DEF InStep, Pushed, Told, Telling, Says, OnlyQueries, SameProfile

\* A push to a terminal that had nothing under way puts it in step.
LEMMA PushedIsInStep ==
    ASSUME NEW d \in Devices, NEW p \in Profile, NEW version \in Versions, row' = p,
           reports'[d] = <<>>,
           queue'[d] = Append(<<>>, UserCommand("profile", version, p))
    PROVE  InStep(d)'
<1> DEFINE c == UserCommand("profile", version, p)
<1>1. /\ c.kind = "profile"
      /\ c.line.Name = row'.name /\ c.line.Pri = row'.privilege /\ c.line.Card = Text(row'.card)
  BY UserLines, UserCommandType
<1>2. queue'[d] = Append(<<>>, c)
  OBVIOUS
<1> HIDE DEF c
<1>3. queue'[d] # <<>> /\ queue'[d][1] = c /\ DOMAIN queue'[d] = {1}
  BY <1>2
<1>4. Pushed(d)'
  BY <1>1, <1>3 DEF Pushed, Says
<1> QED  BY <1>4 DEF InStep

LEMMA PushAgrees ==
    ASSUME Types, Agreement, NEW targets \in SUBSET Devices, PushesTo(targets)
    PROVE  Agreement'
<1>1. /\ Push(targets) /\ row' \in Profile /\ links' \subseteq links \cup targets
  BY PushCalls
<1>2. PICK view \in Views(targets) : queue' = Queued(view, row')
  BY <1>1 DEF Push
<1>3. ASSUME NEW d \in links' \ crossed'
      PROVE  InStep(d)'
  <2>1. d \in Devices /\ d \in links \cup targets
    BY <1>1, <1>3 DEF Types, ServerTypes
  <2>2. CASE d \in targets
    <3>1. queue[d] = <<>> /\ reports'[d] = <<>>
      BY <1>1, <1>3, <2>2 DEF Push, Idle
    <3>2. /\ view[d] \in Versions
          /\ queue'[d] = Append(<<>>, UserCommand("profile", view[d], row'))
      BY <1>2, <2>1, <2>2, <3>1, ViewRead DEF Queued
    <3> QED  BY <1>1, <2>1, <3>1, <3>2, PushedIsInStep
  <2>3. CASE d \notin targets
    <3>1. d \in links \ crossed /\ row' = row
      BY <1>1, <1>3, <2>1, <2>3 DEF Push
    <3>2. queue'[d] = queue[d] /\ reports'[d] = reports[d] /\ user'[d] = user[d]
      BY <1>1, <1>2, <2>1, <2>3, ViewRead DEF Push, Queued, terminalVars
    <3> QED  BY <3>1, <3>2, StaysInStep DEF Agreement
  <2> QED  BY <2>2, <2>3
<1> QED  BY <1>3 DEF Agreement

LEMMA MoveAgrees ==
    ASSUME Types, Agreement, NEW from \in Devices, NEW to \in Devices, Move(from, to)
    PROVE  Agreement'
<1>1. PICK view \in Views({to}) :
         queue' = [Queued(view, row) EXCEPT ![from] = Append(@, Removal)]
  BY DEF Move
<1>2. row \in Profile /\ row' = row /\ Queued(view, row) \in [Devices -> Seq(Issued)]
  BY PushedTypes DEF Move, Types, ServerTypes
<1>3. ASSUME NEW d \in links' \ crossed'
      PROVE  InStep(d)'
  <2>1. /\ d \in Devices /\ d # from /\ d \in links \cup {to}
        /\ reports'[d] = reports[d] /\ user'[d] = user[d]
    BY <1>3 DEF Move, terminalVars, Types, ServerTypes
  <2>2. queue'[d] = Queued(view, row)[d]
    BY <1>1, <1>2, <2>1
  <2>3. CASE d = to
    <3>1. queue[d] = <<>> /\ reports'[d] = <<>>
      BY <1>3, <2>1, <2>3 DEF Move, Idle
    <3>2. /\ view[d] \in Versions
          /\ queue'[d] = Append(<<>>, UserCommand("profile", view[d], row))
      BY <2>1, <2>2, <2>3, <3>1, ViewRead DEF Queued
    <3> QED  BY <1>2, <2>1, <3>1, <3>2, PushedIsInStep
  <2>4. CASE d # to
    <3>1. d \in links \ crossed
      BY <1>3, <2>1, <2>4 DEF Move
    <3>2. queue'[d] = queue[d]
      BY <2>1, <2>2, <2>4, ViewRead DEF Queued
    <3> QED  BY <1>2, <2>1, <3>1, <3>2, StaysInStep DEF Agreement
  <2> QED  BY <2>3, <2>4
<1> QED  BY <1>3 DEF Agreement

\* A terminal that is asked for its users besides.
LEMMA QueryAgrees ==
    ASSUME Types, Agreement, NEW e \in Devices, QueryUsers(e)
    PROVE  Agreement'
<1>1. ASSUME NEW d \in links' \ crossed'
      PROVE  InStep(d)'
  <2>1. d \in Devices /\ d \in links \ crossed /\ InStep(d)
    BY <1>1 DEF QueryUsers, serverVars, Agreement, Types, ServerTypes
  <2>2. reports'[d] = reports[d] /\ user'[d] = user[d] /\ row' = row
    BY DEF QueryUsers, serverVars, terminalVars
  <2>3. CASE d # e
    <3>1. queue'[d] = queue[d]
      BY <2>1, <2>3 DEF QueryUsers, Types, LineTypes
    <3> QED  BY <2>1, <2>2, <3>1, StaysInStep
  <2>4. CASE d = e
    <3> DEFINE q == queue[d]
    <3>0. PICK version \in versions[d] :
             queue' = [queue EXCEPT ![d] =
                 Append(@, InDialect("query", version, queryUsers(version.family)))]
      BY <2>4 DEF QueryUsers
    <3> DEFINE c == InDialect("query", version, queryUsers(version.family))
    <3>1. c.kind = "query" /\ queue'[d] = Append(q, c) /\ q \in Seq(Issued)
      BY <2>1, <3>0 DEF InDialect, Types, LineTypes
    <3> HIDE DEF q, c
    <3>2. OnlyQueries(q) => OnlyQueries(queue'[d])
      BY <3>1, AppendProperties, LenProperties DEF OnlyQueries
    <3>3. CASE Pushed(d)
      <4>1. queue'[d] # <<>> /\ queue'[d][1] = q[1]
        BY <3>1, <3>3, AppendProperties, LenProperties, EmptySeq DEF Pushed, q
      <4>2. \A i \in DOMAIN queue'[d] : i # 1 => queue'[d][i].kind = "query"
        BY <3>1, <3>3, AppendProperties, LenProperties DEF Pushed, q
      <4> QED  BY <2>2, <3>3, <4>1, <4>2 DEF Pushed, InStep, Says, q
    <3>4. CASE Told(d)
      BY <2>2, <3>1, <3>2, <3>4 DEF Told, InStep, SameProfile, q
    <3>5. CASE Telling(d)
      BY <2>2, <3>1, <3>2, <3>5 DEF Telling, InStep, SameProfile, q
    <3> QED  BY <2>1, <3>3, <3>4, <3>5 DEF InStep
  <2> QED  BY <2>3, <2>4
<1> QED  BY <1>1 DEF Agreement

\* A terminal that stored the profile it was sent agrees with the row it was made from.
LEMMA StoredProfile ==
    ASSUME Types, NEW d \in Devices, NEW c \in Issued, StoreUser(d, c), Says(c.line), row' = row
    PROVE  user'[d] # None /\ SameProfile(user[d])'
<1>1. c.line \in UserFields(Tables)
  BY CommandKinds DEF StoreUser
<1>2. user'[d] = parseUserRow(c.line) /\ parseUserRow(c.line) \in OnTerminal
  BY <1>1, UserRead DEF StoreUser, WithUser, parseUserRow, Types, TerminalTypes
<1>3. user'[d] # None
  BY <1>2, OnTerminalIsProfile, TerminalUsersAssumption DEF TerminalUsersAssumption
<1>4. OrNull(Text(row.card)) = OrNull(row.card) \/ OrNull(Text(row.card)) = row.card
  BY DEF OrNull, Text
<1> QED  BY <1>2, <1>3, <1>4 DEF parseUserRow, Says, SameProfile

\* What is left of a queue whose first command was taken, or of one of queries.
LEMMA OnlyQueriesLeft ==
    ASSUME Types, NEW d \in Devices, NEW i \in DOMAIN queue[d]
    PROVE  /\ OnlyQueries(queue[d]) => OnlyQueries(RemoveAt(queue[d], i))
           /\ i = 1 /\ (\A j \in DOMAIN queue[d] : j # 1 => queue[d][j].kind = "query") =>
                  OnlyQueries(RemoveAt(queue[d], i))
           /\ i # 1 /\ (\A j \in DOMAIN queue[d] : j # 1 => queue[d][j].kind = "query") =>
                  /\ RemoveAt(queue[d], i) # <<>> /\ RemoveAt(queue[d], i)[1] = queue[d][1]
                  /\ \A j \in DOMAIN RemoveAt(queue[d], i) :
                         j # 1 => RemoveAt(queue[d], i)[j].kind = "query"
<1> DEFINE q == queue[d]
           r == RemoveAt(q, i)
<1>1. q \in Seq(Issued) /\ Len(q) \in Nat /\ i \in 1 .. Len(q) /\ DOMAIN q = 1 .. Len(q)
  BY LenProperties DEF Types, LineTypes
<1>2. /\ r \in Seq(Issued) /\ Len(r) = Len(q) - 1 /\ DOMAIN r = 1 .. Len(r)
      /\ \A j \in DOMAIN r :
            /\ j \in DOMAIN q /\ j + 1 \in DOMAIN q
            /\ r[j] = IF j < i THEN q[j] ELSE q[j + 1]
  BY <1>1, Taken, LenProperties
<1> HIDE DEF q, r
<1>3. OnlyQueries(q) => OnlyQueries(r)
  BY <1>2 DEF OnlyQueries
<1>4. ASSUME i = 1, \A j \in DOMAIN q : j # 1 => q[j].kind = "query"
      PROVE  OnlyQueries(r)
  <2>1. \A j \in DOMAIN r : j + 1 # 1 /\ r[j] = q[j + 1] /\ j + 1 \in DOMAIN q
    BY <1>1, <1>2, <1>4
  <2> QED  BY <1>4, <2>1 DEF OnlyQueries
<1>5. ASSUME i # 1, \A j \in DOMAIN q : j # 1 => q[j].kind = "query"
      PROVE  r # <<>> /\ r[1] = q[1] /\ \A j \in DOMAIN r : j # 1 => r[j].kind = "query"
  <2>1. 1 \in DOMAIN r /\ r[1] = q[1]
    BY <1>1, <1>2, <1>5
  <2>2. \A j \in DOMAIN r : j # 1 => j + 1 # 1
    BY <1>1, <1>2
  <2> QED  BY <1>2, <1>5, <2>1, <2>2
<1> QED  BY <1>3, <1>4, <1>5 DEF q, r

LEMMA ExecuteAgrees ==
    ASSUME Types, Captured, Agreement, NEW e \in Devices, NEW i \in DOMAIN queue[e],
           Execute(e, i)
    PROVE  Agreement'
<1>1. ASSUME NEW d \in links' \ crossed'
      PROVE  InStep(d)'
  <2> DEFINE c == queue[e][i]
  <2>1. row' = row /\ links' = links
    BY DEF Execute, serverVars
  <2>2. d \in Devices /\ d \in links \ crossed /\ InStep(d)
    BY <1>1, <2>1 DEF Execute, Agreement, Types, ServerTypes
  <2>3. CASE d # e
    <3>1. queue'[d] = queue[d] /\ reports'[d] = reports[d] /\ user'[d] = user[d]
      BY <2>2, <2>3
      DEF Execute, StoreUser, Refuse, Answer, StoreTemplate, Obey, Unenrol, Forget, WithUser,
          Send, Types, LineTypes, TerminalTypes
    <3> QED  BY <2>1, <2>2, <3>1, StaysInStep
  <2>4. CASE d = e
    <3>1. /\ queue[d] # <<>> /\ queue[d] \in Seq(Issued) /\ c \in Issued
          /\ queue'[d] = RemoveAt(queue[d], i) /\ i \in DOMAIN queue[d]
      BY <2>2, <2>4, ElementOfSeq, LenProperties DEF Execute, Types, LineTypes
    <3>2. i = 1 /\ InTurn(d, i) /\ c = queue[d][1]
      BY <1>1, <2>4 DEF Execute, InTurn
    <3>3. \/ StoreUser(d, c) \/ Refuse(d, c) \/ Answer(d, c) \/ StoreTemplate(d, c)
          \/ Obey(d, c) \/ Unenrol(d, c)
      BY <2>4 DEF Execute
    <3>4. OnlyQueries(queue[d]) => c.kind = "query" /\ OnlyQueries(queue'[d])
      <4>1. OnlyQueries(queue[d]) => OnlyQueries(queue'[d])
        BY <2>2, <3>1, OnlyQueriesLeft
      <4>2. OnlyQueries(queue[d]) => c.kind = "query"
        BY <3>1, <3>2 DEF OnlyQueries
      <4> QED  BY <4>1, <4>2
    <3>5. /\ c.kind \in {"profile", "user"} => Understands(d, c.line.verb)
          /\ c.kind = "query" /\ Understands(d, c.line.verb) => reports[d] = <<>>
      BY <2>4, <3>2 DEF InTurn
    <3> HIDE DEF c
    <3>6. CASE Pushed(d)
      <4>1. c.kind = "profile" /\ Says(c.line) /\ OnlyQueries(queue'[d]) /\ reports[d] = <<>>
        BY <2>2, <2>4, <3>1, <3>2, <3>6, OnlyQueriesLeft DEF Pushed
      <4>2. StoreUser(d, c)
        BY <3>3, <3>5, <4>1 DEF Refuse, Answer, StoreTemplate, Obey, Unenrol
      <4>3. user'[d] # None /\ SameProfile(user[d])'
        BY <2>1, <2>2, <3>1, <4>1, <4>2, StoredProfile
      <4>4. reports'[d] = <<>>
        BY <4>1, <4>2 DEF StoreUser
      <4> QED  BY <4>1, <4>3, <4>4 DEF Told, InStep
    <3>7. CASE Told(d)
      <4>1. c.kind = "query" /\ OnlyQueries(queue'[d]) /\ reports[d] = <<>> /\ user[d] # None
            /\ SameProfile(user[d])
        BY <3>1, <3>4, <3>7 DEF Told
      <4>2. CASE Refuse(d, c)
        BY <2>1, <4>1, <4>2 DEF Refuse, Told, InStep, SameProfile
      <4>3. CASE Answer(d, c)
        <5>1. Send(d, AllOf(d)) /\ user' = user
          BY <4>1, <4>3 DEF Answer
        <5>2. reports'[d] = <<AllOf(d)>>
          BY <2>2, <4>1, <5>1 DEF Send, Types, LineTypes
        <5>3. Len(reports'[d]) = 1 /\ reports'[d][1] = AllOf(d)
          BY <5>2
        <5>4. UserRow(user[d]) \in AllOf(d)
          BY DEF AllOf
        <5>5. \A line \in AllOf(d) : IsUser(line) => line = UserRow(user[d])
          BY <2>2, <4>1, AllOfType DEF Captured
        <5> QED  BY <4>1, <5>1, <5>3, <5>4, <5>5 DEF Telling, InStep
      <4> QED  BY <3>3, <4>1, <4>2, <4>3 DEF StoreUser, StoreTemplate, Obey, Unenrol
    <3>8. CASE Telling(d)
      <4>1. c.kind = "query" /\ OnlyQueries(queue'[d]) /\ reports[d] # <<>>
        BY <3>1, <3>4, <3>8 DEF Telling
      <4>2. Refuse(d, c)
        BY <3>3, <3>5, <4>1 DEF StoreUser, Answer, StoreTemplate, Obey, Unenrol
      <4> QED  BY <2>1, <3>8, <4>1, <4>2 DEF Refuse, Telling, InStep, SameProfile
    <3> QED  BY <2>2, <3>6, <3>7, <3>8 DEF InStep
  <2> QED  BY <2>3, <2>4
<1> QED  BY <1>1 DEF Agreement

\* A query that is lost leaves the others.
LEMMA LoseAgrees ==
    ASSUME Types, Agreement, NEW e \in Devices, NEW i \in DOMAIN queue[e], Lose(e, i)
    PROVE  Agreement'
<1>1. ASSUME NEW d \in links' \ crossed'
      PROVE  InStep(d)'
  <2>1. row' = row /\ links' = links /\ reports'[d] = reports[d] /\ user'[d] = user[d]
    BY DEF Lose, serverVars, terminalVars
  <2>2. d \in Devices /\ d \in links \ crossed /\ InStep(d)
    BY <1>1, <2>1 DEF Lose, Agreement, Types, ServerTypes
  <2>3. CASE d # e
    <3>1. queue'[d] = queue[d]
      BY <2>2, <2>3 DEF Lose, Types, LineTypes
    <3> QED  BY <2>1, <2>2, <3>1, StaysInStep
  <2>4. CASE d = e
    <3>1. /\ queue'[d] = RemoveAt(queue[d], i) /\ queue[d][i].kind = "query"
          /\ i \in DOMAIN queue[d]
      BY <1>1, <2>2, <2>4 DEF Lose, Types, LineTypes
    <3>2. CASE Pushed(d)
      <4>1. i # 1
        BY <3>1, <3>2 DEF Pushed
      <4>2. /\ queue'[d] # <<>> /\ queue'[d][1] = queue[d][1]
            /\ \A j \in DOMAIN queue'[d] : j # 1 => queue'[d][j].kind = "query"
        <5>1. \A j \in DOMAIN queue[d] : j # 1 => queue[d][j].kind = "query"
          BY <3>2 DEF Pushed
        <5> QED  BY <2>2, <3>1, <4>1, <5>1, OnlyQueriesLeft
      <4> QED  BY <2>1, <3>2, <4>2 DEF Pushed, InStep, Says
    <3>3. OnlyQueries(queue[d]) => OnlyQueries(queue'[d])
      BY <2>2, <2>4, <3>1, OnlyQueriesLeft
    <3>4. CASE Told(d)
      BY <2>1, <3>3, <3>4 DEF Told, InStep, SameProfile
    <3>5. CASE Telling(d)
      BY <2>1, <3>3, <3>5 DEF Telling, InStep, SameProfile
    <3> QED  BY <2>2, <3>2, <3>4, <3>5 DEF InStep
  <2> QED  BY <2>3, <2>4
<1> QED  BY <1>1 DEF Agreement

LEMMA ChangeAtAgrees ==
    ASSUME Types, Agreement, NEW e \in Devices, ChangeAt(e)
    PROVE  Agreement'
<1>1. ASSUME NEW d \in links' \ crossed'
      PROVE  InStep(d)'
  <2>1. row' = row /\ links' = links /\ queue' = queue
    BY DEF ChangeAt, serverVars
  <2>2. d \in Devices /\ d \in links \ crossed /\ InStep(d)
    BY <1>1, <2>1 DEF ChangeAt, Agreement, Types, ServerTypes
  <2>3. CASE d # e
    <3>1. reports'[d] = reports[d] /\ user'[d] = user[d]
      BY <2>2, <2>3 DEF ChangeAt, Edit, Enter, Enrol, Send, Types, LineTypes, TerminalTypes
    <3> QED  BY <2>1, <2>2, <3>1, StaysInStep
  <2>4. CASE d = e
    <3>1. queue[d] = <<>> /\ reports[d] = <<>>
      BY <1>1, <2>2, <2>4 DEF ChangeAt, Idle
    <3>2. user[d] # None /\ SameProfile(user[d])
      BY <2>2, <3>1 DEF InStep, Pushed, Told, Telling
    <3>3. OnlyQueries(queue'[d])
      BY <2>1, <3>1 DEF OnlyQueries
    <3>4. ASSUME NEW lines, Send(d, lines)
          PROVE  Len(reports'[d]) = 1 /\ reports'[d][1] = lines
      <4>1. reports'[d] = <<lines>>
        BY <2>2, <3>1, <3>4 DEF Send, Types, LineTypes
      <4> QED  BY <4>1
    <3>5. CASE Edit(d)
      <4>1. user'[d] \in OnTerminal
        BY <2>2, <3>2, <3>5 DEF Edit, Types, TerminalTypes, OnTerminal
      <4>2. user'[d] # None
        BY <4>1, OnTerminalIsProfile, TerminalUsersAssumption DEF TerminalUsersAssumption
      <4>3. Len(reports'[d]) = 1 /\ reports'[d][1] = {UserRow(user'[d])}
        BY <3>4, <3>5 DEF Edit
      <4> QED  BY <3>3, <4>2, <4>3 DEF Telling, InStep
    <3>6. CASE Enrol(d)
      <4>0. user' = user
        BY <3>6 DEF Enrol
      <4>1. PICK kind \in Kinds, fid \in Fingers, capture \in Captures :
               LET t == [capture EXCEPT !.valid = @ \/ kind = "photo"]
               IN  /\ kind # "fp" => fid = 0
                   /\ Send(d, {BioRow(kind, fid, t)})
        BY <3>6 DEF Enrol
      <4> DEFINE t == [capture EXCEPT !.valid = @ \/ kind = "photo"]
                 x == <<kind, fid, t>>
      <4>2. x \in Copies
        BY <4>1, CaptureIsCopy
      <4>3. BioRow(kind, fid, t) = RowOf(x) /\ Send(d, {BioRow(kind, fid, t)}) /\ user' = user
        BY <4>0, <4>1 DEF RowOf
      <4> HIDE DEF x, t
      <4>4. ~IsUser(RowOf(x))
        BY <4>2, BioRowRead
      <4>5. Len(reports'[d]) = 1 /\ reports'[d][1] = {RowOf(x)}
        BY <3>4, <4>3
      <4> QED  BY <2>1, <3>2, <3>3, <4>3, <4>4, <4>5 DEF Telling, InStep, SameProfile
    <3> QED  BY <2>4, <3>2, <3>5, <3>6 DEF ChangeAt, Enter
  <2> QED  BY <2>3, <2>4
<1> QED  BY <1>1 DEF Agreement

LEMMA IngestAgrees ==
    ASSUME Types, Agreement, NEW e \in Devices, NEW i \in DOMAIN reports[e], Ingest(e, i)
    PROVE  Agreement'
<1> DEFINE lines == reports[e][i]
           users == {parseUserRow(line) : line \in {x \in lines : IsUser(x)}}
<1>0. links' = links /\ queue' = queue /\ user' = user /\ crossed \subseteq crossed'
  BY DEF Ingest, terminalVars
<1>1. ASSUME NEW d \in links' \ crossed'
      PROVE  InStep(d)'
  <2>1. d \in Devices /\ d \in links \ crossed /\ InStep(d)
    BY <1>0, <1>1 DEF Agreement, Types, ServerTypes
  <2>2. CASE d # e
    <3>1. row' = row /\ reports'[d] = reports[d]
      BY <1>1, <2>1, <2>2 DEF Ingest, Types, LineTypes
    <3> QED  BY <1>0, <2>1, <3>1, StaysInStep
  <2>3. CASE d = e
    <3>1. reports[d] \in Seq(SUBSET ReportRows) /\ reports[d] # <<>>
      BY <2>1, <2>3 DEF Types, LineTypes
    <3>2. Telling(d)
      BY <2>1, <3>1 DEF InStep, Pushed, Told
    <3>3. i = 1
      BY <2>3, <3>1, <3>2, LenProperties DEF Telling
    <3>4. reports'[d] = <<>>
      <4>1. reports'[d] = RemoveAt(reports[d], i)
        BY <2>1, <2>3 DEF Ingest, Types, LineTypes
      <4>2. i \in DOMAIN reports[d] /\ Len(reports[d]) = 1
        BY <2>3, <3>2 DEF Telling
      <4>3. RemoveAt(reports[d], i) \in Seq(SUBSET ReportRows) /\ Len(RemoveAt(reports[d], i)) = 0
        BY <3>1, <4>2, Taken
      <4> QED  BY <4>1, <4>3, EmptySeq
    <3>5. user[d] \in OnTerminal /\ user[d] # None /\ OnlyQueries(queue[d])
      BY <2>1, <3>2 DEF Telling, Types, TerminalTypes
    <3>6. parseUserRow(UserRow(user[d])) = user[d] /\ IsUser(UserRow(user[d]))
      BY <3>5, UserRowRead DEF IsUser, UserRow
    <3>7. \A u \in users : u = user[d] /\ UserRow(user[d]) \in lines
      BY <2>3, <3>2, <3>3, <3>6 DEF Telling
    <3>8. \A u \in users : row' = Upserted(u)
      BY <1>1, <2>3 DEF Ingest
    <3>9. SameProfile(user[d])'
      <4>1. CASE UserRow(user[d]) \in lines
        <5>1. user[d] \in users
          BY <3>6, <4>1
        <5>2. row' = Upserted(user[d])
          BY <3>8, <5>1
        <5>3. row' = [row EXCEPT !.name = user[d].name, !.privilege = user[d].privilege,
                                 !.card = user[d].card] /\ row \in Profile
          BY <2>1, <5>2 DEF Upserted, Types, ServerTypes
        <5>4. /\ row'.name = user[d].name /\ row'.privilege = user[d].privilege
              /\ row'.card = user[d].card
          BY <5>3 DEF Profile
        <5> QED  BY <1>0, <5>4 DEF SameProfile
      <4>2. CASE UserRow(user[d]) \notin lines
        <5>1. users = {}
          BY <3>7, <4>2
        <5>2. row' = row
          BY <5>1 DEF Ingest
        <5>3. SameProfile(user[d])
          BY <2>3, <3>2, <3>3, <4>2 DEF Telling
        <5> QED  BY <1>0, <5>2, <5>3 DEF SameProfile
      <4> QED  BY <4>1, <4>2
    <3> QED  BY <1>0, <3>4, <3>5, <3>9 DEF Told, InStep
  <2> QED  BY <2>2, <2>3
<1> QED  BY <1>1 DEF Agreement

\* Every step keeps the agreement.
LEMMA AgreementKept ==
    ASSUME Types, Captured, Agreement, [Next]_vars
    PROVE  Agreement'
<1>1. ASSUME UNCHANGED <<row, links, queue, reports, user>>, crossed \subseteq crossed'
      PROVE  Agreement'
  BY <1>1, StaysInStep DEF Agreement
<1>2. ASSUME NEW targets \in SUBSET Devices, PushesTo(targets) PROVE Agreement'
  BY <1>2, PushAgrees
<1>3. ASSUME NEW d \in Devices, NEW to \in Devices, Move(d, to) PROVE Agreement'
  BY <1>3, MoveAgrees
<1>4. ASSUME NEW also \in BOOLEAN, Delete(also) PROVE Agreement'
  BY <1>4 DEF Delete, Agreement
<1>5. ASSUME NEW d \in Devices, Handshake(d) \/ Info(d) PROVE Agreement'
  BY <1>1, <1>5 DEF Handshake, Info, Tell, terminalVars
<1>6. ASSUME NEW d \in Devices, NEW what, PushBiometrics(d) \/ Clear(d, what) \/ EraseAt(d)
      PROVE  Agreement'
  <2>1. ASSUME NEW x \in links' \ crossed'
        PROVE  InStep(x)'
    <3>1. x # d /\ x \in Devices /\ x \in links \ crossed
      BY <1>6, <2>1 DEF PushBiometrics, Clear, EraseAt, serverVars, Types, ServerTypes
    <3>2. queue'[x] = queue[x] /\ reports'[x] = reports[x] /\ user'[x] = user[x] /\ row' = row
      BY <1>6, <3>1
      DEF PushBiometrics, Clear, EraseAt, Forget, serverVars, terminalVars, Types, LineTypes,
          TerminalTypes
    <3> QED  BY <3>1, <3>2, StaysInStep DEF Agreement
  <2> QED  BY <2>1 DEF Agreement
<1>7. ASSUME NEW d \in Devices, QueryUsers(d) PROVE Agreement'
  BY <1>7, QueryAgrees
<1>8. ASSUME NEW d \in Devices, NEW i \in DOMAIN queue[d], Execute(d, i) PROVE Agreement'
  BY <1>8, ExecuteAgrees
<1>9. ASSUME NEW d \in Devices, NEW i \in DOMAIN queue[d], Lose(d, i) PROVE Agreement'
  BY <1>9, LoseAgrees
<1>10. ASSUME NEW d \in Devices, ChangeAt(d) PROVE Agreement'
  BY <1>10, ChangeAtAgrees
<1>11. ASSUME NEW d \in Devices, NEW i \in DOMAIN reports[d], Ingest(d, i) PROVE Agreement'
  BY <1>11, IngestAgrees
<1>12. CASE UNCHANGED vars
  BY <1>1, <1>12 DEF vars, serverVars, terminalVars
<1> QED  BY <1>2, <1>3, <1>4, <1>5, <1>6, <1>7, <1>8, <1>9, <1>10, <1>11, <1>12
         DEF Next, PushesTo

-----------------------------------------------------------------------------
(* What follows                                                            *)

\* Nothing was captured at first.
LEMMA InitCaptured == Init => Captured
  BY DEF Init, Captured, QueuedIsCaptured, ReportedIsCaptured, FingersKept, AsCaptured, Empty

\* No line but those of the dialogue between the dashboard and the terminals is ever on its
\* way, no terminal holds anything but a user and templates, and the row is of a member.
THEOREM TypesInvariant == Spec => [](Types /\ Captured)
<1>1. Init => Types /\ Captured
  BY InitTypes, InitCaptured
<1>2. Types /\ Captured /\ [Next]_vars => Types' /\ Captured'
  BY TypesKept, CapturedKept
<1> QED  BY <1>1, <1>2, PTL DEF Spec

\* Every variable keeps its type.
THEOREM TypeCorrect == Spec => []TypeOK
<1>1. Types => TypeOK
  BY OnTerminalIsProfile
  DEF Types, ServerTypes, TerminalTypes, GhostTypes, TypeOK
<1> QED  BY <1>1, TypesInvariant, PTL

\* Whatever terminals report, copy to each other and clear, in whatever order reports are
\* worked on: a template is of the finger it was captured from (parseBioRecords,
\* buildPushFingerprint, buildPushFace, buildPushPalm, buildPushPhoto).
THEOREM FingersAreKept == Spec => []FingersKept
<1>1. Captured => FingersKept
  BY DEF Captured
<1> QED  BY <1>1, TypesInvariant, PTL

\* Given the marks tell the firmwares apart, a terminal only refuses lines of calls that read
\* its family before it had told what it is, whenever they were queued and taken
\* (detectFirmwareFamily, pickCommand).
THEOREM OnlyUnknownIsRefused ==
    ASSUME MarksTell
    PROVE  Spec => []RefusedOnlyUnknown
<1>1. Init => Dialect
  BY DEF Init, Dialect, FamilyIsRight, Right, QueuedIsRight, RefusedOnlyUnknown
<1>2. Types /\ Captured /\ Dialect /\ [Next]_vars => Dialect'
  BY DialectKept
<1>3. Dialect => RefusedOnlyUnknown
  BY DEF Dialect
<1> QED  BY <1>1, <1>2, <1>3, TypesInvariant, PTL DEF Spec

\* Once nothing is under way, a linked terminal says of the member what the dashboard says, in
\* whatever dialect it was told, through removals and PINs given out again: but for one that,
\* since its last push into quiet, was left out of a change, lost, refused or took a command
\* out of turn, had a push and a report cross, or was cleared or edited as AgreeUnlessCrossed
\* names (addUser, parseUserRows, ingestOperlog).
THEOREM TerminalsAgree == Spec => []AgreeUnlessCrossed
<1>1. Init => Agreement
  BY DEF Init, Agreement
<1>2. Types /\ Captured /\ Agreement /\ [Next]_vars => Agreement'
  BY AgreementKept
<1>3. Agreement => AgreeUnlessCrossed
  BY DEF Agreement, InStep, Pushed, Told, Telling, AgreeUnlessCrossed, Idle
<1> QED  BY <1>1, <1>2, <1>3, TypesInvariant, PTL DEF Spec
=============================================================================
