------------------------- MODULE MemberRoster_proofs -------------------------
(***************************************************************************)
(* What MemberRoster keeps for any members, devices and open operations,   *)
(* however they overlap and wherever they fail.                            *)
(***************************************************************************)
EXTENDS MemberRoster, TLAPS

\* What an open operation may rely on.  Ids never come back, so an id it
\* read stays used; what it pushed stays pushed; and the template it stored
\* is there as long as the member.
Fits(r) ==
    /\ r.who \in born \cup {None}
    /\ r.at \notin {"idle", "next", "byExternal", "byPin", "upsert"} => r.who \in Members
    /\ r.at \in {"byExternal", "byPin", "upsert"} => r.pin \in Pins /\ r.cmd \in Profiles
    /\ r.at = "write" => r.cmd \in Profiles
    /\ r.kind \in LinkingKinds => r.cmd # Gone
    /\ r.at = "link" => r.dev \in Devices /\ r.kind \in LinkingKinds
                        /\ <<r.who, r.dev>> \in pushed
    /\ r.at = "flag" => r.who \notin Rows \ template

\* TypeOK without op, with a profile in every row, and the two relations
\* between tables that the properties are about.
RowsOK ==
    /\ born \subseteq Members
    /\ pin \in [Members -> Pins \cup {None}]
    /\ profile \in [Members -> Profiles \cup {None}]
    /\ external \in [Members -> Externals \cup {None}]
    /\ Rows \subseteq born
    /\ \A m, n \in Rows : pin[m] = pin[n] => m = n
    /\ \A m \in Rows : profile[m] \in Profiles

LinksOK == links \subseteq Rows \X Devices /\ pushed \subseteq Members \X Devices
           /\ links \subseteq pushed

BioOK == template \subseteq Rows /\ flag \subseteq template

RestOK == newest \in [Devices -> [Pins -> Commands \cup {None}]] /\ online \subseteq Devices
          /\ calm \in BOOLEAN /\ spent \in 0 .. Budget

OpsOK == \A o \in Ops : Fits(op[o])

OpsAreFunction == op \in [Ops -> Operation]

IInv == RowsOK /\ LinksOK /\ BioOK /\ RestOK /\ OpsAreFunction /\ OpsOK

\* What every step leaves the operations it does not belong to.
Keeps ==
    /\ born \subseteq born' /\ pushed \subseteq pushed'
    /\ Rows' \cap born \subseteq Rows
    /\ template \cap Rows' \subseteq template'

-----------------------------------------------------------------------------
LEMMA IdleFits == Idle \in Operation /\ Fits(Idle)
BY RosterAssumption DEF Idle, Operation, Places, Kinds, Fits, LinkingKinds

LEMMA IdleFitsNext == ASSUME TRUE PROVE Fits(Idle)'
BY RosterAssumption DEF Idle, Operation, Places, Kinds, Fits, LinkingKinds

LEMMA OthersStay ==
    ASSUME Keeps, NEW r \in Operation, Fits(r)
    PROVE  Fits(r)'
<1>1. None \notin Rows'
  BY RosterAssumption DEF Rows
<1> QED  BY <1>1 DEF Keeps, Fits

\* One operation takes a step.
LEMMA OneMoves ==
    ASSUME OpsAreFunction, OpsOK, Keeps, NEW o \in Ops, NEW r \in Operation, Fits(r)',
           op' = [op EXCEPT ![o] = r]
    PROVE  OpsAreFunction' /\ OpsOK'
<1>1. op' \in [Ops -> Operation]
  BY DEF OpsAreFunction
<1>2. ASSUME NEW q \in Ops
      PROVE  Fits(op[q])'
  <2>1. PICK s \in Operation : s = op'[q]
    BY <1>1
  <2>2. Fits(s)'
    <3>1. CASE q = o
      BY <2>1, <3>1 DEF OpsAreFunction
    <3>2. CASE q # o
      <4>1. s = op[q] /\ Fits(s)
        BY <2>1, <3>2 DEF OpsAreFunction, OpsOK
      <4> QED  BY <4>1, OthersStay
    <3> QED  BY <3>1, <3>2
  <2> QED  BY <2>1, <2>2 DEF Fits
<1> QED  BY <1>1, <1>2 DEF OpsAreFunction, OpsOK

-----------------------------------------------------------------------------
(* Effects on the rows.                                                    *)

\* A new row takes an id nobody had and a PIN nobody has.
LEMMA NewRowEffect ==
    ASSUME RowsOK, NEW m \in Members, NEW p \in Pins, NEW f \in Profiles,
           NEW e \in Externals \cup {None}, NewRow(m, p, f, e)
    PROVE  RowsOK' /\ Rows' = Rows \cup {m} /\ m \notin born /\ born' = born \cup {m}
<1> USE RosterAssumption DEF NewRow
<1>1. Rows' = Rows \cup {m} /\ m \notin Rows
  BY DEF Rows, RowsOK
<1>2. born' \subseteq Members /\ Rows' \subseteq born'
  BY <1>1 DEF RowsOK
<1>3. /\ pin' \in [Members -> Pins \cup {None}]
      /\ profile' \in [Members -> Profiles \cup {None}]
      /\ external' \in [Members -> Externals \cup {None}]
  BY DEF RowsOK
<1>4. \A n \in Rows : n # m /\ n \in Members /\ pin'[n] = pin[n] /\ pin[n] # p /\ profile'[n] = profile[n]
  BY <1>1 DEF RowsOK, Rows, Taken
<1>5. pin'[m] = p /\ profile'[m] = f
  BY DEF RowsOK
<1>6. \A a, b \in Rows' : pin'[a] = pin'[b] => a = b
  BY <1>1, <1>4, <1>5 DEF RowsOK
<1>7. \A a \in Rows' : profile'[a] \in Profiles
  BY <1>1, <1>4, <1>5 DEF RowsOK
<1> QED  BY <1>1, <1>2, <1>3, <1>6, <1>7 DEF RowsOK

\* A new profile for a row.
LEMMA ProfileEffect ==
    ASSUME RowsOK, NEW m \in Rows, NEW f \in Profiles, UNCHANGED <<born, pin, external>>,
           profile' = [profile EXCEPT ![m] = f]
    PROVE  RowsOK' /\ Rows' = Rows
<1>1. Rows' = Rows /\ m \in Members
  BY DEF Rows
<1>2. profile' \in [Members -> Profiles \cup {None}]
  BY <1>1 DEF RowsOK
<1>3. \A a \in Rows' : profile'[a] \in Profiles
  BY <1>1 DEF RowsOK, Rows
<1> QED  BY <1>1, <1>2, <1>3 DEF RowsOK

\* UPDATE ... SET of an upsert: the PIN is nobody else's.
LEMMA UpdateEffect ==
    ASSUME RowsOK, NEW m \in Rows, NEW p \in Pins, NEW f \in Profiles,
           NEW e \in Externals \cup {None}, ~Taken(p, Rows \ {m}), born' = born,
           pin' = [pin EXCEPT ![m] = p], profile' = [profile EXCEPT ![m] = f],
           external' = [external EXCEPT ![m] = e]
    PROVE  RowsOK' /\ Rows' = Rows
<1> USE RosterAssumption
<1>1. Rows' = Rows /\ m \in Members
  BY DEF Rows, RowsOK
<1>2. /\ pin' \in [Members -> Pins \cup {None}]
      /\ profile' \in [Members -> Profiles \cup {None}]
      /\ external' \in [Members -> Externals \cup {None}]
  BY <1>1 DEF RowsOK
<1>3. \A n \in Rows \ {m} : pin'[n] = pin[n] /\ pin[n] # p /\ profile'[n] = profile[n]
  BY <1>1 DEF RowsOK, Rows, Taken
<1>4. pin'[m] = p /\ profile'[m] = f
  BY <1>1 DEF RowsOK
<1>5. \A a, b \in Rows' : pin'[a] = pin'[b] => a = b
  BY <1>1, <1>3, <1>4 DEF RowsOK
<1>6. \A a \in Rows' : profile'[a] \in Profiles
  BY <1>1, <1>3, <1>4 DEF RowsOK
<1> QED  BY <1>1, <1>2, <1>5, <1>6 DEF RowsOK

-----------------------------------------------------------------------------
(* Steps that change no table.                                             *)

LEMMA OpOnly ==
    ASSUME IInv, UNCHANGED <<rowVars, links, bioVars, commandVars, online>>,
           calm' \in BOOLEAN, spent' \in 0 .. Budget,
           NEW o \in Ops, NEW r \in Operation, Fits(r), op' = [op EXCEPT ![o] = r]
    PROVE  IInv'
<1> USE DEF rowVars, bioVars, commandVars
<1>1. Rows' = Rows
  BY DEF Rows
<1>2. RowsOK' /\ LinksOK' /\ BioOK' /\ RestOK'
  BY <1>1 DEF IInv, RowsOK, LinksOK, BioOK, RestOK
<1>3. Keeps
  BY <1>1 DEF Keeps
<1>4. Fits(r)'
  BY <1>3, OthersStay
<1> QED  BY <1>2, <1>3, <1>4, OneMoves DEF IInv

\* Operations begin.
LEMMA StartKeeps ==
    ASSUME IInv, NEW o \in Ops, NEW m \in Members,
           \/ \E f \in Profiles : StartUpdate(o, m, f)
           \/ StartPush(o, m) \/ StartDelete(o, m) \/ StartRecord(o, m)
           \/ \E ds \in Targets : StartBiometrics(o, m, ds)
           \/ \E c, d \in Devices : StartTransfer(o, m, c, d)
    PROVE  IInv'
<1> USE RosterAssumption DEF LinkingKinds
<1>0. m \in Rows
  BY DEF StartUpdate, StartPush, StartDelete, StartRecord, StartBiometrics, StartTransfer
<1>1. /\ m \in Rows /\ m \in born /\ m # None
      /\ pin[m] \in Pins \cup {None} /\ profile[m] \in Profiles /\ profile[m] # Gone
      /\ plain[profile[m]] \in Profiles /\ plain[profile[m]] # Gone
  BY <1>0 DEF IInv, RowsOK
<1>2. spent \in 0 .. Budget /\ calm \in BOOLEAN
  BY DEF IInv, RestOK
<1>3. ASSUME NEW r \in Operation, Fits(r), Begin(o, r),
             UNCHANGED <<rowVars, links, bioVars, commandVars, online, spent>>
      PROVE  IInv'
  <2>1. calm' \in BOOLEAN
    BY <1>2, <1>3 DEF Begin
  <2> QED  BY <1>2, <1>3, <2>1, OpOnly DEF Begin
<1>4. ASSUME NEW f \in Profiles, StartUpdate(o, m, f)
      PROVE  IInv'
  <2> DEFINE r == [Idle EXCEPT !.at = "write", !.kind = "update", !.who = m, !.cmd = f]
  <2>1. r \in Operation /\ Fits(r)
    BY <1>1 DEF Idle, Operation, Places, Kinds, Commands, Fits
  <2> QED  BY <1>3, <1>4, <2>1 DEF StartUpdate
<1>5. CASE StartPush(o, m)
  <2> DEFINE r == [Idle EXCEPT !.at = "links", !.kind = "push", !.who = m, !.pin = pin[m],
                               !.cmd = profile[m]]
  <2>1. r \in Operation /\ Fits(r)
    BY <1>1 DEF Idle, Operation, Places, Kinds, Commands, Fits
  <2> QED  BY <1>3, <1>5, <2>1 DEF StartPush
<1>6. CASE StartDelete(o, m)
  <2> DEFINE r == [Idle EXCEPT !.at = "links", !.kind = "delete", !.who = m, !.pin = pin[m],
                               !.cmd = Gone]
  <2>1. r \in Operation /\ Fits(r)
    BY <1>1 DEF Idle, Operation, Places, Kinds, Commands, Fits
  <2> QED  BY <1>3, <1>6, <2>1 DEF StartDelete
<1>7. CASE StartRecord(o, m)
  <2> DEFINE r == [Idle EXCEPT !.at = "template", !.kind = "record", !.who = m, !.pin = pin[m]]
  <2>1. r \in Operation /\ Fits(r)
    BY <1>1 DEF Idle, Operation, Places, Kinds, Commands, Fits
  <2> QED  BY <1>3, <1>7, <2>1 DEF StartRecord
<1>8. ASSUME NEW ds \in Targets, StartBiometrics(o, m, ds)
      PROVE  IInv'
  <2> DEFINE r == [Idle EXCEPT !.at = "templates", !.kind = "biometrics", !.who = m,
                               !.pin = pin[m], !.cmd = plain[profile[m]], !.todo = ds]
  <2>1. r \in Operation /\ Fits(r)
    BY <1>1 DEF Idle, Operation, Places, Kinds, Commands, Fits, Targets
  <2> QED  BY <1>3, <1>8, <2>1 DEF StartBiometrics
<1>9. ASSUME NEW c \in Devices, NEW d \in Devices, StartTransfer(o, m, c, d)
      PROVE  IInv'
  <2>1. PICK k \in {"move", "copy"} :
            Begin(o, [Idle EXCEPT !.at = "push", !.kind = k, !.who = m, !.pin = pin[m],
                                  !.cmd = profile[m], !.todo = {d}, !.from = c])
    BY <1>9 DEF StartTransfer
  <2> DEFINE r == [Idle EXCEPT !.at = "push", !.kind = k, !.who = m, !.pin = pin[m],
                               !.cmd = profile[m], !.todo = {d}, !.from = c]
  <2>2. r \in Operation /\ Fits(r)
    BY <1>1 DEF Idle, Operation, Places, Kinds, Commands, Fits
  <2> QED  BY <1>3, <1>9, <2>1, <2>2 DEF StartTransfer
<1> QED  BY <1>4, <1>5, <1>6, <1>7, <1>8, <1>9

\* A loop goes on with its next member, or ends.
LEMMA LeaveKeeps ==
    ASSUME IInv, UNCHANGED <<rowVars, links, bioVars, commandVars, online>>,
           calm' \in BOOLEAN, spent' \in 0 .. Budget, NEW o \in Ops, Leave(o) \/ End(o)
    PROVE  IInv'
<1>1. CASE op' = [op EXCEPT ![o] = Idle]
  BY <1>1, IdleFits, OpOnly
<1>2. CASE op' = [op EXCEPT ![o] = [Idle EXCEPT !.at = "next", !.kind = "inbound",
                                                !.seen = op[o].seen]]
  <2> DEFINE r == [Idle EXCEPT !.at = "next", !.kind = "inbound", !.seen = op[o].seen]
  <2>1. op[o].seen \in SUBSET Devices
    BY DEF IInv, OpsAreFunction, Operation
  <2>2. r \in Operation /\ Fits(r)
    BY <2>1, RosterAssumption DEF Idle, Operation, Places, Kinds, Fits, LinkingKinds, IInv
  <2> QED  BY <1>2, <2>2, OpOnly
<1> QED  BY <1>1, <1>2 DEF Leave, End, Go

\* Operations read on.
LEMMA ReadsKeep ==
    ASSUME IInv, NEW o \in Ops,
           \/ ReadPin(o) \/ ReadLinks(o) \/ ReadTemplates(o) \/ FinishPush(o) \/ EndInbound(o)
           \/ FindByExternal(o) \/ FindByPin(o) \/ UpsertConflicts(o)
    PROVE  IInv'
<1>1. PICK r \in Operation : r = op[o] /\ Fits(r)
  BY DEF IInv, OpsAreFunction, OpsOK
<1>2. spent \in 0 .. Budget /\ calm \in BOOLEAN
  BY DEF IInv, RestOK
<1>3. /\ UNCHANGED <<rowVars, links, bioVars, commandVars, online, spent>>
      /\ calm' \in BOOLEAN /\ spent' \in 0 .. Budget
  BY <1>2 DEF ReadPin, ReadLinks, ReadTemplates, FinishPush, EndInbound, FindByExternal, FindByPin,
              UpsertConflicts
<1>4. ASSUME NEW s \in Operation, Fits(s), Go(o, s)
      PROVE  IInv'
  BY <1>3, <1>4, OpOnly DEF Go
<1>5. CASE Leave(o) \/ End(o)
  BY <1>3, <1>5, LeaveKeeps
<1>6. CASE ReadPin(o)
  <2> DEFINE s == [r EXCEPT !.at = "links", !.pin = pin[r.who]]
  <2>1. r.at = "pin" /\ Go(o, s)
    BY <1>1, <1>6 DEF ReadPin
  <2>2. r.who \in Members /\ pin[r.who] \in Pins \cup {None}
    BY <1>1, <2>1 DEF IInv, RowsOK, Fits
  <2>3. s \in Operation
    BY <2>2 DEF Operation, Places
  <2>4. s.at = "links" /\ s.who = r.who /\ s.kind = r.kind /\ s.cmd = r.cmd
    BY DEF Operation
  <2>5. Fits(s)
    BY <1>1, <2>2, <2>4 DEF Fits
  <2> QED  BY <1>4, <2>1, <2>3, <2>5
<1>7. CASE ReadLinks(o)
  <2> DEFINE s == [r EXCEPT !.at = "push", !.todo = TargetDevices(r.who)]
  <2>1. r.at = "links" /\ Go(o, s)
    BY <1>1, <1>7 DEF ReadLinks
  <2>2. s \in Operation /\ Fits(s)
    BY <1>1, <2>1 DEF TargetDevices, Operation, Places, Fits
  <2> QED  BY <1>4, <2>1, <2>2
<1>8. CASE ReadTemplates(o)
  <2> DEFINE s == [r EXCEPT !.at = "push"]
  <2>1. r.at = "templates" /\ (Go(o, s) \/ End(o))
    BY <1>1, <1>8 DEF ReadTemplates
  <2>2. s \in Operation /\ Fits(s)
    BY <1>1, <2>1 DEF Operation, Places, Fits
  <2> QED  BY <1>4, <1>5, <2>1, <2>2
<1>9. ASSUME NEW m \in Rows, Go(o, [op[o] EXCEPT !.at = "upsert", !.who = m]),
             r.at \in {"byExternal", "byPin"}
      PROVE  IInv'
  <2> DEFINE s == [r EXCEPT !.at = "upsert", !.who = m]
  <2>1. s \in Operation /\ Fits(s)
    BY <1>1, <1>9 DEF IInv, RowsOK, Operation, Places, Fits
  <2> QED  BY <1>1, <1>4, <1>9, <2>1
<1>10. CASE FindByExternal(o)
  <2> DEFINE s == [r EXCEPT !.at = "byPin"]
  <2>1. r.at = "byExternal"
        /\ (Go(o, s) \/ \E m \in Rows : Go(o, [op[o] EXCEPT !.at = "upsert", !.who = m]))
    BY <1>1, <1>10 DEF FindByExternal
  <2>2. s \in Operation /\ Fits(s)
    BY <1>1, <2>1 DEF Operation, Places, Fits
  <2> QED  BY <1>4, <1>9, <2>1, <2>2
<1>11. CASE FindByPin(o)
  <2> DEFINE s == [r EXCEPT !.at = "upsert"]
  <2>1. /\ r.at = "byPin"
        /\ \/ Go(o, s) \/ Leave(o)
           \/ \E m \in Rows : Go(o, [op[o] EXCEPT !.at = "upsert", !.who = m])
    BY <1>1, <1>11 DEF FindByPin
  <2>2. s \in Operation /\ Fits(s)
    BY <1>1, <2>1 DEF Operation, Places, Fits
  <2> QED  BY <1>4, <1>5, <1>9, <2>1, <2>2
<1> QED  BY <1>5, <1>6, <1>7, <1>8, <1>10, <1>11 DEF FinishPush, EndInbound, UpsertConflicts

\* The inbound API takes its next member; a POST begins; a statement fails.
LEMMA InboundKeeps ==
    ASSUME IInv, NEW o \in Ops,
           \/ \E p \in Pins, f \in Profiles, e \in Externals \cup {None}, ds \in Targets :
                  NextMember(o, p, f, e, ds)
           \/ StartInbound(o) \/ OpFails(o)
    PROVE  IInv'
<1>1. PICK r \in Operation : r = op[o] /\ Fits(r)
  BY DEF IInv, OpsAreFunction, OpsOK
<1>2. spent \in 0 .. Budget /\ calm \in BOOLEAN /\ online \subseteq Devices /\ Budget \in Nat
  BY RosterAssumption DEF IInv, RestOK
<1>3. ASSUME NEW p \in Pins, NEW f \in Profiles, NEW e \in Externals \cup {None},
             NEW ds \in Targets, NextMember(o, p, f, e, ds)
      PROVE  IInv'
  <2>0. PICK w \in {"byPin", "byExternal"} : w = IF e = None THEN "byPin" ELSE "byExternal"
    OBVIOUS
  <2> DEFINE left == ds \cap r.seen
  <2>6. left \in SUBSET Devices
    BY DEF Targets
  <2> HIDE DEF left
  <2> DEFINE s == [r EXCEPT !.at = w, !.pin = p, !.cmd = f, !.external = e, !.todo = left]
  <2>1. r.at = "next" /\ op' = [op EXCEPT ![o] = s]
    BY <1>1, <1>3, <2>0 DEF NextMember, Go, left
  <2>2. s \in Operation
    BY <2>6 DEF Operation, Places, Commands
  <2>3. s.at \in {"byPin", "byExternal"} /\ s.pin = p /\ s.cmd = f /\ s.who = r.who
    BY DEF Operation
  <2>4. Fits(s)
    BY <1>1, <2>3, RosterAssumption DEF Fits
  <2>5. /\ calm' = calm /\ spent' = spent
        /\ UNCHANGED <<rowVars, links, bioVars, commandVars, online>>
    BY <1>3 DEF NextMember
  <2> HIDE DEF s
  <2> QED  BY <1>2, <2>1, <2>2, <2>4, <2>5, OpOnly
<1>4. CASE StartInbound(o)
  <2> DEFINE s == [Idle EXCEPT !.at = "next", !.kind = "inbound", !.seen = online]
  <2>1. s \in Operation
    BY <1>2 DEF Idle, Operation, Places, Kinds
  <2>2. s.at = "next" /\ s.who = None /\ s.cmd = None
    BY DEF Idle
  <2>3. Fits(s)
    BY <2>2, RosterAssumption DEF Fits
  <2>4. /\ calm' \in BOOLEAN /\ spent' = spent /\ op' = [op EXCEPT ![o] = s]
        /\ UNCHANGED <<rowVars, links, bioVars, commandVars, online>>
    BY <1>2, <1>4 DEF StartInbound, Begin
  <2> HIDE DEF s
  <2> QED  BY <1>2, <2>1, <2>3, <2>4, OpOnly
<1>5. CASE OpFails(o)
  <2>0. spent < Budget /\ spent' = spent + 1 /\ calm' = FALSE
    BY <1>5 DEF OpFails
  <2>1. spent' \in 0 .. Budget
    BY <1>2, <2>0
  <2>2. calm' \in BOOLEAN
    BY <2>0
  <2> QED  BY <1>5, <2>1, <2>2, LeaveKeeps DEF OpFails
<1> QED  BY <1>3, <1>4, <1>5

-----------------------------------------------------------------------------
(* Steps that change tables.                                               *)

\* A row comes, or the columns of one change, and no other table does.
LEMMA RowsMayGrow ==
    ASSUME IInv, RowsOK', Rows \subseteq Rows', born \subseteq born', Rows' \cap born \subseteq Rows,
           calm' \in BOOLEAN, UNCHANGED <<links, bioVars, commandVars, online, spent>>
    PROVE  LinksOK' /\ BioOK' /\ RestOK' /\ Keeps
<1> USE DEF IInv, bioVars, commandVars
<1>1. LinksOK' /\ BioOK'
  BY DEF LinksOK, BioOK
<1>2. RestOK'
  BY DEF RestOK
<1>3. Keeps
  BY DEF Keeps, BioOK
<1> QED  BY <1>1, <1>2, <1>3

LEMMA OpsUnmoved == ASSUME IInv, Keeps, UNCHANGED op PROVE OpsAreFunction' /\ OpsOK'
<1>1. ASSUME NEW q \in Ops
      PROVE  Fits(op[q])'
  <2>1. PICK s \in Operation : s = op[q] /\ Fits(s)
    BY DEF IInv, OpsAreFunction, OpsOK
  <2>2. Fits(s)'
    BY <2>1, OthersStay
  <2> QED  BY <2>1, <2>2 DEF Fits
<1> QED  BY <1>1 DEF IInv, OpsAreFunction, OpsOK

\* Rows that come without an operation.
LEMMA CreateKeeps ==
    ASSUME IInv, NEW p \in Pins, NEW f \in Profiles,
           (\E m \in Members : Create(m, p, f)) \/ Operlog(p, f)
    PROVE  IInv'
<1>1. calm' \in BOOLEAN /\ UNCHANGED <<links, bioVars, commandVars, online, op, spent>>
  BY DEF IInv, RestOK, Create, Operlog
<1>2. ASSUME NEW m \in Members, NewRow(m, p, f, None)
      PROVE  IInv'
  <2>1. RowsOK' /\ Rows' = Rows \cup {m} /\ m \notin born /\ born' = born \cup {m}
    BY <1>2, NewRowEffect DEF IInv
  <2>2. LinksOK' /\ BioOK' /\ RestOK' /\ Keeps
    BY <1>1, <2>1, RowsMayGrow
  <2> QED  BY <1>1, <2>1, <2>2, OpsUnmoved DEF IInv
<1>3. ASSUME NEW m \in Rows, profile' = [profile EXCEPT ![m] = f], UNCHANGED <<born, pin, external>>
      PROVE  IInv'
  <2>1. RowsOK' /\ Rows' = Rows
    BY <1>3, ProfileEffect DEF IInv
  <2>2. LinksOK' /\ BioOK' /\ RestOK' /\ Keeps
    BY <1>1, <1>3, <2>1, RowsMayGrow
  <2> QED  BY <1>1, <2>1, <2>2, OpsUnmoved DEF IInv
<1> QED  BY <1>2, <1>3 DEF Create, Operlog

LEMMA OnlineKeeps ==
    ASSUME IInv, NEW d \in Devices, SetOnline(d)
    PROVE  IInv'
<1> USE DEF IInv, SetOnline, rowVars, bioVars, commandVars
<1>1. Rows' = Rows
  BY DEF Rows
<1>2. RowsOK' /\ LinksOK' /\ BioOK'
  BY <1>1 DEF RowsOK, LinksOK, BioOK
<1>3. online' \subseteq Devices
  BY DEF RestOK
<1>4. RestOK'
  BY <1>3 DEF RestOK
<1>5. Keeps
  BY <1>1 DEF Keeps
<1> QED  BY <1>2, <1>4, <1>5, OpsUnmoved

\* Rows that come with the operation that brings them to terminals.
LEMMA EnrollKeeps ==
    ASSUME IInv, NEW o \in Ops, NEW m \in Members, NEW p \in Pins, NEW f \in Profiles,
           NEW ds \in Targets, Enroll(o, m, p, f, ds)
    PROVE  IInv'
<1> DEFINE s == [Idle EXCEPT !.at = "push", !.kind = "enroll", !.who = m, !.pin = p,
                             !.cmd = f, !.todo = ds]
<1>1. /\ NewRow(m, p, f, None) /\ op' = [op EXCEPT ![o] = s]
      /\ calm' \in BOOLEAN /\ UNCHANGED <<links, bioVars, commandVars, online, spent>>
  BY DEF Enroll, Begin, IInv, RestOK
<1>2. RowsOK' /\ Rows' = Rows \cup {m} /\ m \notin born /\ born' = born \cup {m}
  BY <1>1, NewRowEffect DEF IInv
<1>3. LinksOK' /\ BioOK' /\ RestOK' /\ Keeps
  BY <1>1, <1>2, RowsMayGrow
<1>4. s \in Operation
  BY DEF Idle, Operation, Places, Kinds, Commands, Targets
<1>5. s.at = "push" /\ s.who = m /\ s.cmd = f
  BY DEF Idle
<1> HIDE DEF s
<1>6. Fits(s)'
  BY <1>2, <1>5, RosterAssumption DEF Fits
<1> QED  BY <1>1, <1>2, <1>3, <1>4, <1>6, OneMoves DEF IInv

\* The two halves of the inbound upsert.
LEMMA InsertKeeps ==
    ASSUME IInv, NEW o \in Ops, NEW m \in Members, InsertMember(o, m)
    PROVE  IInv'
<1>1. PICK r \in Operation : r = op[o] /\ Fits(r)
  BY DEF IInv, OpsAreFunction, OpsOK
<1> DEFINE s == [r EXCEPT !.at = "push", !.who = m]
<1>2. /\ r.at = "upsert" /\ NewRow(m, r.pin, r.cmd, r.external) /\ op' = [op EXCEPT ![o] = s]
      /\ calm' \in BOOLEAN /\ UNCHANGED <<links, bioVars, commandVars, online, spent>>
  BY <1>1 DEF InsertMember, Go, IInv, RestOK
<1>3. r.pin \in Pins /\ r.cmd \in Profiles /\ r.external \in Externals \cup {None}
  BY <1>1, <1>2 DEF Fits, Operation
<1>4. RowsOK' /\ Rows' = Rows \cup {m} /\ m \notin born /\ born' = born \cup {m}
  BY <1>2, <1>3, NewRowEffect DEF IInv
<1>5. LinksOK' /\ BioOK' /\ RestOK' /\ Keeps
  BY <1>2, <1>4, RowsMayGrow
<1>6. s \in Operation
  BY DEF Operation, Places
<1>7. s.at = "push" /\ s.who = m /\ s.cmd \in Profiles
  BY <1>3 DEF Operation
<1> HIDE DEF s
<1>8. Fits(s)'
  BY <1>4, <1>7, RosterAssumption DEF Fits
<1> QED  BY <1>2, <1>4, <1>5, <1>6, <1>8, OneMoves DEF IInv

LEMMA UpdateKeeps ==
    ASSUME IInv, NEW o \in Ops, UpdateMember(o)
    PROVE  IInv'
<1>1. PICK r \in Operation : r = op[o] /\ Fits(r)
  BY DEF IInv, OpsAreFunction, OpsOK
<1> DEFINE s == [r EXCEPT !.at = "push"]
<1>2. /\ r.at = "upsert" /\ r.who # None /\ born' = born /\ op' = [op EXCEPT ![o] = s]
      /\ UNCHANGED <<links, bioVars, commandVars, online, spent>>
  BY <1>1 DEF UpdateMember, Go
<1>3. calm' \in BOOLEAN
  <2>1. calm' = (calm /\ pin[r.who] = r.pin)
    BY <1>1 DEF UpdateMember
  <2> QED  BY <2>1
<1>4. /\ r.pin \in Pins /\ r.cmd \in Profiles /\ r.external \in Externals \cup {None}
      /\ r.who \in Members /\ r.who \in born
  BY <1>1, <1>2 DEF Fits, Operation
<1>5. RowsOK' /\ Rows' = Rows
  <2>1. CASE r.who \in Rows
    <3>1. /\ ~Taken(r.pin, Rows \ {r.who})
          /\ pin' = [pin EXCEPT ![r.who] = r.pin] /\ profile' = [profile EXCEPT ![r.who] = r.cmd]
          /\ external' = [external EXCEPT ![r.who] = r.external]
      BY <1>1, <2>1 DEF UpdateMember
    <3> QED  BY <1>2, <1>4, <2>1, <3>1, UpdateEffect DEF IInv
  <2>2. CASE r.who \notin Rows
    <3>1. UNCHANGED <<born, pin, profile, external>>
      BY <1>1, <2>2 DEF UpdateMember
    <3> QED  BY <3>1 DEF IInv, RowsOK, Rows
  <2> QED  BY <2>1, <2>2
<1>6. LinksOK' /\ BioOK' /\ RestOK' /\ Keeps
  BY <1>2, <1>3, <1>5, RowsMayGrow
<1>7. s \in Operation
  BY DEF Operation, Places
<1>8. s.at = "push" /\ s.who = r.who /\ s.cmd = r.cmd
  BY DEF Operation
<1> HIDE DEF s
<1>9. Fits(s)'
  BY <1>2, <1>4, <1>8, RosterAssumption DEF Fits
<1> QED  BY <1>2, <1>5, <1>6, <1>7, <1>9, OneMoves DEF IInv

LEMMA WriteKeeps ==
    ASSUME IInv, NEW o \in Ops, WriteProfile(o)
    PROVE  IInv'
<1>1. PICK r \in Operation : r = op[o] /\ Fits(r)
  BY DEF IInv, OpsAreFunction, OpsOK
<1> DEFINE s == [r EXCEPT !.at = "pin"]
<1>2. /\ r.at = "write" /\ op' = [op EXCEPT ![o] = s] /\ calm' \in BOOLEAN
      /\ UNCHANGED <<born, pin, external>>
      /\ UNCHANGED <<links, bioVars, commandVars, online, spent>>
  BY <1>1 DEF WriteProfile, Go, IInv, RestOK
<1>3. r.cmd \in Profiles /\ r.who \in Members /\ r.who \in born
  BY <1>1, <1>2, RosterAssumption DEF Fits
<1>4. RowsOK' /\ Rows' = Rows
  <2>1. CASE r.who \in Rows
    <3>1. profile' = [profile EXCEPT ![r.who] = r.cmd]
      BY <1>1, <2>1 DEF WriteProfile
    <3> QED  BY <1>2, <1>3, <2>1, <3>1, ProfileEffect DEF IInv
  <2>2. CASE r.who \notin Rows
    <3>1. profile' = profile
      BY <1>1, <2>2 DEF WriteProfile
    <3> QED  BY <1>2, <3>1 DEF IInv, RowsOK, Rows
  <2> QED  BY <2>1, <2>2
<1>5. LinksOK' /\ BioOK' /\ RestOK' /\ Keeps
  BY <1>2, <1>4, RowsMayGrow
<1>6. s \in Operation
  BY DEF Operation, Places
<1>7. s.at = "pin" /\ s.who = r.who /\ s.kind = r.kind /\ s.cmd = r.cmd
  BY DEF Operation
<1> HIDE DEF s
<1>8. Fits(s)'
  BY <1>2, <1>3, <1>7, RosterAssumption DEF Fits
<1> QED  BY <1>2, <1>4, <1>5, <1>6, <1>8, OneMoves DEF IInv

\* A user command is queued, and what it adds counts as pushed.
LEMMA QueueKeeps ==
    ASSUME IInv, NEW o \in Ops, QueueNext(o)
    PROVE  IInv'
<1>1. PICK r \in Operation : r = op[o] /\ Fits(r)
  BY DEF IInv, OpsAreFunction, OpsOK
<1>2. PICK d \in r.todo :
          /\ newest' = [newest EXCEPT ![d][r.pin] = r.cmd]
          /\ pushed' = IF r.cmd = Gone THEN pushed ELSE pushed \cup {<<r.who, d>>}
          /\ op' = [op EXCEPT ![o] = IF r.kind \in LinkingKinds
                                     THEN [r EXCEPT !.at = "link", !.todo = @ \ {d}, !.dev = d]
                                     ELSE [r EXCEPT !.todo = @ \ {d}]]
  BY <1>1 DEF QueueNext, Go
<1>3. /\ r.at = "push" /\ calm' = calm
      /\ UNCHANGED <<rowVars, links, bioVars, online, spent>>
  BY <1>1 DEF QueueNext
<1>4. d \in Devices /\ r.who \in Members /\ r.cmd \in Commands \cup {None}
  BY <1>1, <1>2, <1>3 DEF Fits, Operation
<1>5. Rows' = Rows
  BY <1>3 DEF Rows, rowVars
<1>6. pushed \subseteq pushed' /\ pushed' \subseteq Members \X Devices
  BY <1>2, <1>4 DEF IInv, LinksOK
<1>7. newest' \in [Devices -> [Pins -> Commands \cup {None}]]
  BY <1>2, <1>4 DEF IInv, RestOK
<1>8. RowsOK' /\ LinksOK' /\ BioOK' /\ RestOK'
  BY <1>3, <1>5, <1>6, <1>7 DEF IInv, RowsOK, LinksOK, BioOK, RestOK, rowVars, bioVars
<1>9. Keeps
  BY <1>3, <1>5, <1>6 DEF Keeps, rowVars, bioVars
<1>10. CASE r.kind \in LinkingKinds
  <2> DEFINE s == [r EXCEPT !.at = "link", !.todo = @ \ {d}, !.dev = d]
  <2>1. s \in Operation
    BY <1>4 DEF Operation, Places
  <2>2. s.at = "link" /\ s.who = r.who /\ s.kind = r.kind /\ s.cmd = r.cmd /\ s.dev = d
    BY DEF Operation
  <2>3. <<r.who, d>> \in pushed'
    BY <1>1, <1>2, <1>10 DEF Fits
  <2>4. op' = [op EXCEPT ![o] = s]
    BY <1>2, <1>10
  <2> HIDE DEF s
  <2>5. r.who \in born'
    BY <1>1, <1>3, <1>4, RosterAssumption DEF Fits, rowVars
  <2>6. Fits(s)'
    BY <1>1, <1>4, <1>10, <2>2, <2>3, <2>5 DEF Fits
  <2> QED  BY <1>8, <1>9, <2>1, <2>4, <2>6, OneMoves DEF IInv
<1>11. CASE r.kind \notin LinkingKinds
  <2> DEFINE s == [r EXCEPT !.todo = @ \ {d}]
  <2>1. s \in Operation
    BY <1>4 DEF Operation
  <2>2. s.at = "push" /\ s.who = r.who /\ s.kind = r.kind /\ s.cmd = r.cmd
    BY <1>3 DEF Operation
  <2>3. op' = [op EXCEPT ![o] = s]
    BY <1>2, <1>11
  <2> HIDE DEF s
  <2>4. r.who \in born'
    BY <1>1, <1>3, <1>4, RosterAssumption DEF Fits, rowVars
  <2>5. Fits(s)'
    BY <1>1, <1>4, <1>11, <2>2, <2>4 DEF Fits
  <2> QED  BY <1>8, <1>9, <2>1, <2>3, <2>5, OneMoves DEF IInv
<1> QED  BY <1>10, <1>11

LEMMA RemovalKeeps ==
    ASSUME IInv, NEW o \in Ops, QueueRemoval(o)
    PROVE  IInv'
<1>1. PICK r \in Operation : r = op[o] /\ Fits(r)
  BY DEF IInv, OpsAreFunction, OpsOK
<1> DEFINE s == [r EXCEPT !.at = "unlink"]
<1>2. /\ r.at = "push" /\ op' = [op EXCEPT ![o] = s] /\ calm' = calm
      /\ newest' = [newest EXCEPT ![r.from][r.pin] = Gone]
      /\ UNCHANGED <<rowVars, links, bioVars, pushed, online, spent>>
  BY <1>1 DEF QueueRemoval, AllPushed, Go
<1>3. Rows' = Rows
  BY <1>2 DEF Rows, rowVars
<1>4. newest' \in [Devices -> [Pins -> Commands \cup {None}]]
  BY <1>2 DEF IInv, RestOK, Commands
<1>5. RowsOK' /\ LinksOK' /\ BioOK' /\ RestOK'
  BY <1>2, <1>3, <1>4 DEF IInv, RowsOK, LinksOK, BioOK, RestOK, rowVars, bioVars
<1>6. Keeps
  BY <1>2, <1>3 DEF Keeps, rowVars, bioVars
<1>7. s \in Operation
  BY DEF Operation, Places
<1>8. s.at = "unlink" /\ s.who = r.who /\ s.kind = r.kind /\ s.cmd = r.cmd
  BY DEF Operation
<1> HIDE DEF s
<1>9. Fits(s)'
  BY <1>1, <1>2, <1>8 DEF Fits, rowVars
<1> QED  BY <1>2, <1>5, <1>6, <1>7, <1>9, OneMoves DEF IInv

LEMMA LeaveOps ==
    ASSUME IInv, Keeps, NEW o \in Ops, Leave(o) \/ End(o)
    PROVE  OpsAreFunction' /\ OpsOK'
<1>1. CASE op' = [op EXCEPT ![o] = Idle]
  BY <1>1, IdleFits, IdleFitsNext, OneMoves DEF IInv
<1>2. CASE op' = [op EXCEPT ![o] = [Idle EXCEPT !.at = "next", !.kind = "inbound",
                                                !.seen = op[o].seen]]
  <2>1. PICK seen \in SUBSET Devices : seen = op[o].seen
    BY DEF IInv, OpsAreFunction, Operation
  <2> DEFINE r == [Idle EXCEPT !.at = "next", !.kind = "inbound", !.seen = seen]
  <2>2. r \in Operation
    BY <2>1, RosterAssumption DEF Idle, Operation, Places, Kinds
  <2>3. r.at = "next" /\ r.who = None /\ r.cmd = None
    BY DEF Idle
  <2>4. op' = [op EXCEPT ![o] = r]
    BY <1>2, <2>1
  <2> HIDE DEF r
  <2>5. Fits(r)'
    BY <2>3, RosterAssumption DEF Fits
  <2> QED  BY <2>2, <2>4, <2>5, OneMoves DEF IInv
<1> QED  BY <1>1, <1>2 DEF Leave, End, Go

\* The row the statement finds is the row the operation read.
LEMMA LinkKeeps ==
    ASSUME IInv, NEW o \in Ops, LinkDevice(o)
    PROVE  IInv'
<1>1. PICK r \in Operation : r = op[o] /\ Fits(r)
  BY DEF IInv, OpsAreFunction, OpsOK
<1> DEFINE s == [r EXCEPT !.at = "push", !.dev = None]
<1>2. /\ r.at = "link" /\ calm' = calm /\ links' = links \cup (StillThere(o) \X {r.dev})
      /\ op' = [op EXCEPT ![o] = s] \/ Leave(o)
      /\ UNCHANGED <<rowVars, bioVars, commandVars, online, spent>>
  BY <1>1 DEF LinkDevice, Go
<1>3. Rows' = Rows
  BY <1>2 DEF Rows, rowVars
<1>4. r.dev \in Devices /\ <<r.who, r.dev>> \in pushed /\ StillThere(o) = Rows \cap {r.who}
  BY <1>1, <1>2 DEF Fits, StillThere
<1>5. links' \subseteq Rows \X Devices /\ links' \subseteq pushed
  BY <1>2, <1>4 DEF IInv, LinksOK
<1>6. RowsOK' /\ LinksOK' /\ BioOK' /\ RestOK'
  BY <1>2, <1>3, <1>5 DEF IInv, RowsOK, LinksOK, BioOK, RestOK, rowVars, bioVars, commandVars
<1>7. Keeps
  BY <1>2, <1>3 DEF Keeps, rowVars, bioVars, commandVars
<1>8. s \in Operation
  BY DEF Operation, Places
<1>9. s.at = "push" /\ s.who = r.who /\ s.kind = r.kind /\ s.cmd = r.cmd
  BY DEF Operation
<1>10. CASE op' = [op EXCEPT ![o] = s]
  <2> HIDE DEF s
  <2>1. Fits(s)'
    BY <1>1, <1>2, <1>9 DEF Fits, rowVars
  <2> QED  BY <1>6, <1>7, <1>8, <1>10, <2>1, OneMoves DEF IInv
<1>11. CASE Leave(o)
  BY <1>6, <1>7, <1>11, LeaveOps DEF IInv
<1> QED  BY <1>2, <1>10, <1>11

LEMMA UnlinkKeeps ==
    ASSUME IInv, NEW o \in Ops, Unlink(o)
    PROVE  IInv'
<1>1. /\ End(o) /\ calm' = calm /\ links' \subseteq links
      /\ UNCHANGED <<rowVars, bioVars, commandVars, online, spent>>
  BY DEF Unlink, DropLink
<1>2. Rows' = Rows
  BY <1>1 DEF Rows, rowVars
<1>3. RowsOK' /\ LinksOK' /\ BioOK' /\ RestOK'
  BY <1>1, <1>2 DEF IInv, RowsOK, LinksOK, BioOK, RestOK, rowVars, bioVars, commandVars
<1>4. Keeps
  BY <1>1, <1>2 DEF Keeps, rowVars, bioVars, commandVars
<1> QED  BY <1>1, <1>3, <1>4, LeaveOps DEF IInv

\* The foreign keys leave nothing of the row, and nobody else loses one.
LEMMA DeleteKeeps ==
    ASSUME IInv, NEW o \in Ops, DeleteRow(o)
    PROVE  IInv'
<1>1. PICK r \in Operation : r = op[o] /\ Fits(r)
  BY DEF IInv, OpsAreFunction, OpsOK
<1>2. /\ r.at = "push" /\ calm' = calm /\ End(o)
      /\ pin' = [pin EXCEPT ![r.who] = None] /\ profile' = [profile EXCEPT ![r.who] = None]
      /\ external' = [external EXCEPT ![r.who] = None]
      /\ links' = {l \in links : l[1] # r.who}
      /\ template' = template \ {r.who} /\ flag' = flag \ {r.who}
      /\ UNCHANGED <<born, commandVars, online, spent>>
  BY <1>1 DEF DeleteRow, AllPushed
<1>3. r.who \in Members
  BY <1>1, <1>2 DEF Fits
<1>4. Rows' = Rows \ {r.who}
  BY <1>2, <1>3 DEF Rows, IInv, RowsOK
<1>5. /\ pin' \in [Members -> Pins \cup {None}]
      /\ profile' \in [Members -> Profiles \cup {None}]
      /\ external' \in [Members -> Externals \cup {None}]
  BY <1>2 DEF IInv, RowsOK
<1>6. \A n \in Rows' : n \in Rows /\ pin'[n] = pin[n] /\ profile'[n] = profile[n]
  BY <1>2, <1>4 DEF IInv, RowsOK, Rows
<1>7. RowsOK'
  <2>1. \A a, b \in Rows' : pin'[a] = pin'[b] => a = b
    BY <1>6 DEF IInv, RowsOK
  <2>2. \A a \in Rows' : profile'[a] \in Profiles
    BY <1>6 DEF IInv, RowsOK
  <2>3. born' \subseteq Members /\ Rows' \subseteq born'
    BY <1>2, <1>4 DEF IInv, RowsOK
  <2> QED  BY <1>5, <2>1, <2>2, <2>3 DEF RowsOK
<1>8. LinksOK'
  <2>1. links' \subseteq Rows' \X Devices
    BY <1>2, <1>4 DEF IInv, LinksOK
  <2> QED  BY <1>2, <2>1 DEF IInv, LinksOK, commandVars
<1>9. BioOK' /\ RestOK'
  BY <1>2, <1>4 DEF IInv, BioOK, RestOK, commandVars
<1>10. Keeps
  BY <1>2, <1>4 DEF Keeps, commandVars
<1> QED  BY <1>2, <1>7, <1>8, <1>9, <1>10, LeaveOps DEF IInv

LEMMA StoreKeeps ==
    ASSUME IInv, NEW o \in Ops, StoreTemplate(o)
    PROVE  IInv'
<1>1. PICK r \in Operation : r = op[o] /\ Fits(r)
  BY DEF IInv, OpsAreFunction, OpsOK
<1> DEFINE s == [r EXCEPT !.at = "flag"]
<1>2. /\ r.at = "template" /\ calm' = calm /\ template' = template \cup (Rows \cap {r.who})
      /\ op' = [op EXCEPT ![o] = s] \/ End(o)
      /\ UNCHANGED <<rowVars, links, flag, commandVars, online, spent>>
  BY <1>1 DEF StoreTemplate, StillThere, Go
<1>3. Rows' = Rows
  BY <1>2 DEF Rows, rowVars
<1>4. RowsOK' /\ LinksOK' /\ BioOK' /\ RestOK'
  BY <1>2, <1>3 DEF IInv, RowsOK, LinksOK, BioOK, RestOK, rowVars, commandVars
<1>5. Keeps
  BY <1>2, <1>3 DEF Keeps, rowVars, commandVars
<1>6. s \in Operation
  BY DEF Operation, Places
<1>7. s.at = "flag" /\ s.who = r.who /\ s.kind = r.kind /\ s.cmd = r.cmd
  BY DEF Operation
<1>8. CASE op' = [op EXCEPT ![o] = s]
  <2> HIDE DEF s
  <2>1. r.who \notin Rows' \ template'
    BY <1>2, <1>3
  <2>2. Fits(s)'
    BY <1>1, <1>2, <1>7, <2>1 DEF Fits, rowVars
  <2> QED  BY <1>4, <1>5, <1>6, <1>8, <2>2, OneMoves DEF IInv
<1>9. CASE End(o)
  BY <1>4, <1>5, <1>9, LeaveOps DEF IInv
<1> QED  BY <1>2, <1>8, <1>9

LEMMA FlagKeeps ==
    ASSUME IInv, NEW o \in Ops, SetFlag(o)
    PROVE  IInv'
<1>1. PICK r \in Operation : r = op[o] /\ Fits(r)
  BY DEF IInv, OpsAreFunction, OpsOK
<1>2. /\ r.at = "flag" /\ calm' = calm /\ flag' = flag \cup (Rows \cap {r.who}) /\ End(o)
      /\ UNCHANGED <<rowVars, links, template, commandVars, online, spent>>
  BY <1>1 DEF SetFlag, StillThere
<1>3. Rows' = Rows
  BY <1>2 DEF Rows, rowVars
<1>4. r.who \notin Rows \ template
  BY <1>1, <1>2 DEF Fits
<1>5. RowsOK' /\ LinksOK' /\ BioOK' /\ RestOK'
  BY <1>2, <1>3, <1>4 DEF IInv, RowsOK, LinksOK, BioOK, RestOK, rowVars, commandVars
<1>6. Keeps
  BY <1>2, <1>3 DEF Keeps, rowVars, commandVars
<1> QED  BY <1>2, <1>5, <1>6, LeaveOps DEF IInv

-----------------------------------------------------------------------------
\* What happens at the terminals.
TerminalStep ==
    \E d \in Devices, p \in Pins : Take(d, p) \/ Lose(d, p) \/ EditThere(d, p)

LEMMA TerminalEffect ==
    ASSUME TerminalStep
    PROVE  UNCHANGED <<rowVars, links, bioVars, newest, pushed, online, op, calm, spent>>
BY DEF TerminalStep, Take, Lose, EditThere

LEMMA TerminalsKeep ==
    ASSUME IInv, UNCHANGED <<rowVars, links, bioVars, newest, pushed, online, op, calm, spent>>
    PROVE  IInv'
<1> USE DEF rowVars, bioVars, IInv
<1>1. Rows' = Rows
  BY DEF Rows
<1>2. RowsOK' /\ LinksOK' /\ BioOK' /\ RestOK'
  BY <1>1 DEF RowsOK, LinksOK, BioOK, RestOK
<1>3. Keeps
  BY <1>1 DEF Keeps
<1> QED  BY <1>2, <1>3, OpsUnmoved

LEMMA Initially == Init => IInv
<1> SUFFICES ASSUME Init
             PROVE  IInv
  OBVIOUS
<1> USE RosterAssumption DEF Init
<1>1. Rows = {}
  BY DEF Rows
<1>2. RowsOK
  BY <1>1 DEF RowsOK
<1>3. LinksOK /\ BioOK
  BY <1>1 DEF LinksOK, BioOK
<1>4. RestOK
  BY DEF RestOK
<1>5. OpsAreFunction /\ OpsOK
  BY IdleFits DEF OpsAreFunction, OpsOK
<1> QED  BY <1>2, <1>3, <1>4, <1>5 DEF IInv

LEMMA Invariance == Spec => []IInv
<1>1. ASSUME IInv, [Next]_vars
      PROVE  IInv'
  <2>1. ASSUME NEW o \in Ops, Start(o)
        PROVE  IInv'
    BY <1>1, <2>1, StartKeeps, EnrollKeeps, InboundKeeps DEF Start
  <2>2. ASSUME NEW o \in Ops, Continue(o)
        PROVE  IInv'
    BY <1>1, <2>2, WriteKeeps, ReadsKeep, QueueKeeps, LinkKeeps, DeleteKeeps, RemovalKeeps,
       UnlinkKeeps, StoreKeeps, FlagKeeps, InboundKeeps, InsertKeeps, UpdateKeeps DEF Continue
  <2>3. ASSUME NEW o \in Ops, OpFails(o)
        PROVE  IInv'
    BY <1>1, <2>3, InboundKeeps
  <2>4. CASE UNCHANGED vars
    BY <1>1, <2>4, TerminalsKeep DEF vars, commandVars
  <2>5. CASE TerminalStep
    BY <1>1, <2>5, TerminalEffect, TerminalsKeep
  <2> QED  BY <1>1, <2>1, <2>2, <2>3, <2>4, <2>5, CreateKeeps, OnlineKeeps DEF Next, TerminalStep
<1>2. IInv /\ [Next]_vars => IInv'
  BY <1>1
<1> QED  BY <1>2, Initially, PTL DEF Spec

-----------------------------------------------------------------------------
(* The terminals' own tables.                                              *)

\* A terminal that has had all it was queued for a PIN, and whose user nobody
\* edited there, holds what the newest command says.
TablesOK ==
    /\ holds \in [Devices -> [Pins -> Profiles \cup {None}]]
    /\ owed \cup strayed \subseteq (Devices \cup {None}) \X (Pins \cup {None})
    /\ \A d \in Devices, p \in Pins : Settled(d, p) => holds[d][p] = Made(newest[d][p])

\* A command queued for a PIN leaves the terminal owing.
LEMMA QueuedIsOwed ==
    ASSUME IInv, TablesOK, NEW d \in Devices \cup {None}, NEW p \in Pins \cup {None}, NEW c,
           newest' = [newest EXCEPT ![d][p] = c], owed' = owed \cup {<<d, p>>},
           UNCHANGED <<holds, strayed>>
    PROVE  TablesOK'
<1>1. newest \in [Devices -> [Pins -> Commands \cup {None}]]
  BY DEF IInv, RestOK
<1>2. ASSUME NEW e \in Devices, NEW q \in Pins, Settled(e, q)'
      PROVE  holds'[e][q] = Made(newest'[e][q])
  <2>1. Settled(e, q) /\ <<e, q>> # <<d, p>>
    BY <1>2 DEF Settled
  <2>2. newest'[e][q] = newest[e][q]
    BY <1>1, <2>1
  <2> QED  BY <2>1, <2>2 DEF TablesOK
<1>3. (owed \cup strayed)' \subseteq (Devices \cup {None}) \X (Pins \cup {None})
  BY DEF TablesOK
<1>4. \A e \in Devices, q \in Pins : Settled(e, q)' => holds'[e][q] = Made(newest'[e][q])
  BY <1>2
<1> QED  BY <1>3, <1>4 DEF TablesOK, Made

\* What the terminals do.
LEMMA TerminalTables ==
    ASSUME TablesOK, NEW d \in Devices, NEW p \in Pins,
           Take(d, p) \/ Lose(d, p) \/ EditThere(d, p)
    PROVE  TablesOK'
<1>1. CASE Take(d, p)
  <2>1. Made(newest[d][p]) \in Profiles \cup {None} /\ UNCHANGED newest
    BY <1>1 DEF Take, Made
  <2>2. holds' \in [Devices -> [Pins -> Profiles \cup {None}]]
    BY <1>1, <2>1 DEF Take, TablesOK
  <2>3. holds'[d][p] = Made(newest[d][p])
    BY <1>1 DEF Take, TablesOK
  <2>4. ASSUME NEW e \in Devices, NEW q \in Pins, <<e, q>> # <<d, p>>, Settled(e, q)'
        PROVE  holds'[e][q] = Made(newest[e][q])
    <3>1. holds'[e][q] = holds[e][q]
      BY <1>1, <2>4 DEF Take, TablesOK
    <3>2. Settled(e, q)
      BY <1>1, <2>4 DEF Take, Settled
    <3> QED  BY <3>1, <3>2 DEF TablesOK
  <2>5. (owed \cup strayed)' \subseteq (Devices \cup {None}) \X (Pins \cup {None})
    BY <1>1 DEF Take, TablesOK
  <2>6. \A e \in Devices, q \in Pins : Settled(e, q)' => holds'[e][q] = Made(newest[e][q])
    BY <2>3, <2>4
  <2> QED  BY <2>1, <2>2, <2>5, <2>6 DEF TablesOK, Made
<1>2. CASE Lose(d, p)
  <2>1. UNCHANGED <<holds, newest>> /\ (owed \cup strayed)' = owed \cup strayed
    BY <1>2 DEF Lose
  <2>2. \A e \in Devices, q \in Pins : Settled(e, q)' = Settled(e, q)
    BY <2>1 DEF Settled
  <2> QED  BY <2>1, <2>2 DEF TablesOK, Made
<1>3. CASE EditThere(d, p)
  <2>1. PICK f \in Profiles \cup {None} : holds' = [holds EXCEPT ![d][p] = f]
    BY <1>3 DEF EditThere
  <2>2. holds' \in [Devices -> [Pins -> Profiles \cup {None}]]
    BY <2>1 DEF TablesOK
  <2>3. ASSUME NEW e \in Devices, NEW q \in Pins, Settled(e, q)'
        PROVE  holds'[e][q] = Made(newest[e][q])
    <3>1. Settled(e, q) /\ <<e, q>> # <<d, p>>
      BY <1>3, <2>3 DEF EditThere, Settled
    <3>2. holds'[e][q] = holds[e][q]
      BY <2>1, <3>1 DEF TablesOK
    <3> QED  BY <3>1, <3>2 DEF TablesOK
  <2>4. (owed \cup strayed)' \subseteq (Devices \cup {None}) \X (Pins \cup {None}) /\ UNCHANGED newest
    BY <1>3 DEF EditThere, TablesOK
  <2>5. \A e \in Devices, q \in Pins : Settled(e, q)' => holds'[e][q] = Made(newest[e][q])
    BY <2>3
  <2> QED  BY <2>2, <2>4, <2>5 DEF TablesOK, Made
<1> QED  BY <1>1, <1>2, <1>3

LEMMA TablesInvariance == Spec => []TablesOK
<1>1. Init => TablesOK
  BY RosterAssumption DEF Init, TablesOK, Made
<1>2. ASSUME IInv, TablesOK, [Next]_vars
      PROVE  TablesOK'
  <2>1. CASE UNCHANGED commandVars
    BY <1>2, <2>1 DEF commandVars, TablesOK, Settled, Made
  <2>2. CASE TerminalStep
    BY <1>2, <2>2, TerminalTables DEF TerminalStep
  <2>3. ASSUME NEW o \in Ops, QueueNext(o)
        PROVE  TablesOK'
    <3>1. op[o].pin \in Pins \cup {None} /\ op[o].todo \subseteq Devices
      BY <1>2 DEF IInv, OpsAreFunction, Operation
    <3> QED  BY <1>2, <2>3, <3>1, QueuedIsOwed DEF QueueNext
  <2>4. ASSUME NEW o \in Ops, QueueRemoval(o)
        PROVE  TablesOK'
    <3>1. op[o].pin \in Pins \cup {None} /\ op[o].from \in Devices \cup {None}
      BY <1>2 DEF IInv, OpsAreFunction, Operation
    <3> QED  BY <1>2, <2>4, <3>1, QueuedIsOwed DEF QueueRemoval
  <2>5. ASSUME NEW o \in Ops, Start(o) \/ OpFails(o)
        PROVE  UNCHANGED commandVars
    BY <2>5 DEF Start, OpFails, Enroll, StartPush, StartDelete, StartRecord, StartUpdate,
                StartBiometrics, StartTransfer, StartInbound
  <2>6. ASSUME NEW o \in Ops, Continue(o), ~QueueNext(o), ~QueueRemoval(o)
        PROVE  UNCHANGED commandVars
    BY <2>6 DEF Continue, WriteProfile, ReadPin, ReadLinks, ReadTemplates, LinkDevice,
                FinishPush, DeleteRow, Unlink, StoreTemplate, SetFlag, NextMember,
                EndInbound, FindByExternal, FindByPin, InsertMember, UpdateMember, UpsertConflicts
  <2>7. CASE UNCHANGED vars
    BY <2>1, <2>7 DEF vars
  <2>8. ASSUME NEW p \in Pins, NEW f \in Profiles,
               Operlog(p, f) \/ \E m \in Members : Create(m, p, f)
        PROVE  UNCHANGED commandVars
    BY <2>8 DEF Operlog, Create
  <2>9. ASSUME NEW d \in Devices, SetOnline(d)
        PROVE  UNCHANGED commandVars
    BY <2>9 DEF SetOnline
  <2> QED  BY <1>2, <2>1, <2>2, <2>3, <2>4, <2>5, <2>6, <2>7, <2>8, <2>9 DEF Next, TerminalStep
<1>3. IInv /\ TablesOK /\ [Next]_vars => TablesOK'
  BY <1>2
<1> QED  BY <1>1, <1>3, Invariance, PTL DEF Spec

-----------------------------------------------------------------------------
\* schema/tenant.ts:147-210: tables keep their types, PINs are unique, and
\* employee_devices and the biometric tables know living members only.
THEOREM TypeCorrect == Spec => []TypeOK
<1>1. IInv /\ TablesOK => TypeOK
  BY DEF IInv, RowsOK, LinksOK, BioOK, RestOK, OpsAreFunction, TablesOK, TypeOK
<1> QED  BY <1>1, Invariance, TablesInvariance, PTL

\* employees.ts:363-388, 546-571, 751-775 and route.ts:201-229: whatever
\* overlaps or fails, a device was queued the member before employee_devices
\* says it has it.
THEOREM LinksWerePushed == Spec => []LinkWasPushed
<1>1. IInv => LinkWasPushed
  BY DEF IInv, LinksOK, LinkWasPushed
<1> QED  BY <1>1, Invariance, PTL

\* biometric.service.ts:17-72: the flag is set after the template was stored
\* and by the same id, so it never tells of a template that is not there.
THEOREM FlagsAreTrue == Spec => []FlagMeansTemplate
<1>1. IInv => FlagMeansTemplate
  BY DEF IInv, BioOK, FlagMeansTemplate
<1> QED  BY <1>1, Invariance, PTL

-----------------------------------------------------------------------------
(***************************************************************************)
(* What an operator who works alone can rely on (MemberRoster's calm):     *)
(* while no two operations overlap, none fails and no PIN changes, the     *)
(* dashboard's tables agree with what the terminals were queued.           *)
(*                                                                         *)
(* At most one operation is then in progress.  Everything is stated of its *)
(* record r (Idle if there is none) and of the tables.                     *)
(***************************************************************************)

\* Kinds of operations, where they can be, and what they queue.
Fanning == LinkingKinds \cup {"update", "push", "delete"}

Shape(r) ==
    /\ r.at \in {"next", "byExternal", "byPin", "upsert"} => r.kind = "inbound"
    /\ r.at \in {"next", "byExternal", "byPin"} => r.who = None
    /\ r.at \in {"write", "pin"} => r.kind = "update"
    /\ r.at = "links" => r.kind \in {"update", "push", "delete"}
    /\ r.at = "templates" => r.kind = "biometrics"
    /\ r.at = "link" => r.kind \in LinkingKinds
    /\ r.at = "push" => r.kind \in Fanning
    /\ r.kind = "move" => r.from \in Devices
    /\ r.at \in {"write", "pin", "links", "templates", "push", "link"} =>
           IF r.kind = "delete" THEN r.cmd = Gone ELSE r.cmd \in Profiles

\* The row it works on is there, and has the PIN it read.
KnowsRow(r) ==
    /\ r.at \in {"write", "pin", "links", "templates", "push", "link", "unlink"} =>
           r.who \in Rows
    /\ r.at \in {"links", "templates", "push", "link", "unlink"} => pin[r.who] = r.pin
    /\ r.at = "upsert" /\ r.who # None => r.who \in Rows

\* What it has queued, and for which devices it still has to.
HasQueued(r) ==
    /\ r.at = "push" /\ r.kind \in {"update", "push", "delete"} =>
           \A d \in Devices : IF d \in r.todo THEN <<r.who, d>> \in links
                              ELSE <<r.who, d>> \in links => newest[d][r.pin] = r.cmd
    /\ r.at = "link" => newest[r.dev][r.pin] \in Profiles
    /\ r.at = "unlink" => newest[r.from][r.pin] = Gone

\* A linked device was queued the member last, unless r is taking the member
\* away from it.
Leaving(r, m, d) ==
    /\ r.who = m
    /\ \/ r.at = "push" /\ r.kind = "delete" /\ d \notin r.todo
       \/ r.at = "unlink" /\ d = r.from
LinkedHas(r) ==
    \A m \in Rows, d \in Devices :
        <<m, d>> \in links => newest[d][pin[m]] \in Profiles \/ Leaving(r, m, d)

\* A device that was queued a user last is linked, or r is about to link it.
UserIsLinked(r) ==
    \A p \in Pins, d \in Devices :
        newest[d][p] \in Profiles =>
            \/ \E m \in Rows : pin[m] = p /\ <<m, d>> \in links
            \/ r.at = "link" /\ r.dev = d /\ r.pin = p

\* External ids are unique, and the one r is about to write is free.
ExternalsOK(r) ==
    /\ \A m, n \in Rows : external[m] = external[n] /\ external[m] # None => m = n
    /\ r.at = "byPin" /\ r.external # None => \A m \in Rows : external[m] # r.external
    /\ r.at = "upsert" /\ r.external # None =>
           \A m \in Rows : external[m] = r.external => m = r.who

Consistent(r) ==
    /\ Shape(r) /\ KnowsRow(r) /\ HasQueued(r)
    /\ LinkedHas(r) /\ UserIsLinked(r) /\ ExternalsOK(r)

AllIdle == \A o \in Ops : op[o] = Idle
Lone == \A o, q \in Ops : op[o] # Idle /\ op[q] # Idle => o = q

\* The operation in progress.
Current(r) == IF AllIdle THEN r = Idle ELSE r # Idle /\ \E o \in Ops : op[o] = r

Alone == calm => Lone /\ \A r \in Operation : Current(r) => Consistent(r)

-----------------------------------------------------------------------------
\* One operation takes a step, or begins while none is open.
LEMMA AloneStep ==
    ASSUME IInv, Alone, calm, NEW o \in Ops, NEW r \in Operation, r = op[o],
           r # Idle \/ AllIdle, NEW s \in Operation, op' = [op EXCEPT ![o] = s],
           Consistent(r) => Consistent(s)'
    PROVE  Alone'
<1> USE DEF IInv, OpsAreFunction
<1>1. \A q \in Ops \ {o} : op[q] = Idle /\ op'[q] = Idle
  BY DEF Alone, Lone, AllIdle
<1>2. op'[o] = s
  OBVIOUS
<1>3. Lone'
  BY <1>1 DEF Lone
<1>4. Current(r)
  BY DEF Current, AllIdle
<1>5. Consistent(s)'
  BY <1>4 DEF Alone
<1>6. ASSUME NEW t \in Operation, Current(t)'
      PROVE  t = s
  <2>1. CASE AllIdle'
    BY <1>2, <1>6, <2>1 DEF AllIdle, Current
  <2>2. CASE ~AllIdle'
    <3>1. PICK q \in Ops : op'[q] = t /\ t # Idle
      BY <1>6, <2>2 DEF Current
    <3> QED  BY <1>1, <1>2, <3>1
  <2> QED  BY <2>1, <2>2
<1>7. \A t \in Operation : Current(t)' => Consistent(t)'
  BY <1>5, <1>6
<1> QED  BY <1>3, <1>7 DEF Alone

\* The tables change under the operation.
LEMMA AloneBeside ==
    ASSUME Alone, UNCHANGED <<op, calm>>,
           \A r \in Operation : Consistent(r) => Consistent(r)'
    PROVE  Alone'
<1>1. CASE ~calm
  BY <1>1 DEF Alone
<1>2. CASE calm
  <2>1. Lone'
    BY <1>2 DEF Alone, Lone
  <2>2. ASSUME NEW r \in Operation, Current(r)'
        PROVE  Consistent(r)'
    <3>1. Current(r)
      BY <2>2 DEF Current, AllIdle
    <3> QED  BY <1>2, <3>1 DEF Alone
  <2> QED  BY <2>1, <2>2 DEF Alone
<1> QED  BY <1>1, <1>2

LEMMA SameTables ==
    ASSUME UNCHANGED <<pin, external, links, newest>>, NEW s \in Operation, Consistent(s)
    PROVE  Consistent(s)'
<1>1. Rows' = Rows
  BY DEF Rows
<1>2. Shape(s)' /\ KnowsRow(s)'
  BY <1>1 DEF Consistent, Shape, KnowsRow
<1>3. HasQueued(s)'
  BY DEF Consistent, HasQueued
<1>4. LinkedHas(s)'
  BY <1>1 DEF Consistent, LinkedHas, Leaving
<1>5. UserIsLinked(s)'
  BY <1>1 DEF Consistent, UserIsLinked
<1>6. ExternalsOK(s)'
  BY <1>1 DEF Consistent, ExternalsOK
<1> QED  BY <1>2, <1>3, <1>4, <1>5, <1>6 DEF Consistent

\* An operation that is neither taking a member away nor about to link one
\* can go anywhere.
Harmless(r) == r.at \notin {"link", "unlink"} /\ ~(r.at = "push" /\ r.kind = "delete")

LEMMA HarmlessStep ==
    ASSUME NEW r \in Operation, Harmless(r), Consistent(r), NEW s \in Operation,
           Shape(s), KnowsRow(s), HasQueued(s), ExternalsOK(s)
    PROVE  Consistent(s)
<1>1. LinkedHas(s)
  BY DEF Harmless, Consistent, LinkedHas, Leaving
<1>2. UserIsLinked(s)
  BY DEF Harmless, Consistent, UserIsLinked
<1> QED  BY <1>1, <1>2 DEF Consistent

\* The steps that change no table the properties speak of.
LEMMA AloneRead ==
    ASSUME IInv, Alone, calm, NEW o \in Ops, NEW r \in Operation, r = op[o],
           r # Idle \/ AllIdle, NEW s \in Operation, op' = [op EXCEPT ![o] = s],
           UNCHANGED <<pin, external, links, newest>>, Harmless(r),
           Consistent(r) => Shape(s) /\ KnowsRow(s) /\ HasQueued(s) /\ ExternalsOK(s)
    PROVE  Alone'
<1>1. Consistent(r) => Consistent(s)
  BY HarmlessStep
<1>2. Consistent(r) => Consistent(s)'
  BY <1>1, SameTables
<1> QED  BY <1>2, AloneStep

\* At the places between operations nothing is claimed but the externals.
LEMMA RestsConsistent ==
    ASSUME NEW r \in Operation, Consistent(r), NEW s \in Operation,
           \/ s.at \in {"idle", "template", "flag"} /\ s.kind \notin {"move"}
           \/ s.at = "next" /\ s.kind = "inbound" /\ s.who = None
    PROVE  Shape(s) /\ KnowsRow(s) /\ HasQueued(s) /\ ExternalsOK(s)
<1>1. Shape(s) /\ KnowsRow(s) /\ HasQueued(s)
  BY DEF Shape, KnowsRow, HasQueued
<1>2. ExternalsOK(s)
  BY DEF Consistent, ExternalsOK
<1> QED  BY <1>1, <1>2

\* What Leave and End make of an operation.
LEMMA LeaveTo ==
    ASSUME IInv, NEW o \in Ops, Leave(o) \/ End(o)
    PROVE  \E s \in Operation :
              /\ op' = [op EXCEPT ![o] = s]
              /\ \/ s.at = "idle" /\ s.kind = "none"
                 \/ s.at = "next" /\ s.kind = "inbound" /\ s.who = None
<1>1. CASE op' = [op EXCEPT ![o] = Idle]
  <2>1. Idle \in Operation /\ Idle.at = "idle" /\ Idle.kind = "none"
    BY IdleFits DEF Idle
  <2> QED  BY <1>1, <2>1
<1>2. CASE op' = [op EXCEPT ![o] = [Idle EXCEPT !.at = "next", !.kind = "inbound",
                                                !.seen = op[o].seen]]
  <2>1. PICK seen \in SUBSET Devices : seen = op[o].seen
    BY DEF IInv, OpsAreFunction, Operation
  <2> DEFINE s == [Idle EXCEPT !.at = "next", !.kind = "inbound", !.seen = seen]
  <2>2. s \in Operation
    BY <2>1 DEF Idle, Operation, Places, Kinds
  <2>3. s.at = "next" /\ s.kind = "inbound" /\ s.who = None
    BY DEF Idle
  <2>4. op' = [op EXCEPT ![o] = s]
    BY <1>2, <2>1
  <2> HIDE DEF s
  <2> QED  BY <2>2, <2>3, <2>4
<1> QED  BY <1>1, <1>2 DEF Leave, End, Go

LEMMA ExternalsElsewhere ==
    ASSUME NEW r \in Operation, Consistent(r), NEW s \in Operation, s.at \notin {"byPin", "upsert"}
    PROVE  ExternalsOK(s)
BY DEF Consistent, ExternalsOK

-----------------------------------------------------------------------------
(* Operations begin.                                                       *)

LEMMA AloneBegin ==
    ASSUME IInv, Alone, calm', NEW o \in Ops, NEW s \in Operation, Begin(o, s),
           UNCHANGED <<pin, external, links, newest>>,
           Consistent(Idle) => Shape(s) /\ KnowsRow(s) /\ HasQueued(s),
           s.at \notin {"byPin", "upsert"}
    PROVE  Alone'
<1>1. PICK r \in Operation : r = Idle
  BY IdleFits
<1>2. /\ calm /\ AllIdle /\ r = op[o] /\ op' = [op EXCEPT ![o] = s]
  BY <1>1 DEF Begin, AllIdle
<1>3. Harmless(r)
  BY <1>1 DEF Harmless, Idle
<1>4. Consistent(r) => ExternalsOK(s)
  BY ExternalsElsewhere
<1>5. Consistent(r) => Shape(s) /\ KnowsRow(s) /\ HasQueued(s)
  BY <1>1
<1> QED  BY <1>2, <1>3, <1>4, <1>5, AloneRead

LEMMA AloneStart ==
    ASSUME IInv, Alone, calm', NEW o \in Ops, NEW m \in Members,
           \/ \E f \in Profiles : StartUpdate(o, m, f)
           \/ StartPush(o, m) \/ StartDelete(o, m) \/ StartRecord(o, m)
           \/ \E ds \in Targets : StartBiometrics(o, m, ds)
           \/ \E c, d \in Devices : StartTransfer(o, m, c, d)
    PROVE  Alone'
<1>1. m \in Rows
  BY DEF StartUpdate, StartPush, StartDelete, StartRecord, StartBiometrics, StartTransfer
<1>2. /\ pin[m] \in Pins \cup {None} /\ profile[m] \in Profiles
      /\ plain[profile[m]] \in Profiles
  BY <1>1, RosterAssumption DEF IInv, RowsOK
<1>3. UNCHANGED <<pin, external, links, newest>>
  BY DEF StartUpdate, StartPush, StartDelete, StartRecord, StartBiometrics, StartTransfer, rowVars,
         commandVars
<1>4. ASSUME NEW f \in Profiles, StartUpdate(o, m, f)
      PROVE  Alone'
  <2> DEFINE s == [Idle EXCEPT !.at = "write", !.kind = "update", !.who = m, !.cmd = f]
  <2>1. s \in Operation
    BY DEF Idle, Operation, Places, Kinds, Commands
  <2>2. s.at = "write" /\ s.kind = "update" /\ s.who = m /\ s.cmd = f
    BY DEF Idle
  <2>3. Begin(o, s)
    BY <1>4 DEF StartUpdate
  <2> HIDE DEF s
  <2>4. Shape(s) /\ KnowsRow(s) /\ HasQueued(s)
    BY <1>1, <2>2 DEF Shape, KnowsRow, HasQueued
  <2> QED  BY <1>3, <2>1, <2>2, <2>3, <2>4, AloneBegin
<1>5. CASE StartPush(o, m)
  <2> DEFINE s == [Idle EXCEPT !.at = "links", !.kind = "push", !.who = m, !.pin = pin[m],
                               !.cmd = profile[m]]
  <2>1. s \in Operation
    BY <1>2 DEF Idle, Operation, Places, Kinds, Commands
  <2>2. s.at = "links" /\ s.kind = "push" /\ s.who = m /\ s.pin = pin[m] /\ s.cmd = profile[m]
    BY DEF Idle
  <2>3. Begin(o, s)
    BY <1>5 DEF StartPush
  <2> HIDE DEF s
  <2>4. Shape(s) /\ KnowsRow(s) /\ HasQueued(s)
    BY <1>1, <1>2, <2>2 DEF Shape, KnowsRow, HasQueued
  <2> QED  BY <1>3, <2>1, <2>2, <2>3, <2>4, AloneBegin
<1>6. CASE StartDelete(o, m)
  <2> DEFINE s == [Idle EXCEPT !.at = "links", !.kind = "delete", !.who = m, !.pin = pin[m],
                               !.cmd = Gone]
  <2>1. s \in Operation
    BY <1>2 DEF Idle, Operation, Places, Kinds, Commands
  <2>2. s.at = "links" /\ s.kind = "delete" /\ s.who = m /\ s.pin = pin[m] /\ s.cmd = Gone
    BY DEF Idle
  <2>3. Begin(o, s)
    BY <1>6 DEF StartDelete
  <2> HIDE DEF s
  <2>4. Shape(s) /\ KnowsRow(s) /\ HasQueued(s)
    BY <1>1, <2>2 DEF Shape, KnowsRow, HasQueued
  <2> QED  BY <1>3, <2>1, <2>2, <2>3, <2>4, AloneBegin
<1>7. CASE StartRecord(o, m)
  <2> DEFINE s == [Idle EXCEPT !.at = "template", !.kind = "record", !.who = m, !.pin = pin[m]]
  <2>1. s \in Operation
    BY <1>2 DEF Idle, Operation, Places, Kinds
  <2>2. s.at = "template" /\ s.kind = "record"
    BY DEF Idle
  <2>3. Begin(o, s)
    BY <1>7 DEF StartRecord
  <2> HIDE DEF s
  <2>4. Shape(s) /\ KnowsRow(s) /\ HasQueued(s)
    BY <2>2 DEF Shape, KnowsRow, HasQueued
  <2> QED  BY <1>3, <2>1, <2>2, <2>3, <2>4, AloneBegin
<1>8. ASSUME NEW ds \in Targets, StartBiometrics(o, m, ds)
      PROVE  Alone'
  <2> DEFINE s == [Idle EXCEPT !.at = "templates", !.kind = "biometrics", !.who = m,
                               !.pin = pin[m], !.cmd = plain[profile[m]], !.todo = ds]
  <2>1. s \in Operation
    BY <1>2 DEF Idle, Operation, Places, Kinds, Commands, Targets
  <2>2. /\ s.at = "templates" /\ s.kind = "biometrics" /\ s.who = m /\ s.pin = pin[m]
        /\ s.cmd = plain[profile[m]]
    BY DEF Idle
  <2>3. Begin(o, s)
    BY <1>8 DEF StartBiometrics
  <2> HIDE DEF s
  <2>4. Shape(s) /\ KnowsRow(s) /\ HasQueued(s)
    BY <1>1, <1>2, <2>2 DEF Shape, KnowsRow, HasQueued
  <2> QED  BY <1>3, <2>1, <2>2, <2>3, <2>4, AloneBegin
<1>9. ASSUME NEW c \in Devices, NEW d \in Devices, StartTransfer(o, m, c, d)
      PROVE  Alone'
  <2>1. PICK k \in {"move", "copy"} :
            Begin(o, [Idle EXCEPT !.at = "push", !.kind = k, !.who = m, !.pin = pin[m],
                                  !.cmd = profile[m], !.todo = {d}, !.from = c])
    BY <1>9 DEF StartTransfer
  <2> DEFINE s == [Idle EXCEPT !.at = "push", !.kind = k, !.who = m, !.pin = pin[m],
                               !.cmd = profile[m], !.todo = {d}, !.from = c]
  <2>2. s \in Operation
    BY <1>2 DEF Idle, Operation, Places, Kinds, Commands
  <2>3. /\ s.at = "push" /\ s.kind = k /\ s.who = m /\ s.pin = pin[m] /\ s.cmd = profile[m]
        /\ s.from = c
    BY DEF Idle
  <2>4. Begin(o, s)
    BY <2>1
  <2> HIDE DEF s
  <2>5. Shape(s) /\ KnowsRow(s) /\ HasQueued(s)
    BY <1>1, <1>2, <2>3 DEF Shape, KnowsRow, HasQueued, Fanning, LinkingKinds
  <2> QED  BY <1>3, <2>2, <2>3, <2>4, <2>5, AloneBegin
<1> QED  BY <1>4, <1>5, <1>6, <1>7, <1>8, <1>9

LEMMA AloneInbound ==
    ASSUME IInv, Alone, calm', NEW o \in Ops, StartInbound(o)
    PROVE  Alone'
<1> DEFINE s == [Idle EXCEPT !.at = "next", !.kind = "inbound", !.seen = online]
<1>1. s \in Operation
  BY DEF Idle, Operation, Places, Kinds, IInv, RestOK
<1>2. s.at = "next" /\ s.kind = "inbound" /\ s.who = None
  BY DEF Idle
<1>3. Begin(o, s) /\ UNCHANGED <<pin, external, links, newest>>
  BY DEF StartInbound, rowVars, commandVars
<1> HIDE DEF s
<1>4. Shape(s) /\ KnowsRow(s) /\ HasQueued(s)
  BY <1>2 DEF Shape, KnowsRow, HasQueued
<1> QED  BY <1>1, <1>2, <1>3, <1>4, AloneBegin

-----------------------------------------------------------------------------
(* Operations read on.                                                     *)

\* AloneRead for an operation that is open.
LEMMA AloneGo ==
    ASSUME IInv, Alone, calm, NEW o \in Ops, NEW r \in Operation, r = op[o], r.at # "idle",
           NEW s \in Operation, op' = [op EXCEPT ![o] = s],
           UNCHANGED <<pin, external, links, newest>>, Harmless(r),
           Consistent(r) => Shape(s) /\ KnowsRow(s) /\ HasQueued(s) /\ ExternalsOK(s)
    PROVE  Alone'
<1>1. r # Idle
  BY DEF Idle
<1> QED  BY <1>1, AloneRead

LEMMA AloneLeave ==
    ASSUME IInv, Alone, calm, NEW o \in Ops, NEW r \in Operation, r = op[o], r.at # "idle",
           Leave(o) \/ End(o), UNCHANGED <<pin, external, links, newest>>, Harmless(r)
    PROVE  Alone'
<1>1. PICK s \in Operation :
          /\ op' = [op EXCEPT ![o] = s]
          /\ \/ s.at = "idle" /\ s.kind = "none"
             \/ s.at = "next" /\ s.kind = "inbound" /\ s.who = None
  BY LeaveTo
<1>2. Consistent(r) => Shape(s) /\ KnowsRow(s) /\ HasQueued(s) /\ ExternalsOK(s)
  BY <1>1, RestsConsistent
<1> QED  BY <1>1, <1>2, AloneGo

LEMMA AloneUpdate ==
    ASSUME IInv, Alone, calm, NEW o \in Ops, WriteProfile(o) \/ ReadPin(o) \/ ReadLinks(o)
    PROVE  Alone'
<1>1. PICK r \in Operation : r = op[o] /\ Fits(r)
  BY DEF IInv, OpsAreFunction, OpsOK
<1>2. UNCHANGED <<pin, external, links, newest>>
  BY DEF WriteProfile, ReadPin, ReadLinks, rowVars, commandVars
<1>3. CASE WriteProfile(o)
  <2> DEFINE s == [r EXCEPT !.at = "pin"]
  <2>1. r.at = "write" /\ op' = [op EXCEPT ![o] = s]
    BY <1>1, <1>3 DEF WriteProfile, Go
  <2>2. s \in Operation
    BY DEF Operation, Places
  <2>3. /\ s.at = "pin" /\ s.who = r.who /\ s.kind = r.kind /\ s.cmd = r.cmd /\ s.from = r.from
    BY DEF Operation
  <2> HIDE DEF s
  <2>4. Consistent(r) => Shape(s) /\ KnowsRow(s) /\ HasQueued(s)
    BY <2>1, <2>3 DEF Consistent, Shape, KnowsRow, HasQueued
  <2>5. Consistent(r) => ExternalsOK(s)
    BY <2>2, <2>3, ExternalsElsewhere
  <2>6. Harmless(r)
    BY <2>1 DEF Harmless
  <2> QED  BY <1>1, <1>2, <2>1, <2>2, <2>4, <2>5, <2>6, AloneGo
<1>4. CASE ReadPin(o)
  <2> DEFINE s == [r EXCEPT !.at = "links", !.pin = pin[r.who]]
  <2>1. r.at = "pin" /\ op' = [op EXCEPT ![o] = s]
    BY <1>1, <1>4 DEF ReadPin, Go
  <2>2. r.who \in Members /\ pin[r.who] \in Pins \cup {None}
    BY <1>1, <2>1 DEF IInv, RowsOK, Fits
  <2>3. s \in Operation
    BY <2>2 DEF Operation, Places
  <2>4. /\ s.at = "links" /\ s.who = r.who /\ s.pin = pin[r.who] /\ s.kind = r.kind
        /\ s.cmd = r.cmd /\ s.from = r.from
    BY DEF Operation
  <2> HIDE DEF s
  <2>5. Consistent(r) => Shape(s) /\ KnowsRow(s) /\ HasQueued(s)
    BY <2>1, <2>4 DEF Consistent, Shape, KnowsRow, HasQueued
  <2>6. Consistent(r) => ExternalsOK(s)
    BY <2>3, <2>4, ExternalsElsewhere
  <2>7. Harmless(r)
    BY <2>1 DEF Harmless
  <2> QED  BY <1>1, <1>2, <2>1, <2>3, <2>5, <2>6, <2>7, AloneGo
<1>5. CASE ReadLinks(o)
  <2> DEFINE s == [r EXCEPT !.at = "push", !.todo = TargetDevices(r.who)]
  <2>1. r.at = "links" /\ op' = [op EXCEPT ![o] = s]
    BY <1>1, <1>5 DEF ReadLinks, Go
  <2>2. s \in Operation
    BY DEF TargetDevices, Operation, Places
  <2>3. /\ s.at = "push" /\ s.who = r.who /\ s.pin = r.pin /\ s.kind = r.kind
        /\ s.cmd = r.cmd /\ s.from = r.from /\ s.todo = {d \in Devices : <<r.who, d>> \in links}
    BY DEF Operation, TargetDevices
  <2> HIDE DEF s
  <2>4. Consistent(r) => Shape(s) /\ KnowsRow(s) /\ HasQueued(s)
    BY <2>1, <2>3 DEF Consistent, Shape, KnowsRow, HasQueued, Fanning
  <2>5. Consistent(r) => ExternalsOK(s)
    BY <2>2, <2>3, ExternalsElsewhere
  <2>6. Harmless(r)
    BY <2>1 DEF Harmless
  <2> QED  BY <1>1, <1>2, <2>1, <2>2, <2>4, <2>5, <2>6, AloneGo
<1> QED  BY <1>3, <1>4, <1>5

LEMMA AloneEnds ==
    ASSUME IInv, Alone, calm, NEW o \in Ops,
           \/ ReadTemplates(o) \/ FinishPush(o) \/ EndInbound(o) \/ UpsertConflicts(o)
           \/ StoreTemplate(o) \/ SetFlag(o)
    PROVE  Alone'
<1>1. PICK r \in Operation : r = op[o] /\ Fits(r)
  BY DEF IInv, OpsAreFunction, OpsOK
<1>2. UNCHANGED <<pin, external, links, newest>>
  BY DEF ReadTemplates, FinishPush, EndInbound, UpsertConflicts, StoreTemplate, SetFlag, rowVars,
         commandVars
<1>3. r.at # "idle" /\ Harmless(r)
  BY <1>1 DEF ReadTemplates, FinishPush, AllPushed, EndInbound, UpsertConflicts, StoreTemplate,
              SetFlag, Harmless
<1>4. CASE Leave(o) \/ End(o)
  BY <1>1, <1>2, <1>3, <1>4, AloneLeave
<1>5. CASE ReadTemplates(o)
  <2> DEFINE s == [r EXCEPT !.at = "push"]
  <2>1. r.at = "templates" /\ (op' = [op EXCEPT ![o] = s] \/ End(o))
    BY <1>1, <1>5 DEF ReadTemplates, Go
  <2>2. s \in Operation
    BY DEF Operation, Places
  <2>3. /\ s.at = "push" /\ s.who = r.who /\ s.pin = r.pin /\ s.kind = r.kind
        /\ s.cmd = r.cmd /\ s.from = r.from
    BY DEF Operation
  <2> HIDE DEF s
  <2>4. Consistent(r) => Shape(s) /\ KnowsRow(s) /\ HasQueued(s)
    BY <2>1, <2>3 DEF Consistent, Shape, KnowsRow, HasQueued, Fanning, LinkingKinds
  <2>5. Consistent(r) => ExternalsOK(s)
    BY <2>2, <2>3, ExternalsElsewhere
  <2> QED  BY <1>1, <1>2, <1>3, <1>4, <2>1, <2>2, <2>4, <2>5, AloneGo
<1>6. CASE StoreTemplate(o)
  <2> DEFINE s == [r EXCEPT !.at = "flag"]
  <2>1. r.at = "template" /\ (op' = [op EXCEPT ![o] = s] \/ End(o))
    BY <1>1, <1>6 DEF StoreTemplate, Go
  <2>2. s \in Operation
    BY DEF Operation, Places
  <2>3. s.at = "flag" /\ s.kind = r.kind /\ s.from = r.from
    BY DEF Operation
  <2> HIDE DEF s
  <2>4. Consistent(r) => Shape(s) /\ KnowsRow(s) /\ HasQueued(s)
    BY <2>3 DEF Consistent, Shape, KnowsRow, HasQueued
  <2>5. Consistent(r) => ExternalsOK(s)
    BY <2>2, <2>3, ExternalsElsewhere
  <2> QED  BY <1>1, <1>2, <1>3, <1>4, <2>1, <2>2, <2>4, <2>5, AloneGo
<1> QED  BY <1>4, <1>5, <1>6 DEF FinishPush, EndInbound, UpsertConflicts, SetFlag

LEMMA AloneNext ==
    ASSUME IInv, Alone, calm, NEW o \in Ops, NEW p \in Pins, NEW f \in Profiles,
           NEW e \in Externals \cup {None}, NEW ds \in Targets, NextMember(o, p, f, e, ds)
    PROVE  Alone'
<1>1. PICK r \in Operation : r = op[o] /\ Fits(r)
  BY DEF IInv, OpsAreFunction, OpsOK
<1>2. UNCHANGED <<pin, external, links, newest>>
  BY DEF NextMember, rowVars, commandVars
<1>3. PICK w \in {"byPin", "byExternal"} : w = IF e = None THEN "byPin" ELSE "byExternal"
  OBVIOUS
<1> DEFINE left == ds \cap r.seen
<1>4. left \in SUBSET Devices
  BY DEF Targets
<1> HIDE DEF left
<1> DEFINE s == [r EXCEPT !.at = w, !.pin = p, !.cmd = f, !.external = e, !.todo = left]
<1>5. r.at = "next" /\ op' = [op EXCEPT ![o] = s]
  BY <1>1, <1>3 DEF NextMember, Go, left
<1>6. s \in Operation
  BY <1>4 DEF Operation, Places, Commands
<1>7. /\ s.at = w /\ s.external = e /\ s.who = r.who /\ s.kind = r.kind /\ s.from = r.from
  BY DEF Operation
<1> HIDE DEF s
<1>8. Consistent(r) => Shape(s) /\ KnowsRow(s) /\ HasQueued(s)
  BY <1>5, <1>7 DEF Consistent, Shape, KnowsRow, HasQueued
<1>9. Consistent(r) => ExternalsOK(s)
  BY <1>3, <1>7 DEF Consistent, ExternalsOK
<1>10. Harmless(r)
  BY <1>5 DEF Harmless
<1> QED  BY <1>1, <1>2, <1>5, <1>6, <1>8, <1>9, <1>10, AloneGo

LEMMA AloneFind ==
    ASSUME IInv, Alone, calm, NEW o \in Ops, FindByExternal(o) \/ FindByPin(o)
    PROVE  Alone'
<1>1. PICK r \in Operation : r = op[o] /\ Fits(r)
  BY DEF IInv, OpsAreFunction, OpsOK
<1>2. UNCHANGED <<pin, external, links, newest>>
  BY DEF FindByExternal, FindByPin, rowVars, commandVars
<1>3. r.at \in {"byExternal", "byPin"} /\ Harmless(r)
  BY <1>1 DEF FindByExternal, FindByPin, Harmless
<1>4. ASSUME NEW m \in Rows, op' = [op EXCEPT ![o] = [r EXCEPT !.at = "upsert", !.who = m]],
             Consistent(r) /\ r.external # None =>
                 \A n \in Rows : external[n] = r.external => n = m
      PROVE  Alone'
  <2> DEFINE s == [r EXCEPT !.at = "upsert", !.who = m]
  <2>1. s \in Operation
    BY DEF Operation, Places, Rows
  <2>2. /\ s.at = "upsert" /\ s.who = m /\ s.kind = r.kind /\ s.from = r.from
        /\ s.external = r.external
    BY DEF Operation
  <2>3. op' = [op EXCEPT ![o] = s]
    BY <1>4
  <2> HIDE DEF s
  <2>4. Consistent(r) => Shape(s) /\ KnowsRow(s) /\ HasQueued(s)
    BY <1>3, <2>2 DEF Consistent, Shape, KnowsRow, HasQueued
  <2>5. Consistent(r) => ExternalsOK(s)
    BY <1>4, <2>2 DEF Consistent, ExternalsOK
  <2> QED  BY <1>1, <1>2, <1>3, <2>1, <2>3, <2>4, <2>5, AloneGo
<1>5. ASSUME NEW w \in {"byPin", "upsert"}, op' = [op EXCEPT ![o] = [r EXCEPT !.at = w]],
             \/ r.at = "byPin" /\ w = "upsert"
             \/ w = "byPin" /\ \A m \in Rows : external[m] # r.external
      PROVE  Alone'
  <2> DEFINE s == [r EXCEPT !.at = w]
  <2>1. s \in Operation
    BY DEF Operation, Places
  <2>2. /\ s.at = w /\ s.who = r.who /\ s.kind = r.kind /\ s.from = r.from
        /\ s.external = r.external
    BY DEF Operation
  <2>3. op' = [op EXCEPT ![o] = s]
    BY <1>5
  <2> HIDE DEF s
  <2>4. Consistent(r) => Shape(s) /\ KnowsRow(s) /\ HasQueued(s)
    BY <1>3, <1>5, <2>2 DEF Consistent, Shape, KnowsRow, HasQueued
  <2>5. Consistent(r) => ExternalsOK(s)
    BY <1>5, <2>2 DEF Consistent, ExternalsOK
  <2> QED  BY <1>1, <1>2, <1>3, <2>1, <2>3, <2>4, <2>5, AloneGo
<1>6. CASE FindByExternal(o)
  <2>1. CASE \A m \in Rows : ~HasExternal(o, m)
    BY <1>1, <1>5, <1>6, <2>1 DEF FindByExternal, HasExternal, Go
  <2>2. CASE \E m \in Rows : HasExternal(o, m)
                             /\ Go(o, [op[o] EXCEPT !.at = "upsert", !.who = m])
    <3>1. PICK m \in Rows : /\ external[m] = r.external
                            /\ op' = [op EXCEPT ![o] = [r EXCEPT !.at = "upsert", !.who = m]]
      BY <1>1, <2>2 DEF HasExternal, Go
    <3>2. Consistent(r) /\ r.external # None => \A n \in Rows : external[n] = r.external => n = m
      BY <3>1 DEF Consistent, ExternalsOK
    <3> QED  BY <1>4, <3>1, <3>2
  <2> QED  BY <1>6, <2>1, <2>2 DEF FindByExternal
<1>7. CASE FindByPin(o)
  <2>1. r.at = "byPin"
    BY <1>1, <1>7 DEF FindByPin
  <2>2. CASE Leave(o)
    BY <1>1, <1>2, <1>3, <2>2, AloneLeave
  <2>3. CASE Go(o, [op[o] EXCEPT !.at = "upsert"])
    BY <1>1, <1>5, <2>1, <2>3 DEF Go
  <2>4. CASE \E m \in Rows : Go(o, [op[o] EXCEPT !.at = "upsert", !.who = m])
    <3>1. PICK m \in Rows : op' = [op EXCEPT ![o] = [r EXCEPT !.at = "upsert", !.who = m]]
      BY <1>1, <2>4 DEF Go
    <3>2. Consistent(r) /\ r.external # None => \A n \in Rows : external[n] = r.external => n = m
      BY <2>1 DEF Consistent, ExternalsOK
    <3> QED  BY <1>4, <3>1, <3>2
  <2> QED  BY <1>7, <2>2, <2>3, <2>4 DEF FindByPin
<1> QED  BY <1>6, <1>7

-----------------------------------------------------------------------------
(* Commands are queued.                                                    *)

\* The row of an operation that pushes.
LEMMA ItsRow ==
    ASSUME IInv, NEW r \in Operation, Consistent(r), r.at \in {"push", "link", "unlink"}
    PROVE  /\ r.who \in Rows /\ pin[r.who] = r.pin /\ r.pin \in Pins
           /\ \A m \in Rows : pin[m] \in Pins /\ (pin[m] = r.pin => m = r.who)
<1>1. r.who \in Rows /\ pin[r.who] = r.pin
  BY DEF Consistent, KnowsRow
<1>2. \A m \in Rows : pin[m] \in Pins
  BY DEF IInv, RowsOK, Rows
<1> QED  BY <1>1, <1>2 DEF IInv, RowsOK

LEMMA AloneQueue ==
    ASSUME IInv, Alone, calm, NEW o \in Ops, QueueNext(o)
    PROVE  Alone'
<1> USE RosterAssumption
<1>1. PICK r \in Operation : r = op[o] /\ Fits(r)
  BY DEF IInv, OpsAreFunction, OpsOK
<1>2. PICK d \in r.todo :
          /\ newest' = [newest EXCEPT ![d][r.pin] = r.cmd]
          /\ op' = [op EXCEPT ![o] =
                        IF r.kind \in LinkingKinds
                        THEN [r EXCEPT !.at = "link", !.todo = r.todo \ {d}, !.dev = d]
                        ELSE [r EXCEPT !.todo = r.todo \ {d}]]
  BY <1>1 DEF QueueNext, Go
<1>3. r.at = "push" /\ d \in Devices /\ r # Idle /\ UNCHANGED <<pin, external, links>>
  BY <1>1, <1>2 DEF QueueNext, rowVars, Operation, Idle
<1> DEFINE s == IF r.kind \in LinkingKinds
                THEN [r EXCEPT !.at = "link", !.todo = r.todo \ {d}, !.dev = d]
                ELSE [r EXCEPT !.todo = r.todo \ {d}]
<1>4. s \in Operation
  BY <1>3 DEF Operation, Places
<1>5. /\ s.who = r.who /\ s.pin = r.pin /\ s.kind = r.kind /\ s.cmd = r.cmd /\ s.from = r.from
      /\ s.todo = r.todo \ {d}
      /\ IF r.kind \in LinkingKinds THEN s.at = "link" /\ s.dev = d ELSE s.at = "push"
  BY <1>3 DEF Operation
<1>6. op' = [op EXCEPT ![o] = s]
  BY <1>2
<1> HIDE DEF s
<1>7. ASSUME Consistent(r)
      PROVE  Consistent(s)'
  <2>1. /\ r.who \in Rows /\ pin[r.who] = r.pin /\ r.pin \in Pins
        /\ \A m \in Rows : pin[m] \in Pins /\ (pin[m] = r.pin => m = r.who)
    BY <1>3, <1>7, ItsRow
  <2>2. /\ IF r.kind = "delete" THEN r.cmd = Gone ELSE r.cmd \in Profiles
        /\ r.kind \in Fanning
    BY <1>3, <1>7 DEF Consistent, Shape
  <2>3. \A e \in Devices, q \in Pins :
            newest'[e][q] = IF e = d /\ q = r.pin THEN r.cmd ELSE newest[e][q]
    <3>1. d \in Devices /\ r.pin \in Pins /\ r.cmd \in Commands
      BY <1>3, <2>1, <2>2 DEF Commands
    <3>2. newest' = [newest EXCEPT ![d][r.pin] = r.cmd]
      BY <1>2
    <3>3. newest \in [Devices -> [Pins -> Commands \cup {None}]]
      BY DEF IInv, RestOK
    <3> QED  BY ONLY <3>1, <3>2, <3>3
  <2>4. Rows' = Rows
    BY <1>3 DEF Rows
  <2>5. Shape(s)'
    BY <1>3, <1>5, <1>7, <2>2 DEF Consistent, Shape
  <2>6. KnowsRow(s)'
    BY <1>3, <1>5, <2>1, <2>4 DEF KnowsRow
  <2>7. HasQueued(s)'
    <3>1. CASE r.kind \in LinkingKinds
      BY <1>3, <1>5, <2>1, <2>2, <2>3, <3>1 DEF HasQueued, LinkingKinds
    <3>2. CASE r.kind \notin LinkingKinds
      <4>1. \A c \in Devices : IF c \in r.todo THEN <<r.who, c>> \in links
                               ELSE <<r.who, c>> \in links => newest[c][r.pin] = r.cmd
        BY <1>3, <1>7, <2>2, <3>2 DEF Consistent, HasQueued, Fanning
      <4> QED  BY <1>3, <1>5, <2>1, <2>3, <3>2, <4>1 DEF HasQueued
    <3> QED  BY <3>1, <3>2
  <2>8. LinkedHas(s)'
    <3> SUFFICES ASSUME NEW m \in Rows, NEW c \in Devices, <<m, c>> \in links
                 PROVE  newest'[c][pin[m]] \in Profiles \/ Leaving(s, m, c)
      BY <1>3, <2>4 DEF LinkedHas, Leaving
    <3>1. CASE c = d /\ pin[m] = r.pin
      BY <1>5, <2>1, <2>2, <2>3, <3>1 DEF Leaving, LinkingKinds
    <3>2. CASE ~(c = d /\ pin[m] = r.pin)
      <4>1. newest'[c][pin[m]] = newest[c][pin[m]]
        BY <2>1, <2>3, <3>2
      <4>2. newest[c][pin[m]] \in Profiles \/ Leaving(r, m, c)
        BY <1>7 DEF Consistent, LinkedHas
      <4> QED  BY <1>3, <1>5, <4>1, <4>2 DEF Leaving, LinkingKinds
    <3> QED  BY <3>1, <3>2
  <2>9. UserIsLinked(s)'
    <3> SUFFICES ASSUME NEW p \in Pins, NEW c \in Devices, newest'[c][p] \in Profiles
                 PROVE  \/ \E m \in Rows : pin[m] = p /\ <<m, c>> \in links
                        \/ s.at = "link" /\ s.dev = c /\ s.pin = p
      BY <1>3, <2>4 DEF UserIsLinked
    <3>1. CASE c = d /\ p = r.pin
      <4>1. CASE r.kind \in LinkingKinds
        BY <1>5, <3>1, <4>1
      <4>2. CASE r.kind \in {"update", "push"}
        <5>1. <<r.who, d>> \in links
          BY <1>2, <1>3, <1>7, <4>2 DEF Consistent, HasQueued
        <5> QED  BY <2>1, <3>1, <5>1
      <4>3. CASE r.kind = "delete"
        BY <1>3, <2>1, <2>2, <2>3, <3>1, <4>3
      <4> QED  BY <2>2, <4>1, <4>2, <4>3 DEF Fanning
    <3>2. CASE ~(c = d /\ p = r.pin)
      <4>1. newest[c][p] \in Profiles
        BY <2>3, <3>2
      <4> QED  BY <1>3, <1>7, <4>1 DEF Consistent, UserIsLinked
    <3> QED  BY <3>1, <3>2
  <2>10. ExternalsOK(s)'
    BY <1>3, <1>5, <1>7, <2>4 DEF Consistent, ExternalsOK
  <2> QED  BY <2>5, <2>6, <2>7, <2>8, <2>9, <2>10 DEF Consistent
<1> QED  BY <1>1, <1>3, <1>4, <1>6, <1>7, AloneStep

\* A device is linked.
LEMMA AloneLink ==
    ASSUME IInv, Alone, calm, NEW o \in Ops, LinkDevice(o)
    PROVE  Alone'
<1>1. PICK r \in Operation : r = op[o] /\ Fits(r)
  BY DEF IInv, OpsAreFunction, OpsOK
<1>2. /\ r.at = "link" /\ r # Idle /\ UNCHANGED <<pin, external, newest>>
      /\ r.dev \in Devices /\ r.kind \in LinkingKinds
  BY <1>1 DEF LinkDevice, rowVars, commandVars, Idle, Fits
<1>3. Consistent(r)
  <2>1. Current(r)
    BY <1>1, <1>2 DEF Current, AllIdle
  <2> QED  BY <2>1 DEF Alone
<1>4. /\ r.who \in Rows /\ pin[r.who] = r.pin /\ r.pin \in Pins
      /\ \A m \in Rows : pin[m] \in Pins /\ (pin[m] = r.pin => m = r.who)
  BY <1>2, <1>3, ItsRow
<1>5. StillThere(o) = {r.who}
  BY <1>1, <1>4 DEF StillThere
<1>6. links' = links \cup {<<r.who, r.dev>>}
  BY <1>1, <1>5 DEF LinkDevice
<1> DEFINE s == [r EXCEPT !.at = "push", !.dev = None]
<1>7. s \in Operation
  BY DEF Operation, Places
<1>8. /\ s.at = "push" /\ s.who = r.who /\ s.pin = r.pin /\ s.kind = r.kind
      /\ s.cmd = r.cmd /\ s.from = r.from
  BY DEF Operation
<1>9. op' = [op EXCEPT ![o] = s]
  BY <1>1, <1>5 DEF LinkDevice, Go
<1> HIDE DEF s
<1>10. Rows' = Rows
  BY <1>2 DEF Rows
<1>11. Consistent(s)'
  <2>1. Shape(s)' /\ KnowsRow(s)'
    BY <1>2, <1>3, <1>4, <1>8, <1>10 DEF Consistent, Shape, KnowsRow, Fanning, LinkingKinds
  <2>2. HasQueued(s)'
    BY <1>2, <1>8 DEF HasQueued, LinkingKinds
  <2>3. LinkedHas(s)'
    <3> SUFFICES ASSUME NEW m \in Rows, NEW c \in Devices, <<m, c>> \in links'
                 PROVE  newest[c][pin[m]] \in Profiles
      BY <1>2, <1>10 DEF LinkedHas
    <3>1. CASE <<m, c>> \in links
      BY <1>2, <1>3, <3>1 DEF Consistent, LinkedHas, Leaving
    <3>2. CASE m = r.who /\ c = r.dev
      BY <1>2, <1>3, <1>4, <3>2 DEF Consistent, HasQueued
    <3> QED  BY <1>6, <3>1, <3>2
  <2>4. UserIsLinked(s)'
    <3> SUFFICES ASSUME NEW p \in Pins, NEW c \in Devices, newest[c][p] \in Profiles
                 PROVE  \E m \in Rows : pin[m] = p /\ <<m, c>> \in links'
      BY <1>2, <1>10 DEF UserIsLinked
    <3> QED  BY <1>3, <1>4, <1>6 DEF Consistent, UserIsLinked
  <2>5. ExternalsOK(s)'
    BY <1>2, <1>3, <1>8, <1>10 DEF Consistent, ExternalsOK
  <2> QED  BY <2>1, <2>2, <2>3, <2>4, <2>5 DEF Consistent
<1> QED  BY <1>1, <1>2, <1>7, <1>9, <1>11, AloneStep

\* A move leaves its first device: the removal is queued, the link is dropped.
LEMMA AloneRemoval ==
    ASSUME IInv, Alone, calm, NEW o \in Ops, QueueRemoval(o)
    PROVE  Alone'
<1> USE RosterAssumption
<1>1. PICK r \in Operation : r = op[o] /\ Fits(r)
  BY DEF IInv, OpsAreFunction, OpsOK
<1>2. /\ r.at = "push" /\ r.kind = "move" /\ r # Idle /\ UNCHANGED <<pin, external, links>>
      /\ newest' = [newest EXCEPT ![r.from][r.pin] = Gone]
  BY <1>1 DEF QueueRemoval, AllPushed, rowVars, Idle
<1>3. Consistent(r)
  <2>1. Current(r)
    BY <1>1, <1>2 DEF Current, AllIdle
  <2> QED  BY <2>1 DEF Alone
<1>4. /\ r.who \in Rows /\ pin[r.who] = r.pin /\ r.pin \in Pins
      /\ \A m \in Rows : pin[m] \in Pins /\ (pin[m] = r.pin => m = r.who)
  BY <1>2, <1>3, ItsRow
<1>5. r.from \in Devices
  BY <1>2, <1>3 DEF Consistent, Shape
<1>6. \A e \in Devices, q \in Pins :
          newest'[e][q] = IF e = r.from /\ q = r.pin THEN Gone ELSE newest[e][q]
  <2>1. Gone \in Commands /\ newest' = [newest EXCEPT ![r.from][r.pin] = Gone] /\ r.pin \in Pins
    BY <1>2, <1>4 DEF Commands
  <2>2. newest \in [Devices -> [Pins -> Commands \cup {None}]]
    BY DEF IInv, RestOK
  <2> QED  BY ONLY <1>5, <2>1, <2>2
<1> DEFINE s == [r EXCEPT !.at = "unlink"]
<1>7. s \in Operation
  BY DEF Operation, Places
<1>8. /\ s.at = "unlink" /\ s.who = r.who /\ s.pin = r.pin /\ s.kind = r.kind
      /\ s.cmd = r.cmd /\ s.from = r.from
  BY DEF Operation
<1>9. op' = [op EXCEPT ![o] = s]
  BY <1>1 DEF QueueRemoval, Go
<1> HIDE DEF s
<1>10. Rows' = Rows
  BY <1>2 DEF Rows
<1>11. Consistent(s)'
  <2>1. Shape(s)' /\ KnowsRow(s)'
    BY <1>2, <1>4, <1>5, <1>8, <1>10 DEF Shape, KnowsRow
  <2>2. HasQueued(s)'
    BY <1>4, <1>5, <1>6, <1>8 DEF HasQueued
  <2>3. LinkedHas(s)'
    <3> SUFFICES ASSUME NEW m \in Rows, NEW c \in Devices, <<m, c>> \in links
                 PROVE  newest'[c][pin[m]] \in Profiles \/ Leaving(s, m, c)
      BY <1>2, <1>10 DEF LinkedHas, Leaving
    <3>1. CASE c = r.from /\ pin[m] = r.pin
      BY <1>4, <1>8, <3>1 DEF Leaving
    <3>2. CASE ~(c = r.from /\ pin[m] = r.pin)
      <4>1. newest'[c][pin[m]] = newest[c][pin[m]]
        BY <1>4, <1>6, <3>2
      <4>2. newest[c][pin[m]] \in Profiles
        BY <1>2, <1>3 DEF Consistent, LinkedHas, Leaving
      <4> QED  BY <4>1, <4>2
    <3> QED  BY <3>1, <3>2
  <2>4. UserIsLinked(s)'
    <3> SUFFICES ASSUME NEW p \in Pins, NEW c \in Devices, newest'[c][p] \in Profiles
                 PROVE  \E m \in Rows : pin[m] = p /\ <<m, c>> \in links
      BY <1>2, <1>10 DEF UserIsLinked
    <3>1. newest[c][p] \in Profiles
      BY <1>6
    <3> QED  BY <1>2, <1>3, <3>1 DEF Consistent, UserIsLinked
  <2>5. ExternalsOK(s)'
    BY <1>2, <1>3, <1>8, <1>10 DEF Consistent, ExternalsOK
  <2> QED  BY <2>1, <2>2, <2>3, <2>4, <2>5 DEF Consistent
<1> QED  BY <1>1, <1>2, <1>7, <1>9, <1>11, AloneStep

LEMMA AloneUnlink ==
    ASSUME IInv, Alone, calm, NEW o \in Ops, Unlink(o)
    PROVE  Alone'
<1> USE RosterAssumption
<1>1. PICK r \in Operation : r = op[o] /\ Fits(r)
  BY DEF IInv, OpsAreFunction, OpsOK
<1>2. /\ r.at = "unlink" /\ r # Idle /\ UNCHANGED <<pin, external, newest>>
      /\ links' = links \ {<<r.who, r.from>>} /\ op' = [op EXCEPT ![o] = Idle]
  BY <1>1 DEF Unlink, DropLink, End, rowVars, commandVars, Idle
<1>3. Consistent(r)
  <2>1. Current(r)
    BY <1>1, <1>2 DEF Current, AllIdle
  <2> QED  BY <2>1 DEF Alone
<1>4. /\ r.who \in Rows /\ pin[r.who] = r.pin /\ r.pin \in Pins
  BY <1>2, <1>3, ItsRow
<1>5. PICK s \in Operation : s = Idle
  BY IdleFits
<1>6. s.at = "idle" /\ s.kind = "none"
  BY <1>5 DEF Idle
<1>7. Rows' = Rows
  BY <1>2 DEF Rows
<1>8. Consistent(s)'
  <2>1. Shape(s)' /\ KnowsRow(s)' /\ HasQueued(s)'
    BY <1>6 DEF Shape, KnowsRow, HasQueued
  <2>2. LinkedHas(s)'
    <3> SUFFICES ASSUME NEW m \in Rows, NEW c \in Devices, <<m, c>> \in links'
                 PROVE  newest[c][pin[m]] \in Profiles
      BY <1>2, <1>7 DEF LinkedHas
    <3>1. <<m, c>> \in links /\ ~(m = r.who /\ c = r.from)
      BY <1>2
    <3> QED  BY <1>2, <1>3, <3>1 DEF Consistent, LinkedHas, Leaving
  <2>3. UserIsLinked(s)'
    <3> SUFFICES ASSUME NEW p \in Pins, NEW c \in Devices, newest[c][p] \in Profiles
                 PROVE  \E m \in Rows : pin[m] = p /\ <<m, c>> \in links'
      BY <1>2, <1>7 DEF UserIsLinked
    <3>1. PICK m \in Rows : pin[m] = p /\ <<m, c>> \in links
      BY <1>2, <1>3 DEF Consistent, UserIsLinked
    <3>2. newest[r.from][r.pin] = Gone
      BY <1>2, <1>3 DEF Consistent, HasQueued
    <3>3. <<m, c>> # <<r.who, r.from>>
      BY <1>4, <3>1, <3>2
    <3> QED  BY <1>2, <3>1, <3>3
  <2>4. ExternalsOK(s)'
    BY <1>2, <1>3, <1>6, <1>7 DEF Consistent, ExternalsOK
  <2> QED  BY <2>1, <2>2, <2>3, <2>4 DEF Consistent
<1> QED  BY <1>1, <1>2, <1>5, <1>8, AloneStep

\* A member is deleted, when each of its devices has been queued that.
LEMMA AloneDelete ==
    ASSUME IInv, Alone, calm, NEW o \in Ops, DeleteRow(o)
    PROVE  Alone'
<1> USE RosterAssumption
<1>1. PICK r \in Operation : r = op[o] /\ Fits(r)
  BY DEF IInv, OpsAreFunction, OpsOK
<1>2. /\ r.at = "push" /\ r.kind = "delete" /\ r.todo = {} /\ r # Idle /\ newest' = newest
      /\ pin' = [pin EXCEPT ![r.who] = None] /\ external' = [external EXCEPT ![r.who] = None]
      /\ links' = {l \in links : l[1] # r.who} /\ op' = [op EXCEPT ![o] = Idle]
  BY <1>1 DEF DeleteRow, AllPushed, End, commandVars, Idle
<1>3. Consistent(r)
  <2>1. Current(r)
    BY <1>1, <1>2 DEF Current, AllIdle
  <2> QED  BY <2>1 DEF Alone
<1>4. /\ r.who \in Rows /\ pin[r.who] = r.pin /\ r.pin \in Pins
  BY <1>2, <1>3, ItsRow
<1>5. PICK s \in Operation : s = Idle
  BY IdleFits
<1>6. s.at = "idle" /\ s.kind = "none"
  BY <1>5 DEF Idle
<1>7. /\ Rows' = Rows \ {r.who}
      /\ \A m \in Rows' : pin'[m] = pin[m] /\ external'[m] = external[m]
  BY <1>2, <1>4 DEF Rows, IInv, RowsOK
<1>8. \A m, c : <<m, c>> \in links' <=> <<m, c>> \in links /\ m # r.who
  BY <1>2
<1>9. Consistent(s)'
  <2>1. Shape(s)' /\ KnowsRow(s)' /\ HasQueued(s)'
    BY <1>6 DEF Shape, KnowsRow, HasQueued
  <2>2. LinkedHas(s)'
    <3> SUFFICES ASSUME NEW m \in Rows', NEW c \in Devices, <<m, c>> \in links'
                 PROVE  newest[c][pin[m]] \in Profiles
      BY <1>2, <1>7 DEF LinkedHas
    <3> QED  BY <1>2, <1>3, <1>7, <1>8 DEF Consistent, LinkedHas, Leaving
  <2>3. UserIsLinked(s)'
    <3> SUFFICES ASSUME NEW p \in Pins, NEW c \in Devices, newest'[c][p] \in Profiles
                 PROVE  \E m \in Rows' : pin'[m] = p /\ <<m, c>> \in links'
      BY DEF UserIsLinked
    <3>1. PICK m \in Rows : pin[m] = p /\ <<m, c>> \in links
      BY <1>2, <1>3 DEF Consistent, UserIsLinked
    <3>2. m # r.who
      <4>1. <<r.who, c>> \in links => newest[c][r.pin] = r.cmd
        BY <1>2, <1>3 DEF Consistent, HasQueued
      <4>2. r.cmd = Gone
        BY <1>2, <1>3 DEF Consistent, Shape
      <4>3. newest[c][p] \in Profiles
        BY <1>2
      <4> QED  BY <1>4, <3>1, <4>1, <4>2, <4>3
    <3> QED  BY <1>7, <1>8, <3>1, <3>2
  <2>4. ExternalsOK(s)'
    BY <1>3, <1>6, <1>7 DEF Consistent, ExternalsOK
  <2> QED  BY <2>1, <2>2, <2>3, <2>4 DEF Consistent
<1> QED  BY <1>1, <1>2, <1>5, <1>9, AloneStep

-----------------------------------------------------------------------------
(* Rows come and change.                                                   *)

\* A new row takes a PIN nobody has, so no claim is about it.
LEMMA NewRowConsistent ==
    ASSUME IInv, NEW m \in Members, NEW p \in Pins, NEW f \in Profiles,
           NEW e \in Externals \cup {None}, NewRow(m, p, f, e), UNCHANGED <<links, newest>>,
           NEW r \in Operation, Consistent(r)
    PROVE  /\ Shape(r)' /\ KnowsRow(r)' /\ HasQueued(r)' /\ LinkedHas(r)' /\ UserIsLinked(r)'
           /\ e = None => ExternalsOK(r)'
           /\ Rows' = Rows \cup {m} /\ m \notin Rows /\ pin'[m] = p /\ external'[m] = e
           /\ \A n \in Rows : pin'[n] = pin[n] /\ external'[n] = external[n]
<1>1. Rows' = Rows \cup {m} /\ m \notin Rows
  BY NewRowEffect DEF IInv, RowsOK
<1>2. pin'[m] = p /\ external'[m] = e
  BY DEF NewRow, IInv, RowsOK
<1>3. \A n \in Rows : pin'[n] = pin[n] /\ external'[n] = external[n]
  BY <1>1 DEF NewRow, IInv, RowsOK, Rows
<1>4. \A c : <<m, c>> \notin links
  BY <1>1 DEF IInv, LinksOK
<1>5. Shape(r)' /\ KnowsRow(r)' /\ HasQueued(r)'
  <2>1. Shape(r)'
    BY DEF Consistent, Shape
  <2>2. KnowsRow(r)'
    BY <1>1, <1>3 DEF Consistent, KnowsRow
  <2>3. HasQueued(r)'
    BY DEF Consistent, HasQueued
  <2> QED  BY <2>1, <2>2, <2>3
<1>6. LinkedHas(r)'
  <2> SUFFICES ASSUME NEW n \in Rows', NEW c \in Devices, <<n, c>> \in links
               PROVE  newest[c][pin'[n]] \in Profiles \/ Leaving(r, n, c)
    BY DEF LinkedHas, Leaving
  <2>1. n \in Rows /\ pin'[n] = pin[n]
    BY <1>1, <1>3, <1>4
  <2> QED  BY <2>1 DEF Consistent, LinkedHas
<1>7. UserIsLinked(r)'
  <2> SUFFICES ASSUME NEW q \in Pins, NEW c \in Devices, newest[c][q] \in Profiles
               PROVE  \/ \E n \in Rows' : pin'[n] = q /\ <<n, c>> \in links
                      \/ r.at = "link" /\ r.dev = c /\ r.pin = q
    BY DEF UserIsLinked
  <2>1. \/ \E n \in Rows : pin[n] = q /\ <<n, c>> \in links
        \/ r.at = "link" /\ r.dev = c /\ r.pin = q
    BY DEF Consistent, UserIsLinked
  <2> QED  BY <1>1, <1>3, <2>1
<1>8. e = None => ExternalsOK(r)'
  BY <1>1, <1>2, <1>3 DEF Consistent, ExternalsOK
<1> QED  BY <1>1, <1>2, <1>3, <1>5, <1>6, <1>7, <1>8

LEMMA AloneCreate ==
    ASSUME IInv, Alone, NEW p \in Pins, NEW f \in Profiles,
           Operlog(p, f) \/ \E m \in Members : Create(m, p, f)
    PROVE  Alone'
<1>1. UNCHANGED <<links, newest, op, calm>>
  BY DEF Create, Operlog, commandVars
<1>2. ASSUME NEW m \in Members, NewRow(m, p, f, None)
      PROVE  Alone'
  <2>1. ASSUME NEW r \in Operation, Consistent(r)
        PROVE  Consistent(r)'
    BY <1>1, <1>2, <2>1, NewRowConsistent DEF Consistent
  <2> QED  BY <1>1, <2>1, AloneBeside
<1>3. CASE UNCHANGED <<pin, external>>
  BY <1>1, <1>3, SameTables, AloneBeside
<1> QED  BY <1>2, <1>3 DEF Create, Operlog

LEMMA AloneOnline ==
    ASSUME IInv, Alone, NEW d \in Devices, SetOnline(d)
    PROVE  Alone'
<1>1. UNCHANGED <<pin, external, links, newest, op, calm>>
  BY DEF SetOnline, rowVars, commandVars
<1> QED  BY <1>1, SameTables, AloneBeside

LEMMA AloneTerminal ==
    ASSUME IInv, Alone, TerminalStep
    PROVE  Alone'
<1>1. UNCHANGED <<pin, external, links, newest, op, calm>>
  BY TerminalEffect DEF rowVars
<1> QED  BY <1>1, SameTables, AloneBeside

LEMMA AloneEnroll ==
    ASSUME IInv, Alone, calm', NEW o \in Ops, NEW m \in Members, NEW p \in Pins,
           NEW f \in Profiles, NEW ds \in Targets, Enroll(o, m, p, f, ds)
    PROVE  Alone'
<1> DEFINE s == [Idle EXCEPT !.at = "push", !.kind = "enroll", !.who = m, !.pin = p,
                             !.cmd = f, !.todo = ds]
<1>1. s \in Operation
  BY DEF Idle, Operation, Places, Kinds, Commands, Targets
<1>2. /\ s.at = "push" /\ s.kind = "enroll" /\ s.who = m /\ s.pin = p /\ s.cmd = f
  BY DEF Idle
<1>3. /\ NewRow(m, p, f, None) /\ UNCHANGED <<links, newest>>
      /\ op' = [op EXCEPT ![o] = s] /\ calm /\ AllIdle
  BY DEF Enroll, Begin, commandVars, AllIdle
<1> HIDE DEF s
<1>4. PICK r \in Operation : r = Idle
  BY IdleFits
<1>5. r = op[o] /\ r.at = "idle"
  BY <1>3, <1>4 DEF AllIdle, Idle
<1>6. ASSUME Consistent(r)
      PROVE  Consistent(s)'
  <2>1. /\ LinkedHas(r)' /\ UserIsLinked(r)' /\ ExternalsOK(r)'
        /\ Rows' = Rows \cup {m} /\ pin'[m] = p
    BY <1>3, <1>6, NewRowConsistent
  <2>2. Shape(s)'
    BY <1>2 DEF Shape, Fanning, LinkingKinds
  <2>3. KnowsRow(s)' /\ HasQueued(s)'
    BY <1>2, <2>1 DEF KnowsRow, HasQueued
  <2>4. LinkedHas(s)'
    BY <1>5, <2>1 DEF LinkedHas, Leaving
  <2>5. UserIsLinked(s)'
    BY <1>5, <2>1 DEF UserIsLinked
  <2>6. ExternalsOK(s)'
    BY <1>2, <2>1 DEF ExternalsOK
  <2> QED  BY <2>2, <2>3, <2>4, <2>5, <2>6 DEF Consistent
<1> QED  BY <1>1, <1>3, <1>5, <1>6, AloneStep

\* The inbound API has found no row: the id it writes is free.
LEMMA AloneInsert ==
    ASSUME IInv, Alone, calm, NEW o \in Ops, NEW m \in Members, InsertMember(o, m)
    PROVE  Alone'
<1>1. PICK r \in Operation : r = op[o] /\ Fits(r)
  BY DEF IInv, OpsAreFunction, OpsOK
<1>2. /\ r.at = "upsert" /\ r.who = None /\ r # Idle /\ UNCHANGED <<links, newest>>
      /\ NewRow(m, r.pin, r.cmd, r.external)
  BY <1>1 DEF InsertMember, commandVars, Idle
<1>3. r.pin \in Pins /\ r.cmd \in Profiles /\ r.external \in Externals \cup {None}
  BY <1>1, <1>2 DEF Fits, Operation
<1> DEFINE s == [r EXCEPT !.at = "push", !.who = m]
<1>4. s \in Operation
  BY DEF Operation, Places
<1>5. /\ s.at = "push" /\ s.who = m /\ s.pin = r.pin /\ s.kind = r.kind
      /\ s.cmd = r.cmd /\ s.from = r.from
  BY DEF Operation
<1>6. op' = [op EXCEPT ![o] = s]
  BY <1>1 DEF InsertMember, Go
<1> HIDE DEF s
<1>7. ASSUME Consistent(r)
      PROVE  Consistent(s)'
  <2>1. /\ LinkedHas(r)' /\ UserIsLinked(r)'
        /\ Rows' = Rows \cup {m} /\ m \notin Rows /\ pin'[m] = r.pin
        /\ external'[m] = r.external /\ \A n \in Rows : external'[n] = external[n]
    BY <1>2, <1>3, <1>7, NewRowConsistent
  <2>2. r.kind = "inbound"
    BY <1>2, <1>7 DEF Consistent, Shape
  <2>3. Shape(s)'
    BY <1>3, <1>5, <2>2 DEF Shape, Fanning, LinkingKinds
  <2>4. KnowsRow(s)' /\ HasQueued(s)'
    BY <1>5, <2>1, <2>2 DEF KnowsRow, HasQueued
  <2>5. LinkedHas(s)'
    BY <1>2, <2>1 DEF LinkedHas, Leaving
  <2>6. UserIsLinked(s)'
    BY <1>2, <2>1 DEF UserIsLinked
  <2>7. ExternalsOK(s)'
    <3>1. \A n \in Rows : r.external # None => external[n] # r.external
      BY <1>2, <1>7, RosterAssumption DEF Consistent, ExternalsOK, Rows
    <3>2. \A a, b \in Rows : external[a] = external[b] /\ external[a] # None => a = b
      BY <1>7 DEF Consistent, ExternalsOK
    <3> QED  BY <1>5, <2>1, <3>1, <3>2 DEF ExternalsOK
  <2> QED  BY <2>3, <2>4, <2>5, <2>6, <2>7 DEF Consistent
<1> QED  BY <1>1, <1>2, <1>4, <1>6, <1>7, AloneStep

\* It has found one, by the id or without any.  No PIN changes.
LEMMA AloneUpsert ==
    ASSUME IInv, Alone, calm', NEW o \in Ops, UpdateMember(o)
    PROVE  Alone'
<1>1. PICK r \in Operation : r = op[o] /\ Fits(r)
  BY DEF IInv, OpsAreFunction, OpsOK
<1>2. /\ calm /\ r.at = "upsert" /\ r.who # None /\ r # Idle /\ pin[r.who] = r.pin
      /\ UNCHANGED <<links, newest>>
  <2>1. calm /\ pin[r.who] = r.pin
    BY <1>1, Zenon DEF UpdateMember
  <2>2. r.at = "upsert" /\ r.who # None /\ UNCHANGED <<links, newest>>
    BY <1>1 DEF UpdateMember, commandVars
  <2>3. r # Idle
    BY <2>2 DEF Idle
  <2> QED  BY <2>1, <2>2, <2>3
<1>3. Consistent(r)
  <2>1. Current(r)
    BY <1>1, <1>2 DEF Current, AllIdle
  <2> QED  BY <1>2, <2>1 DEF Alone
<1>4. r.who \in Rows /\ r.cmd \in Profiles /\ r.external \in Externals \cup {None}
  BY <1>1, <1>2, <1>3 DEF Consistent, KnowsRow, Fits, Operation
<1>5. /\ pin' = [pin EXCEPT ![r.who] = r.pin]
      /\ external' = [external EXCEPT ![r.who] = r.external]
  BY <1>1, <1>4 DEF UpdateMember
<1>6. pin' = pin
  BY <1>2, <1>5 DEF IInv, RowsOK
<1>7. Rows' = Rows
  BY <1>6 DEF Rows
<1>8. \A n \in Rows : external'[n] = IF n = r.who THEN r.external ELSE external[n]
  BY <1>4, <1>5 DEF IInv, RowsOK, Rows
<1> DEFINE s == [r EXCEPT !.at = "push"]
<1>9. s \in Operation
  BY DEF Operation, Places
<1>10. /\ s.at = "push" /\ s.who = r.who /\ s.pin = r.pin /\ s.kind = r.kind
       /\ s.cmd = r.cmd /\ s.from = r.from
  BY DEF Operation
<1>11. op' = [op EXCEPT ![o] = s]
  BY <1>1 DEF UpdateMember, Go
<1> HIDE DEF s
<1>12. Consistent(s)'
  <2>1. r.kind = "inbound"
    BY <1>2, <1>3 DEF Consistent, Shape
  <2>2. Shape(s)'
    BY <1>4, <1>10, <2>1 DEF Shape, Fanning, LinkingKinds
  <2>3. KnowsRow(s)' /\ HasQueued(s)'
    BY <1>2, <1>4, <1>6, <1>7, <1>10, <2>1 DEF KnowsRow, HasQueued
  <2>4. LinkedHas(s)'
    BY <1>2, <1>3, <1>6, <1>7 DEF Consistent, LinkedHas, Leaving
  <2>5. UserIsLinked(s)'
    BY <1>2, <1>3, <1>6, <1>7 DEF Consistent, UserIsLinked
  <2>6. ExternalsOK(s)'
    <3>1. /\ \A n \in Rows : r.external # None /\ external[n] = r.external => n = r.who
          /\ \A a, b \in Rows : external[a] = external[b] /\ external[a] # None => a = b
      BY <1>2, <1>3 DEF Consistent, ExternalsOK
    <3> QED  BY <1>7, <1>8, <1>10, <3>1 DEF ExternalsOK
  <2> QED  BY <2>2, <2>3, <2>4, <2>5, <2>6 DEF Consistent
<1> QED  BY <1>1, <1>2, <1>3, <1>9, <1>11, <1>12, AloneStep

-----------------------------------------------------------------------------
LEMMA InitiallyAlone == Init => Alone
<1> SUFFICES ASSUME Init
             PROVE  Alone
  OBVIOUS
<1> USE RosterAssumption DEF Init
<1>1. Lone /\ AllIdle /\ Rows = {}
  BY DEF Lone, AllIdle, Rows
<1>2. ASSUME NEW r \in Operation, Current(r)
      PROVE  Consistent(r)
  <2>1. r.at = "idle" /\ r.kind = "none"
    BY <1>1, <1>2 DEF Current, Idle
  <2>2. Shape(r) /\ KnowsRow(r) /\ HasQueued(r) /\ LinkedHas(r) /\ ExternalsOK(r)
    BY <1>1, <2>1 DEF Shape, KnowsRow, HasQueued, LinkedHas, ExternalsOK
  <2>3. UserIsLinked(r)
    BY DEF UserIsLinked
  <2> QED  BY <2>2, <2>3 DEF Consistent
<1> QED  BY <1>1, <1>2 DEF Alone

\* Overlaps, failures and changes of a PIN end the calm for good.
LEMMA CalmBefore == IInv /\ [Next]_vars /\ calm' => calm
<1> SUFFICES ASSUME IInv, [Next]_vars, calm'
             PROVE  calm
  OBVIOUS
<1>1. CASE \E m \in Members, p \in Pins, f \in Profiles : Create(m, p, f)
  BY <1>1 DEF Create
<1>2. CASE \E p \in Pins, f \in Profiles : Operlog(p, f)
  BY <1>2 DEF Operlog
<1>3. CASE \E d \in Devices : SetOnline(d)
  BY <1>3 DEF SetOnline
<1>4. ASSUME NEW o \in Ops, Start(o)
      PROVE  calm
  BY <1>4 DEF Start, Enroll, StartPush, StartDelete, StartRecord, StartUpdate, StartBiometrics,
              StartTransfer, StartInbound, Begin
<1>5. ASSUME NEW o \in Ops, Continue(o)
      PROVE  calm
  BY <1>5 DEF Continue, WriteProfile, ReadPin, ReadLinks, ReadTemplates, QueueNext, LinkDevice,
              FinishPush, DeleteRow, QueueRemoval, Unlink, StoreTemplate, SetFlag, NextMember,
              EndInbound, FindByExternal, FindByPin, InsertMember, UpdateMember, UpsertConflicts
<1>6. ASSUME NEW o \in Ops, OpFails(o)
      PROVE  calm
  BY <1>6 DEF OpFails
<1>7. CASE UNCHANGED vars
  BY <1>7 DEF vars
<1>8. CASE TerminalStep
  BY <1>8, TerminalEffect
<1> QED  BY <1>1, <1>2, <1>3, <1>4, <1>5, <1>6, <1>7, <1>8 DEF Next, TerminalStep

LEMMA AloneInvariance == Spec => []Alone
<1>1. ASSUME IInv, Alone, [Next]_vars
      PROVE  Alone'
  <2>1. CASE ~calm'
    BY <2>1 DEF Alone
  <2>2. CASE calm'
    <3>1. calm
      BY <1>1, <2>2, CalmBefore
    <3>2. ASSUME NEW o \in Ops, Start(o)
          PROVE  Alone'
      BY <1>1, <2>2, <3>2, AloneStart, AloneEnroll, AloneInbound DEF Start
    <3>3. ASSUME NEW o \in Ops, Continue(o)
          PROVE  Alone'
      BY <1>1, <2>2, <3>1, <3>3, AloneUpdate, AloneEnds, AloneQueue, AloneLink, AloneDelete,
         AloneRemoval, AloneUnlink, AloneNext, AloneFind, AloneInsert, AloneUpsert DEF Continue
    <3>4. ASSUME NEW o \in Ops, OpFails(o)
          PROVE  Alone'
      BY <2>2, <3>4 DEF OpFails
    <3>5. CASE UNCHANGED vars
      <4>1. UNCHANGED <<pin, external, links, newest, op, calm>>
        BY <3>5 DEF vars, rowVars, commandVars
      <4> QED  BY <1>1, <4>1, SameTables, AloneBeside
    <3> QED  BY <1>1, <3>2, <3>3, <3>4, <3>5, AloneCreate, AloneOnline, AloneTerminal
             DEF Next, TerminalStep
  <2> QED  BY <2>1, <2>2
<1>2. IInv /\ Alone /\ [Next]_vars => Alone'
  BY <1>1
<1> QED  BY <1>2, InitiallyAlone, Invariance, PTL DEF Spec

-----------------------------------------------------------------------------
\* At rest every claim holds of Idle, which exempts no device.
LEMMA Resting ==
    ASSUME Alone, Quiet
    PROVE  Consistent(Idle)
<1>1. calm /\ Current(Idle) /\ Idle \in Operation
  BY IdleFits DEF Quiet, Current, AllIdle
<1> QED  BY <1>1 DEF Alone

\* employees.ts:354-373, 546-571, 675-690, 751-779 and route.ts:201-229: a user
\* a device holds is of a member linked there, so a delete finds every device
\* that has the user; but for users entered at the device, and those whose
\* removal was lost.
THEOREM NoGhostWhenAlone == Spec => []NoGhostUser
<1>1. ASSUME Alone, TablesOK PROVE NoGhostUser
  <2> SUFFICES ASSUME Quiet, NEW d \in Devices, NEW p \in Pins, Settled(d, p), holds[d][p] # None
               PROVE  \E m \in Rows : pin[m] = p /\ <<m, d>> \in links
    BY DEF NoGhostUser
  <2>1. UserIsLinked(Idle) /\ Idle.at = "idle"
    BY Resting, <1>1 DEF Consistent, Idle
  <2>2. newest[d][p] \in Profiles
    BY <1>1 DEF TablesOK, Made
  <2> QED  BY <2>1, <2>2 DEF UserIsLinked
<1>2. Alone /\ TablesOK => NoGhostUser
  BY <1>1
<1> QED  BY <1>2, AloneInvariance, TablesInvariance, PTL

\* The same lines, the other way round: a device that employee_devices links
\* to a member has the user, but for what was lost or edited there.
THEOREM LinkedIsThereWhenAlone == Spec => []LinkedIsThere
<1>1. ASSUME IInv, Alone, TablesOK PROVE LinkedIsThere
  <2> SUFFICES ASSUME Quiet, NEW l \in links, Settled(l[2], pin[l[1]])
               PROVE  holds[l[2]][pin[l[1]]] # None
    BY DEF LinkedIsThere
  <2>1. LinkedHas(Idle) /\ Idle.at = "idle"
    BY Resting, <1>1 DEF Consistent, Idle
  <2>2. l[1] \in Rows /\ l[2] \in Devices /\ l = <<l[1], l[2]>>
    BY <1>1 DEF IInv, LinksOK
  <2>3. pin[l[1]] \in Pins
    BY <1>1, <2>2 DEF IInv, RowsOK, Rows
  <2>4. newest[l[2]][pin[l[1]]] \in Profiles
    BY <2>1, <2>2 DEF LinkedHas, Leaving
  <2> QED  BY <1>1, <2>2, <2>3, <2>4, RosterAssumption DEF TablesOK, Made
<1>2. IInv /\ Alone /\ TablesOK => LinkedIsThere
  BY <1>1
<1> QED  BY <1>2, Invariance, AloneInvariance, TablesInvariance, PTL

\* employees.ts:204-231, 266-292: what an update or a push sends has reached
\* the queue of every linked device that is not left to do.
THEOREM UpdatesReachWhenAlone == Spec => []UpdateReachesLinked
<1>1. ASSUME IInv, Alone PROVE UpdateReachesLinked
  <2> SUFFICES ASSUME calm, NEW o \in Ops, op[o].at = "push", op[o].kind \in {"update", "push"},
                      NEW d \in Devices, <<op[o].who, d>> \in links, d \notin op[o].todo
               PROVE  newest[d][op[o].pin] = op[o].cmd
    BY DEF UpdateReachesLinked
  <2>1. PICK r \in Operation : r = op[o]
    BY <1>1 DEF IInv, OpsAreFunction
  <2>2. Current(r)
    BY <2>1 DEF Current, AllIdle, Idle
  <2> QED  BY <1>1, <2>1, <2>2 DEF Alone, Consistent, HasQueued
<1>2. IInv /\ Alone => UpdateReachesLinked
  BY <1>1
<1> QED  BY <1>2, Invariance, AloneInvariance, PTL

\* route.ts:126-198: two members never share an external id, although no
\* index of the database forbids it.
THEOREM ExternalsUniqueWhenAlone == Spec => []ExternalIsUnique
<1>1. ASSUME IInv, Alone PROVE ExternalIsUnique
  <2> SUFFICES ASSUME calm PROVE ExternalIsUnique
    BY DEF ExternalIsUnique
  <2>1. PICK r \in Operation : Current(r)
    BY <1>1, IdleFits DEF Current, AllIdle, IInv, OpsAreFunction
  <2> QED  BY <1>1, <2>1 DEF Alone, Consistent, ExternalsOK, ExternalIsUnique
<1>2. IInv /\ Alone => ExternalIsUnique
  BY <1>1
<1> QED  BY <1>2, Invariance, AloneInvariance, PTL
=============================================================================
