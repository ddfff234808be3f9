---------------------------- MODULE RecordForms ----------------------------
(***************************************************************************)
(* Seven forms of the dashboard, each open in several browser tabs over    *)
(* the same stored records: the member's profile, a tenant's identity and  *)
(* integration, its shift window, a terminal's modalities, and the dialogs *)
(* on the lists of groups and locations.                                   *)
(*                                                                         *)
(* A form holds either the edits alone, laid over the page's data, or a    *)
(* copy of a record.  Data arrives by polls, by refetches a save calls for *)
(* and when a window is focused; a save is a call on its way, during which *)
(* the operator types on.  Of each record two fields are kept; NULL and    *)
(* the empty text are both Blank.                                          *)
(***************************************************************************)
EXTENDS Naturals, FiniteSets

CONSTANTS Tabs, Rows, Main,   \* Main is the row of a page that shows one record
          At,                 \* what the fields of each row hold at first
          Forms,              \* the forms explored
          Values, Blank,      \* what fields hold
          Gone, Null,
          MaxActs, MaxFaults  \* bounds: what operators type, save and delete in each
                              \* form; failing statements

ASSUME RecordFormsAssumption ==
    /\ IsFiniteSet(Tabs) /\ IsFiniteSet(Rows) /\ Main \in Rows
    /\ At \in [Rows -> Values] /\ \A r, s \in Rows : At[r] = At[s] => r = s
    /\ Blank \notin Values /\ Gone \notin Rows /\ Null \notin Rows
    /\ "add" \notin Rows /\ "closed" \notin Rows
    /\ Forms \subseteq {"member", "tenant", "integration", "shift", "modalities", "group",
                        "location"}
    /\ MaxActs \in [Forms -> Nat] /\ MaxFaults \in Nat

VARIABLES form,     \* the form this behaviour is about
          store,    \* the records
          view,     \* the data of each tab's page
          due,      \* tabs whose query was invalidated
          dialog,   \* what the form is open for: a row, "add", or "closed"
          draft,    \* what the form holds
          call,     \* the save on its way
          meant,    \* what the operator typed, over the row the form was filled from
          blanked,  \* tabs whose form an answered create emptied under another dialog
          lastWriter, \* the tab that wrote last, if it was not told of a failure
          switchedOff, faults, acts

pageVars == <<view, due>>
formVars == <<dialog, draft>>
ghostVars == <<meant, blanked, lastWriter, switchedOff>>
formsVars == <<form, store, pageVars, formVars, call, ghostVars, faults, acts>>

-----------------------------------------------------------------------------
(* The forms                                                               *)

\* fields and those that must not be blank; whether the form holds the edits alone, a
\* copy of the row it was opened on, or a copy of the latest data; whether its data is
\* polled.
MemberForm == [fields |-> {"name", "card"}, required |-> {"name"}, holds |-> "edits",
               polled |-> TRUE]
TenantForm == [fields |-> {"name", "timezone"}, required |-> {"name", "timezone"},
               holds |-> "edits", polled |-> FALSE]
IntegrationForm == [fields |-> {"endpoint", "token"}, required |-> {}, holds |-> "row",
                    polled |-> FALSE]
ShiftForm == [fields |-> {"start", "end"}, required |-> {"start", "end"},
              holds |-> "latest", polled |-> FALSE]
ModalitiesForm == [fields |-> {"face", "palm"}, required |-> {"face", "palm"},
                   holds |-> "row", polled |-> TRUE]
GroupForm == [fields |-> {"name", "description"}, required |-> {"name"}, holds |-> "row",
              polled |-> TRUE]
LocationForm == [fields |-> {"name", "address"}, required |-> {"name"}, holds |-> "row",
                 polled |-> FALSE]

Form == [member |-> MemberForm, tenant |-> TenantForm, integration |-> IntegrationForm,
         shift |-> ShiftForm, modalities |-> ModalitiesForm,
         group |-> GroupForm, location |-> LocationForm][form]

Lists == {"group", "location"}
IsList == form \in Lists

\* Whether the handler reads the row first and writes every column.
ReadsFirst == form \in {"member", "group", "location"}
Nothing == [f \in {} |-> Blank]
Blanks == [f \in Form.fields |-> Blank]

\* The member page's query selects neither role, privilege, card nor state: it shows
\* their defaults.
getEnrollmentStatus(row) == [row EXCEPT !.card = Blank]
Selected(row) == IF form = "member" /\ row # Gone THEN getEnrollmentStatus(row) ELSE row
Queried == [r \in Rows |-> Selected(store[r])]

\* What filling the form from a row puts into it; a token is never sent to the page.
Filled(row) ==
    IF Form.holds = "edits" THEN Nothing
    ELSE IF form = "integration" THEN [row EXCEPT !.token = Blank]
    ELSE row

-----------------------------------------------------------------------------

Contents == Values \cup {Blank}
Record == [Form.fields -> Contents]
Edits == UNION {[D -> Contents] : D \in SUBSET Form.fields}

\* What was meant by a save of a form that had been emptied is not known.
SaveCall == [op : {"create", "update"}, row : Rows \cup {Null}, sent : Edits,
             before : Record \cup {Null}, stage : {"sent", "read", "done", "failed"},
             meant : Edits \cup {Null}]

FormsTypeOK ==
    /\ form \in Forms
    /\ store \in [Rows -> Record \cup {Gone}]
    /\ view \in [Tabs -> [Rows -> Record \cup {Gone}]]
    /\ due \subseteq Tabs
    /\ dialog \in [Tabs -> Rows \cup {"add", "closed"}]
    /\ draft \in [Tabs -> Edits] /\ meant \in [Tabs -> Edits]
    /\ call \in [Tabs -> SaveCall \cup {Null}]
    /\ blanked \subseteq Tabs /\ lastWriter \in Tabs \cup {Null}
    /\ switchedOff \in BOOLEAN
    /\ faults \in 0 .. MaxFaults /\ acts \in 0 .. MaxActs[form]

\* The page was just loaded; every record differs from the others.
FormsInit ==
    /\ form \in Forms
    /\ \E listed \in SUBSET (Rows \ {Main}) :
        /\ listed = {} \/ IsList
        /\ store = [r \in Rows |->
              IF r \in {Main} \cup listed THEN [f \in Form.fields |-> At[r]] ELSE Gone]
    /\ view = [t \in Tabs |-> Queried]
    /\ due = {}
    /\ dialog = [t \in Tabs |-> IF IsList THEN "closed" ELSE Main]
    /\ draft = [t \in Tabs |-> IF IsList THEN Blanks ELSE Filled(store[Main])]
    /\ call = [t \in Tabs |-> Null]
    /\ meant = draft /\ blanked = {} /\ lastWriter = Null /\ switchedOff = FALSE
    /\ faults = 0 /\ acts = 0

Act == acts < MaxActs[form] /\ acts' = acts + 1

-----------------------------------------------------------------------------
(* Pages                                                                   *)

\* A poll, a refetch after a save, or the window's focus.  One request of a query is on
\* its way at a time and invalidate drops it, so data that arrives late is like data
\* fetched earlier.  The shift form is filled again whenever the data has changed.
Fetch(t) ==
    /\ view' = [view EXCEPT ![t] = Queried]
    /\ IF Form.holds = "latest" /\ Queried # view[t]
       THEN /\ draft' = [draft EXCEPT ![t] = Queried[Main]]
            /\ meant' = [meant EXCEPT ![t] = Queried[Main]]
       ELSE UNCHANGED <<draft, meant>>
    /\ due' = due \ {t}
    /\ UNCHANGED <<form, store, dialog, call, blanked, lastWriter, switchedOff, faults, acts>>

NoRefetch(t) == due' = due
Invalidate(t) == due' = due \cup {t}

-----------------------------------------------------------------------------
(* Operators                                                               *)

\* The Add dialog shows what the form was left with.
OpenAdd(t) ==
    /\ IsList /\ dialog[t] = "closed"
    /\ dialog' = [dialog EXCEPT ![t] = "add"]
    /\ UNCHANGED <<form, store, pageVars, draft, call, ghostVars, faults, acts>>

KeepsForm(t, r) == draft
FillsForm(t, r) == [draft EXCEPT ![t] = Filled(view[t][r])]
OpenEdit(t, r) ==
    /\ IsList /\ dialog[t] = "closed" /\ view[t][r] # Gone
    /\ dialog' = [dialog EXCEPT ![t] = r]
    /\ draft' = FillsForm(t, r)
    /\ meant' = [meant EXCEPT ![t] = view[t][r]]
    /\ blanked' = blanked \ {t}
    /\ UNCHANGED <<form, store, pageVars, call, lastWriter, switchedOff, faults, acts>>

\* Cancel keeps the form, Escape and a click outside empty it.
Close(t) ==
    /\ IsList /\ dialog[t] # "closed"
    /\ dialog' = [dialog EXCEPT ![t] = "closed"]
    /\ draft' \in {draft, [draft EXCEPT ![t] = Blanks]}
    /\ meant' = [meant EXCEPT ![t] = draft'[t]]
    /\ UNCHANGED <<form, store, pageVars, call, blanked, lastWriter, switchedOff, faults,
                   acts>>

Discard(t) ==
    /\ Form.holds = "edits" /\ draft[t] # Nothing
    /\ draft' = [draft EXCEPT ![t] = Nothing]
    /\ meant' = [meant EXCEPT ![t] = Nothing]
    /\ UNCHANGED <<form, store, pageVars, dialog, call, blanked, lastWriter, switchedOff,
                   faults, acts>>

Over(new, old) ==
    [f \in DOMAIN new \cup DOMAIN old |-> IF f \in DOMAIN new THEN new[f] ELSE old[f]]

Entered(t, f, v) ==
    /\ dialog[t] # "closed"
    /\ draft' = [draft EXCEPT ![t] = Over([x \in {f} |-> v], @)]
    /\ meant' = [meant EXCEPT ![t] = Over([x \in {f} |-> v], @)]

Type(t, f, v) ==
    /\ form # "modalities" /\ Act
    /\ f \in DOMAIN draft[t] => v # draft[t][f]
    /\ Entered(t, f, v)
    /\ UNCHANGED <<form, store, pageVars, dialog, call, blanked, lastWriter, switchedOff,
                   faults>>

-----------------------------------------------------------------------------
(* Saves                                                                   *)

\* An integration without endpoint is none: everything is cleared.  A blank token is sent
\* as null.
submitIntegration(d) == IF d["endpoint"] = Blank THEN Blanks ELSE d
Whole(t, d) == [f \in Form.fields |-> IF f \in DOMAIN d THEN d[f] ELSE view[t][Main][f]]
EditsAlone(t, d) == d

Sent(t, d) ==
    IF form = "integration" THEN submitIntegration(d)
    ELSE IF Form.holds = "edits" THEN EditsAlone(t, d)
    ELSE d

Submit(t, d) ==
    /\ call[t] = Null /\ d # Nothing
    /\ \A f \in Form.required \cap DOMAIN d : d[f] # Blank
    /\ call' = [call EXCEPT ![t] =
         [op |-> IF dialog[t] = "add" THEN "create" ELSE "update",
          row |-> IF dialog[t] = "add" THEN Null ELSE dialog[t],
          sent |-> Sent(t, d), before |-> Null, stage |-> "sent",
          meant |-> IF t \in blanked THEN Null ELSE meant'[t]]]

Save(t) ==
    /\ form # "modalities" /\ dialog[t] # "closed" /\ Act
    /\ UNCHANGED <<form, store, pageVars, formVars, ghostVars, faults>>
    /\ Submit(t, draft[t])

\* A switch saves what the card holds, with itself turned.
toggle(t, f, v) ==
    /\ form = "modalities" /\ v # draft[t][f] /\ Act
    /\ Entered(t, f, v)
    /\ Submit(t, draft'[t])
    /\ UNCHANGED <<form, store, pageVars, dialog, blanked, lastWriter, switchedOff, faults>>

\* When the audit row fails after the DELETE, the operator sees an error and nothing is
\* fetched again.
del(t, r) ==
    /\ IsList /\ view[t][r] # Gone /\ Act
    /\ store' = [store EXCEPT ![r] = Gone]
    /\ \/ Invalidate(t) /\ lastWriter' = t /\ UNCHANGED faults
       \/ /\ faults < MaxFaults /\ faults' = faults + 1
          /\ lastWriter' = Null /\ UNCHANGED due
    /\ UNCHANGED <<form, view, formVars, call, meant, blanked, switchedOff>>

-----------------------------------------------------------------------------
(* Handlers                                                                *)

\* What the handlers store: of a patch the fields that were sent; no integration without
\* wiping its token, and no token for null; of a row read first all columns, as sent or
\* as they were read.
tenantUpdate(row, sent) == Over(sent, row)
StoresNull(row, sent) == sent
setIntegration(row, sent) ==
    IF sent["endpoint"] = Blank THEN Blanks
    ELSE IF sent["token"] = Blank THEN [sent EXCEPT !.token = row["token"]]
    ELSE sent
setShiftConfig(row, sent) == sent
updateModalities(row, sent) == sent
rowUpdate(before, sent) == Over(sent, before)

Updated(c) ==
    CASE form = "tenant" -> tenantUpdate(store[c.row], c.sent)
      [] form = "integration" -> setIntegration(store[c.row], c.sent)
      [] form = "shift" -> setShiftConfig(store[c.row], c.sent)
      [] form = "modalities" -> updateModalities(store[c.row], c.sent)
      [] ReadsFirst -> rowUpdate(c.before, c.sent)

Stage(t, s) == call' = [call EXCEPT ![t].stage = s]

SelectBefore(t) ==
    /\ call[t] # Null /\ call[t].stage = "sent"
    /\ call[t].op = "update" /\ ReadsFirst
    /\ IF store[call[t].row] = Gone THEN Stage(t, "failed")
       ELSE call' = [call EXCEPT ![t].before = store[call[t].row], ![t].stage = "read"]
    /\ UNCHANGED <<form, store, pageVars, formVars, ghostVars, faults, acts>>

Written(t, r, record) ==
    /\ store' = [store EXCEPT ![r] = record]
    /\ switchedOff' = (switchedOff \/ (form = "integration" /\ record["endpoint"] = Blank))
    /\ lastWriter' = t
    /\ Stage(t, "done")

create(t) ==
    /\ call[t] # Null /\ call[t].stage = "sent" /\ call[t].op = "create"
    /\ \E r \in Rows : store[r] = Gone /\ Written(t, r, call[t].sent)
    /\ UNCHANGED <<form, pageVars, formVars, meant, blanked, faults, acts>>

update(t) ==
    /\ call[t] # Null /\ call[t].op = "update"
    /\ call[t].stage = IF ReadsFirst THEN "read" ELSE "sent"
    /\ LET c == call[t]
       IN  IF store[c.row] = Gone
           THEN Stage(t, "done") /\ UNCHANGED <<store, lastWriter, switchedOff>>
           ELSE Written(t, c.row, Updated(c))
    /\ UNCHANGED <<form, pageVars, formVars, meant, blanked, faults, acts>>

\* A statement fails: one before the write, or the audit row and the pushes after it.
Fail(t) ==
    /\ call[t] # Null /\ call[t].stage # "failed" /\ faults < MaxFaults
    /\ Stage(t, "failed")
    /\ faults' = faults + 1
    /\ UNCHANGED <<form, store, pageVars, formVars, ghostVars, acts>>

-----------------------------------------------------------------------------
(* Answers                                                                 *)

EditsSaved(t) ==
    /\ draft' = [draft EXCEPT ![t] = Nothing] /\ meant' = [meant EXCEPT ![t] = Nothing]
    /\ UNCHANGED <<dialog, blanked>>
TokenSaved(t) ==
    /\ draft' = [draft EXCEPT ![t].token = Blank] /\ meant' = [meant EXCEPT ![t].token = Blank]
    /\ UNCHANGED <<dialog, blanked>>
CardSaved(t) == UNCHANGED <<dialog, draft, meant, blanked>>

\* The Add dialog closes and the form is emptied, whichever dialog it is open for.
RowCreated(t) ==
    /\ dialog' = [dialog EXCEPT ![t] = IF @ = "add" THEN "closed" ELSE @]
    /\ draft' = [draft EXCEPT ![t] = Blanks]
    /\ meant' = [meant EXCEPT ![t] = IF dialog[t] \in Rows THEN @ ELSE Blanks]
    /\ blanked' = IF dialog[t] \in Rows THEN blanked \cup {t} ELSE blanked

\* The Edit dialog closes, whichever row it is open for.
RowUpdated(t) ==
    /\ dialog' = [dialog EXCEPT ![t] = IF @ \in Rows THEN "closed" ELSE @]
    /\ UNCHANGED <<draft, meant, blanked>>

onSuccess(t) ==
    /\ call[t] # Null /\ call[t].stage = "done"
    /\ \/ Form.holds = "edits" /\ EditsSaved(t)
       \/ form = "integration" /\ TokenSaved(t)
       \/ form \in {"shift", "modalities"} /\ CardSaved(t)
       \/ IsList /\ call[t].op = "create" /\ RowCreated(t)
       \/ IsList /\ call[t].op = "update" /\ RowUpdated(t)
    /\ call' = [call EXCEPT ![t] = Null]
    /\ Invalidate(t)
    /\ UNCHANGED <<form, store, view, lastWriter, switchedOff, faults, acts>>

\* Only a message: form and data stay.
onError(t) ==
    /\ call[t] # Null /\ call[t].stage = "failed"
    /\ call' = [call EXCEPT ![t] = Null]
    /\ lastWriter' = IF lastWriter = t THEN Null ELSE lastWriter
    /\ UNCHANGED <<form, store, pageVars, formVars, meant, blanked, switchedOff, faults, acts>>

FormsNext ==
    \E t \in Tabs :
        \/ Fetch(t)
        \/ OpenAdd(t) \/ Close(t) \/ Discard(t) \/ Save(t)
        \/ \E r \in Rows : OpenEdit(t, r) \/ del(t, r)
        \/ \E f \in Form.fields, v \in Values : Type(t, f, v) \/ toggle(t, f, v)
        \/ \E f \in Form.fields \ Form.required : Type(t, f, Blank)
        \/ SelectBefore(t) \/ create(t) \/ update(t) \/ Fail(t)
        \/ onSuccess(t) \/ onError(t)

\* Pages poll and refetch, handlers and answers come to their end.
Fairness ==
    \A t \in Tabs :
        /\ WF_formsVars((t \in due \/ Form.polled) /\ Fetch(t))
        /\ WF_formsVars(SelectBefore(t)) /\ WF_formsVars(create(t)) /\ WF_formsVars(update(t))
        /\ WF_formsVars(onSuccess(t)) /\ WF_formsVars(onError(t))

FormsSpec == FormsInit /\ [][FormsNext]_formsVars /\ Fairness

-----------------------------------------------------------------------------
(* Properties                                                              *)

\* A save of tab t is written, and nobody wrote the row since it was read for it.
Writes(t) ==
    /\ call[t] # Null /\ call[t].stage \in {"sent", "read"} /\ call[t].op = "update"
    /\ call'[t] # Null /\ call'[t].stage = "done"
    /\ ReadsFirst => store[call[t].row] = call[t].before
ChangesAsMeant(t) ==
    LET c == call[t]
        changed == {f \in Form.fields : store[c.row] # Gone /\ store'[c.row] # Gone
                                        /\ store'[c.row][f] # store[c.row][f]}
    IN  \A f \in changed : f \in DOMAIN c.meant /\ store'[c.row][f] = c.meant[f]

\* Saving a profile or an identity changes the fields its operator typed in, to what was
\* typed, and keeps the others as they are stored, however old the page's data is and
\* whatever it shows for them (editForm, form; update).
EditsKeepTheRest ==
    [][Form.holds = "edits" => \A t \in Tabs : Writes(t) => ChangesAsMeant(t)]_formsVars

\* A form that holds a copy saves into a record what was typed for it, or what that record
\* held when the form was filled, never a value of another record, unless a create that was
\* answered late emptied the form (setEditTarget, setForm; setStart; toggle).
CopiesAreOfTheirRow ==
    [][Form.holds # "edits" /\ form # "integration" =>
        \A t \in Tabs : Writes(t) /\ call[t].meant # Null => ChangesAsMeant(t)]_formsVars

\* An integration that was configured and never switched off keeps a token, although the
\* form forgets it after each save (submit, setIntegration).
TokenIsKept ==
    form = "integration" /\ ~switchedOff => store[Main].token # Blank

\* When the operators rest, the page of whoever wrote last shows what is stored, unless
\* the write was done and answered with an error, and so does every page that polls
\* (invalidate, refetchInterval).
ScreensCatchUp ==
    \A t \in Tabs : <>[](Form.polled \/ lastWriter = t => view[t] = Queried)
=============================================================================
