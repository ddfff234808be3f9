--------------------------- MODULE ConfirmDialogs ---------------------------
(***************************************************************************)
(* The dialogs in which an operator confirms what cannot be undone, in one *)
(* browser tab that moves between pages: commands on a terminal's page,    *)
(* maintenance and reboot on its settings page, bulk actions on the groups *)
(* page, deletion and transfer of a member, deletion of a tenant; and the  *)
(* list of commands on the terminal's page.                                *)
(*                                                                         *)
(* A dialog can be dismissed while its call is on its way.  What was typed *)
(* belongs to the page, not to one opening of the dialog, and the answer   *)
(* of a call acts on whatever the page shows by then.                      *)
(***************************************************************************)
EXTENDS Naturals, Sequences, FiniteSets

CONSTANTS Kinds,     \* destructive commands, and kinds of maintenance
          Groups, Devices, Reasons, None,
          ListLimit, \* of the commands the terminal's page lists
          MaxOpenings, MaxCalls, MaxVisits, MaxDrops \* bounds: dialogs opened, buttons
                     \* pressed, pages visited, answers that never arrive

Pages == {"device", "settings", "groups", "member", "tenant", "elsewhere"}

Dialogs(p) ==
    CASE p = "device" -> {"command"}
      [] p = "settings" -> {"maintenance", "reboot"}
      [] p = "groups" -> {"bulk"}
      [] p = "member" -> {"delete", "transfer"}
      [] p = "tenant" -> {"deleteTenant"}
      [] p = "elsewhere" -> {}

\* A transfer is opened on the terminal the member is on.
Targets(m) ==
    CASE m \in {"command", "maintenance"} -> Kinds
      [] m = "bulk" -> Groups \X {"reboot", "clear_log"}
      [] m = "transfer" -> Devices
      [] m \in {"reboot", "delete", "deleteTenant"} -> {m}

AllDialogs == UNION {Dialogs(p) : p \in Pages}
AllTargets == UNION {Targets(m) : m \in AllDialogs}

ASSUME DialogsAssumption ==
    /\ None \notin Kinds \cup Groups \cup Devices \cup Reasons
    /\ "harmless" \notin AllTargets
    /\ ListLimit \in Nat \ {0}
    /\ MaxOpenings \in Nat /\ MaxCalls \in Nat /\ MaxVisits \in Nat /\ MaxDrops \in Nat

VARIABLES page, visit, \* the page shown, and how many were shown so far
          shown,       \* the dialog open on it and what it is about
          typed,       \* what each dialog's fields hold
          openings,    \* how often a dialog was opened
          calls,       \* the calls made
          fate,        \* what became of each call's command in device_commands
          older,       \* created_at of its row, as the rows there were by then
          list,        \* what the terminal's page knows of that
          cancels,     \* commands whose cancellation is on its way
          drops

tabVars == <<page, visit, shown, typed, openings>>
queueVars == <<fate, older, list, cancels>>
dialogsVars == <<tabVars, calls, queueVars, drops>>

\* secret: the operator password, or the tenant's name typed to confirm.
Fields == [reason : Reasons \cup {None}, secret : {"right", "wrong", None},
           to : Devices \cup {None}]
Empty == [reason |-> None, secret |-> None, to |-> None]
AllEmpty == [m \in AllDialogs |-> Empty]

Call == [dialog : AllDialogs, target : AllTargets \cup {"harmless"}, with : Fields,
         opening : 0 .. MaxOpenings, visit : Nat,
         served : {"not yet", "done", "refused"},
         told : {"not yet", "done", "refused", "never"}]

Fates == {"none", "pending", "over", "cancelled"}

DialogsTypeOK ==
    /\ page \in Pages /\ visit \in Nat
    /\ shown = None \/ /\ shown.dialog \in Dialogs(page)
                       /\ shown.target \in Targets(shown.dialog)
                       /\ shown.opening \in 1 .. openings
    /\ typed \in [AllDialogs -> Fields] /\ openings \in 0 .. MaxOpenings
    /\ Len(calls) \leq MaxCalls /\ \A k \in DOMAIN calls : calls[k] \in Call
    /\ fate \in [1 .. MaxCalls -> Fates] /\ list \in [1 .. MaxCalls -> Fates]
    /\ older \in [1 .. MaxCalls -> SUBSET (1 .. MaxCalls)]
    /\ cancels \subseteq 1 .. MaxCalls /\ drops \in 0 .. MaxDrops

DialogsInit ==
    /\ page \in Pages \ {"elsewhere"} /\ visit = 1
    /\ shown = None /\ typed = AllEmpty /\ openings = 0
    /\ calls = <<>>
    /\ fate = [k \in 1 .. MaxCalls |-> "none"] /\ list = fate
    /\ older = [k \in 1 .. MaxCalls |-> {}]
    /\ cancels = {} /\ drops = 0

\* isPending of a dialog's mutation; a page that is left and visited again has a new one.
IsPending(m) ==
    \E k \in DOMAIN calls : /\ calls[k].dialog = m /\ calls[k].visit = visit
                            /\ calls[k].told = "not yet"

-----------------------------------------------------------------------------
(* The operator                                                            *)

Navigate(p) ==
    /\ shown = None /\ p # page /\ visit < MaxVisits
    /\ page' = p /\ visit' = visit + 1
    /\ typed' = AllEmpty
    /\ UNCHANGED <<shown, openings, calls, queueVars, drops>>

\* The command buttons are off while a command of the page is on its way; the buttons
\* of the other pages are not.
AnyTime(m) == TRUE
ButtonIsOn(m) == m = "command" => ~IsPending(m)

Open(m, t) ==
    /\ shown = None /\ openings < MaxOpenings
    /\ ButtonIsOn(m)
    /\ openings' = openings + 1
    /\ shown' = [dialog |-> m, target |-> t, opening |-> openings']
    /\ UNCHANGED <<page, visit, typed, calls, queueVars, drops>>

Type(fields) ==
    /\ shown # None
    /\ typed' = [typed EXCEPT ![shown.dialog] = fields]
    /\ UNCHANGED <<page, visit, shown, openings, calls, queueVars, drops>>

TypeReason == \E r \in Reasons : Type([typed[shown.dialog] EXCEPT !.reason = r])
TypeSecret == \E s \in {"right", "wrong"} : Type([typed[shown.dialog] EXCEPT !.secret = s])
Choose == \E d \in Devices \ {shown.target} : Type([typed[shown.dialog] EXCEPT !.to = d])

\* From the first field to the last.
Typing ==
    /\ shown # None
    /\ LET x == typed[shown.dialog]
       IN  CASE shown.dialog = "transfer" -> Choose \/ (x.to # None /\ TypeReason)
             [] shown.dialog = "deleteTenant" -> TypeSecret
             [] OTHER -> TypeReason \/ (x.reason # None /\ TypeSecret)

\* Escape and a click outside empty the password dialog; Cancel keeps what was typed, and
\* so does every way to leave the other two.
Dismiss ==
    /\ shown # None
    /\ shown' = None
    /\ \/ UNCHANGED typed
       \/ /\ shown.dialog \notin {"transfer", "deleteTenant"}
          /\ typed' = [typed EXCEPT ![shown.dialog] = Empty]
    /\ UNCHANGED <<page, visit, openings, calls, queueVars, drops>>

\* What the submit button asks for.  The choice of a transfer may be left from another
\* source, which the list of choices then lacks.
canSubmit(m, x) ==
    CASE m = "transfer" -> x.to # None /\ x.reason # None
      [] m = "deleteTenant" -> x.secret = "right"
      [] OTHER -> x.secret # None /\ x.reason # None

Request(m, t, x, o) ==
    /\ Len(calls) < MaxCalls
    /\ calls' = Append(calls, [dialog |-> m, target |-> t, with |-> x, opening |-> o,
                               visit |-> visit, served |-> "not yet", told |-> "not yet"])

\* The submit button is off while the dialog's call is on its way.
AlwaysOn(m) == TRUE
SubmitIsOn(m) == ~IsPending(m)

Confirm ==
    /\ shown # None
    /\ SubmitIsOn(shown.dialog) /\ canSubmit(shown.dialog, typed[shown.dialog])
    /\ Request(shown.dialog, shown.target, typed[shown.dialog], shown.opening)
    /\ UNCHANGED <<tabVars, queueVars, drops>>

\* Sync time, Get info and the like ask nothing and use the page's same mutation.
safeQueue ==
    /\ page = "device" /\ shown = None /\ ~IsPending("command")
    /\ Request("command", "harmless", Empty, 0)
    /\ UNCHANGED <<tabVars, queueVars, drops>>

-----------------------------------------------------------------------------
(* The server                                                              *)

\* A wrong operator password or tenant name is refused, as is a transfer to where the
\* member already is.
Refuses(c) ==
    \/ c.dialog # "transfer" /\ c.target # "harmless" /\ c.with.secret # "right"
    \/ c.dialog = "transfer" /\ c.with.to = c.target

Commands == {"command", "maintenance", "reboot"}
Made == {k \in 1 .. MaxCalls : fate[k] # "none"}

\* A terminal that is paused or away, a record that is gone or a failing statement make
\* the server refuse too.  The operator may have been told of a lost connection by then.
Serve(k) ==
    /\ k \in DOMAIN calls /\ calls[k].served = "not yet"
    /\ \/ /\ calls' = [calls EXCEPT ![k].served = "refused"]
          /\ UNCHANGED <<fate, older>>
       \/ /\ ~Refuses(calls[k])
          /\ calls' = [calls EXCEPT ![k].served = "done"]
          /\ IF calls[k].dialog \in Commands
             THEN /\ fate' = [fate EXCEPT ![k] = "pending"]
                  /\ older' = [older EXCEPT ![k] = Made]
             ELSE UNCHANGED <<fate, older>>
    /\ UNCHANGED <<tabVars, list, cancels, drops>>

\* The terminal takes the command and answers, or the command expires.  A heartbeat that
\* had read a command before it was cancelled hands it out all the same.
RunsOut(k) ==
    /\ fate[k] \in {"pending", "cancelled"}
    /\ fate' = [fate EXCEPT ![k] = "over"]
    /\ UNCHANGED <<tabVars, calls, older, list, cancels, drops>>

-----------------------------------------------------------------------------
(* Answers                                                                 *)

CloseOf(m) == shown' = IF shown # None /\ shown.dialog = m THEN None ELSE shown
Stay == UNCHANGED <<page, visit>>

\* onConfirm of the password dialogs: closes the dialog for whatever it is open by now.
Confirmed(c) ==
    /\ c.dialog \in {"command", "maintenance", "reboot", "bulk"}
    /\ Stay /\ UNCHANGED typed
    /\ IF c.visit = visit /\ c.target # "harmless" THEN CloseOf(c.dialog)
       ELSE UNCHANGED shown

Transferred(c) ==
    /\ c.dialog = "transfer"
    /\ Stay
    /\ IF c.visit = visit
       THEN /\ CloseOf("transfer")
            /\ typed' = [typed EXCEPT !["transfer"].to = None, !["transfer"].reason = None]
       ELSE UNCHANGED <<shown, typed>>

\* Leads to the list of members or tenants, from wherever the operator is by now; the
\* former by loading the document anew, which nobody's answer survives.
Survives(c, k) == calls[k].told # "not yet" \/ c.dialog # "delete"
Deleted(c) ==
    /\ c.dialog \in {"delete", "deleteTenant"}
    /\ page' = "elsewhere" /\ visit' = visit + 1
    /\ shown' = None /\ typed' = AllEmpty

onSuccess(k) ==
    /\ k \in DOMAIN calls /\ calls[k].served = "done" /\ calls[k].told = "not yet"
    /\ calls' = [j \in DOMAIN calls |->
          [calls[j] EXCEPT !.told = IF j = k THEN "done"
                                    ELSE IF Survives(calls[k], j) THEN @ ELSE "never"]]
    /\ Confirmed(calls[k]) \/ Transferred(calls[k]) \/ Deleted(calls[k])
    /\ UNCHANGED <<openings, queueVars, drops>>

\* A message; the dialog stays for another attempt.
onError(k) ==
    /\ k \in DOMAIN calls /\ calls[k].told = "not yet"
    /\ \/ calls[k].served = "refused" /\ UNCHANGED drops
       \/ drops < MaxDrops /\ drops' = drops + 1
    /\ calls' = [calls EXCEPT ![k].told = "refused"]
    /\ UNCHANGED <<tabVars, queueVars>>

-----------------------------------------------------------------------------
(* The list of commands                                                    *)

\* Newest first, and no more than the limit.
Listed(k) == Cardinality({j \in Made : k \in older[j]}) < ListLimit

\* Every three seconds, and after this tab queued or cancelled something; and only when
\* a command is to be listed that the page lacks.
Shows == list' = [k \in 1 .. MaxCalls |-> IF Listed(k) THEN fate[k] ELSE "none"]
FetchesNew ==
    /\ page = "device" /\ \E k \in Made : Listed(k) /\ list[k] = "none"
    /\ Shows
    /\ UNCHANGED <<tabVars, calls, fate, older, cancels, drops>>
listCommands ==
    /\ page = "device"
    /\ Shows
    /\ UNCHANGED <<tabVars, calls, fate, older, cancels, drops>>

PressCancel(k) ==
    /\ page = "device" /\ shown = None /\ list[k] = "pending"
    /\ cancels' = cancels \cup {k}
    /\ UNCHANGED <<tabVars, calls, fate, older, list, drops>>

cancelCommand(k) ==
    /\ k \in cancels
    /\ cancels' = cancels \ {k}
    /\ fate' = [fate EXCEPT ![k] = IF @ = "pending" THEN "cancelled" ELSE @]
    /\ UNCHANGED <<tabVars, calls, older, list, drops>>

-----------------------------------------------------------------------------

DialogsNext ==
    \/ \E p \in Pages : Navigate(p)
    \/ \E m \in Dialogs(page) : \E t \in Targets(m) : Open(m, t)
    \/ Typing \/ Dismiss \/ Confirm \/ safeQueue
    \/ \E k \in 1 .. MaxCalls :
        \/ Serve(k) \/ RunsOut(k) \/ onSuccess(k) \/ onError(k)
        \/ PressCancel(k) \/ cancelCommand(k)
    \/ listCommands

\* The open page polls.
DialogsSpec == DialogsInit /\ [][DialogsNext]_dialogsVars /\ WF_dialogsVars(listCommands)

-----------------------------------------------------------------------------
(* What the operator relies on                                             *)

\* One opening of a dialog, confirmed as often as its button allows, has one effect,
\* unless the answer to its first call was lost and the operator tried again.
OneEffectPerOpening ==
    \A j, k \in DOMAIN calls :
        /\ j < k /\ calls[j].opening = calls[k].opening /\ calls[j].opening # 0
        /\ calls[j].served = "done" /\ calls[k].served = "done"
        => calls[j].told = "refused"

\* On a terminal's page a dialog that closes by itself tells the truth: the command it
\* showed was queued by a confirmation in that very dialog, although a dismissed
\* dialog's answer may arrive after another was opened.
ClosedIsDone ==
    [][shown # None /\ shown.dialog = "command" /\ shown' = None
         /\ page' = page /\ calls' # calls =>
         \E k \in DOMAIN calls : /\ calls[k].opening = shown.opening
                                 /\ calls[k].target = shown.target
                                 /\ calls[k].served = "done"]_dialogsVars

\* What became of a command is eventually shown on the page of its terminal, whether or
\* not this tab had any part in it, unless newer commands have pushed it off the list.
ListComesRight ==
    \A k \in 1 .. MaxCalls :
        fate[k] \in {"over", "cancelled"} /\ page = "device"
            ~> list[k] = fate[k] \/ ~Listed(k) \/ page # "device"

\* The page takes the queue for no more than CommandFate, which CommandQueue keeps.
DialogFate == INSTANCE CommandFate WITH Rows <- 1 .. MaxCalls
DialogFateSpec == DialogFate!Spec
=============================================================================
