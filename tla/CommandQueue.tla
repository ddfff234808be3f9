---------------------------- MODULE CommandQueue ----------------------------
(***************************************************************************)
(* The command queue of one device: the rows of its tenant's               *)
(* device_commands table, the tRPC calls and routes that insert and cancel *)
(* them (apps/web), the ADMS handlers that hand them to the device and     *)
(* record its answers (apps/adms), and the expiry job.  Every SQL          *)
(* statement is one atomic step; everything between two awaits of one      *)
(* handler interleaves with everything else.                               *)
(*                                                                         *)
(* A row is named by its place in insertion order, which abstracts the     *)
(* uuid primary key and created_at together; command_id is a column.  The  *)
(* payload of a command and of its answer are left out.                    *)
(***************************************************************************)
EXTENDS Integers, FiniteSets

CONSTANTS Writers,     \* callers that queue commands for the device
          Polls,       \* heartbeat requests the device can have open at once
          BatchLimit,  \* LIMIT of the SELECT that feeds a heartbeat (5)
          MaxRows      \* bound on the rows ever inserted

ASSUME CommandQueueAssumption ==
    /\ BatchLimit \in Nat \ {0}
    /\ MaxRows \in Nat

VARIABLES n,        \* number of rows inserted
          cid,      \* command_id of each row
          status,   \* status of each row, "none" before it exists
          lapsed,   \* rows whose expires_at is in the past
          reached,  \* whether the expiry tick under way gets to this tenant's schema
          wpc, num, \* each writer's place in queueCommand, the id it computed
          ppc, batch, \* each heartbeat's place, the rows it selected
          handed,   \* rows each heartbeat slot has ever delivered
          inHand,   \* command ids the device holds and has not executed
          replies   \* answers posted to /devicecmd and not yet processed

rowVars == <<n, cid, status>>
expiryVars == <<lapsed, reached>>
writerVars == <<wpc, num>>
pollVars == <<ppc, batch>>
deviceVars == <<handed, inHand, replies>>
vars == <<rowVars, expiryVars, writerVars, pollVars, deviceVars>>

Rows == 1 .. MaxRows
Existing == 1 .. n

Outcome == {"success", "failed"}
\* The values of the command_status enum, and "none" for no row yet.
Statuses == {"none", "pending", "sent", "cancelled", "expired"} \cup Outcome

TypeOK ==
    /\ n \in 0 .. MaxRows
    /\ cid \in [Rows -> Nat]
    /\ status \in [Rows -> Statuses]
    /\ lapsed \subseteq Rows
    /\ reached \in BOOLEAN
    /\ wpc \in [Writers -> {"idle", "numbered"}]
    /\ num \in [Writers -> Nat]
    /\ ppc \in [Polls -> {"idle", "selected", "marked"}]
    /\ batch \in [Polls -> SUBSET Rows]
    /\ handed \in [Polls -> SUBSET Rows]
    /\ inHand \subseteq Nat
    /\ replies \subseteq [cid : Nat, ok : BOOLEAN]

Init ==
    /\ n = 0
    /\ cid = [r \in Rows |-> 0]
    /\ status = [r \in Rows |-> "none"]
    /\ lapsed = {}
    /\ reached = TRUE
    /\ wpc = [w \in Writers |-> "idle"]
    /\ num = [w \in Writers |-> 0]
    /\ ppc = [p \in Polls |-> "idle"]
    /\ batch = [p \in Polls |-> {}]
    /\ handed = [p \in Polls |-> {}]
    /\ inHand = {}
    /\ replies = {}

-----------------------------------------------------------------------------
(* queueCommand, in apps/adms and, statement for statement, in apps/web    *)

\* The ids the unique index on (device_id, command_id) holds.
UsedIds == {cid[r] : r \in Existing}

\* COALESCE(MAX(command_id), 0) + 1.
NextId == 1 + (CHOOSE m \in UsedIds \cup {0} : \A k \in UsedIds : k <= m)

\* nextCommandId: a SELECT of its own, outside any transaction.
ReadNextId(w) ==
    /\ wpc[w] = "idle"
    /\ num' = [num EXCEPT ![w] = NextId]
    /\ wpc' = [wpc EXCEPT ![w] = "numbered"]
    /\ UNCHANGED <<rowVars, expiryVars, pollVars, deviceVars>>

\* The INSERT, if the unique index lets it through.
Insert(w) ==
    /\ wpc[w] = "numbered" /\ num[w] \notin UsedIds
    /\ n < MaxRows
    /\ n' = n + 1
    /\ cid' = [cid EXCEPT ![n + 1] = num[w]]
    /\ status' = [status EXCEPT ![n + 1] = "pending"]
    /\ wpc' = [wpc EXCEPT ![w] = "idle"]
    /\ UNCHANGED <<expiryVars, num, pollVars, deviceVars>>

\* The INSERT raises a unique violation, or the calling process fails.
QueueFails(w) ==
    /\ wpc[w] # "idle"
    /\ wpc' = [wpc EXCEPT ![w] = "idle"]
    /\ UNCHANGED <<rowVars, expiryVars, num, pollVars, deviceVars>>

-----------------------------------------------------------------------------
(* Withdrawal: cancelCommand and the expiry job                            *)

Cancel(r) ==
    /\ status[r] = "pending"
    /\ status' = [status EXCEPT ![r] = "cancelled"]
    /\ UNCHANGED <<n, cid, expiryVars, writerVars, pollVars, deviceVars>>

\* Time passes the row's expires_at.
Lapse(r) ==
    /\ r \in Existing \ lapsed
    /\ lapsed' = lapsed \cup {r}
    /\ UNCHANGED <<rowVars, reached, writerVars, pollVars, deviceVars>>

\* Rows the tick's UPDATE matches: pending and past expires_at.
ExpirableSent == {r \in lapsed : status[r] \in {"pending", "sent"}}
ExpirableSentOnly == {r \in lapsed : status[r] = "sent"}
Expirable == {r \in lapsed : status[r] = "pending"}

\* A tick lists the active tenants and expires their commands one tenant after the other,
\* in one try block: it gets to this one unless the tenant is suspended or an earlier one
\* in the list has lost its schema.  Where nothing is to expire a tick makes no difference.
ListTenants ==
    /\ Expirable # {}
    /\ reached' = ~reached
    /\ UNCHANGED <<rowVars, lapsed, writerVars, pollVars, deviceVars>>

Expire ==
    /\ reached
    /\ Expirable # {}
    /\ status' = [r \in Rows |-> IF r \in Expirable THEN "expired" ELSE status[r]]
    /\ UNCHANGED <<n, cid, expiryVars, writerVars, pollVars, deviceVars>>

-----------------------------------------------------------------------------
(* The heartbeat handler: SELECT, UPDATE, response                         *)

\* Rows getPendingCommands may return.
EligibleOrSent == {r \in Existing \ lapsed : status[r] \in {"pending", "sent"}}
Eligible == {r \in Existing \ lapsed : status[r] = "pending"}

\* ORDER BY created_at LIMIT BatchLimit, and a wrong DESC.
NewestOf(S) == {r \in S : Cardinality({q \in S : q > r}) < BatchLimit}
OldestOf(S) == {r \in S : Cardinality({q \in S : q < r}) < BatchLimit}

\* An empty SELECT answers 'OK' and changes nothing.
Select(p) ==
    /\ ppc[p] = "idle" /\ Eligible # {}
    /\ batch' = [batch EXCEPT ![p] = OldestOf(Eligible)]
    /\ ppc' = [ppc EXCEPT ![p] = "selected"]
    /\ UNCHANGED <<rowVars, expiryVars, writerVars, deviceVars>>

\* Rows markCommandsSent updates: every id selected, whatever its status
\* is by now.
MarkedBy(p) == batch[p]

MarkSent(p) ==
    /\ ppc[p] = "selected"
    /\ status' = [r \in Rows |-> IF r \in MarkedBy(p) THEN "sent" ELSE status[r]]
    /\ ppc' = [ppc EXCEPT ![p] = "marked"]
    /\ UNCHANGED <<n, cid, expiryVars, writerVars, batch, deviceVars>>

\* The response with the formatted commands reaches the device.
Respond(p) ==
    /\ ppc[p] = "marked"
    /\ handed' = [handed EXCEPT ![p] = @ \cup batch[p]]
    /\ inHand' = inHand \cup {cid[r] : r \in batch[p]}
    /\ ppc' = [ppc EXCEPT ![p] = "idle"]
    /\ batch' = [batch EXCEPT ![p] = {}]
    /\ UNCHANGED <<rowVars, expiryVars, writerVars, replies>>

\* A statement fails (500), or the response is lost on the way.
PollFails(p) ==
    /\ ppc[p] # "idle"
    /\ ppc' = [ppc EXCEPT ![p] = "idle"]
    /\ batch' = [batch EXCEPT ![p] = {}]
    /\ UNCHANGED <<rowVars, expiryVars, writerVars, deviceVars>>

-----------------------------------------------------------------------------
(* The device, and the answers it posts                                    *)

\* The device runs a command and posts ID=<c>&Return=<code>.
Execute(c) ==
    /\ c \in inHand
    /\ inHand' = inHand \ {c}
    /\ \E ok \in BOOLEAN : replies' = replies \cup {[cid |-> c, ok |-> ok]}
    /\ UNCHANGED <<rowVars, expiryVars, writerVars, pollVars, handed>>

\* Rows processCommandResult updates: WHERE device_id AND command_id, with
\* no condition on status.
RowsAnswered(c) == {r \in Existing : cid[r] = c}

\* The handler runs after the route has answered OK.  A post the device
\* repeats because it missed that OK stays in replies.
ProcessResult(m) ==
    /\ status' = [r \in Rows |-> IF r \in RowsAnswered(m.cid)
                                 THEN IF m.ok THEN "success" ELSE "failed"
                                 ELSE status[r]]
    /\ \E rest \in {replies, replies \ {m}} : replies' = rest
    /\ UNCHANGED <<n, cid, expiryVars, writerVars, pollVars, handed, inHand>>

\* The post is lost, or its handler throws after the OK.
LoseResult(m) ==
    /\ replies' = replies \ {m}
    /\ UNCHANGED <<rowVars, expiryVars, writerVars, pollVars, handed, inHand>>

\* The ADMS process dies: open heartbeats and acknowledged, unprocessed
\* answers are gone; the database and the device are not.
AdmsCrash ==
    /\ ppc' = [p \in Polls |-> "idle"]
    /\ batch' = [p \in Polls |-> {}]
    /\ \E rest \in SUBSET replies : replies' = rest
    /\ UNCHANGED <<rowVars, expiryVars, writerVars, handed, inHand>>

-----------------------------------------------------------------------------
Next ==
    \/ \E w \in Writers : ReadNextId(w) \/ Insert(w) \/ QueueFails(w)
    \/ \E r \in Rows : Cancel(r) \/ Lapse(r)
    \/ ListTenants \/ Expire
    \/ \E p \in Polls : Select(p) \/ MarkSent(p) \/ Respond(p) \/ PollFails(p)
    \/ \E c \in inHand : Execute(c)
    \/ \E m \in replies : ProcessResult(m) \/ LoseResult(m)
    \/ AdmsCrash

Spec == Init /\ [][Next]_vars

\* Time passes, and the timer fires again and again: a tick that gets to the tenant
\* expires what has lapsed.  Nothing else is promised.
FairSpec ==
    /\ Spec
    /\ \A r \in Rows : WF_vars(Lapse(r))
    /\ WF_vars(Expire)

-----------------------------------------------------------------------------
(* Properties                                                              *)

\* The commands the device has been handed at least once.
Known == UNION {handed[p] : p \in Polls}

\* The heartbeats that have delivered a command or are about to.
Carriers(r) == {p \in Polls : r \in handed[p] \cup batch[p]}

\* Command ids are dense and follow insertion order, however many callers
\* race through nextCommandId: the k-th row of the device has command_id k.
\* So an answer's ID names one row, and MAX + 1 never reuses an id.
IdsFollowCreation ==
    \A r \in Rows : cid[r] = IF r <= n THEN r ELSE 0

\* A command the device has been handed is never recorded as pending,
\* cancelled or expired, whatever cancelCommand and the expiry job did
\* between the heartbeat's SELECT and its UPDATE.
HandedIsAccountedFor ==
    \A r \in Known : status[r] \in {"sent"} \cup Outcome

\* A device that waits for each heartbeat's answer is handed its commands once, and in
\* the order they were queued.
InOrderPerSlot ==
    \A p \in Polls : \A r \in batch[p] : \A q \in handed[p] : q < r

\* When the device has r, no heartbeat that starts later takes up an earlier row: it has
\* left pending or has lapsed.
NothingLeftBehind ==
    \A r \in Known : \A q \in 1 .. r - 1 : status[q] # "pending" \/ q \in lapsed

\* Whatever a heartbeat takes up was queued after everything the device has been handed
\* by then, by whichever heartbeat.  So a command is delivered after a later one only by
\* two heartbeats that were open at once, the slower of which took it up first.
TakenInOrder ==
    [][\A p \in Polls : \A r \in batch'[p] \ batch[p] : \A q \in Known : q < r]_vars

\* A recorded outcome belongs to a command the device really was handed.
OutcomeWasHanded ==
    \A r \in Rows : status[r] \in Outcome => r \in Known

\* The table keeps the promises of CommandLifecycle.
Lifecycle == INSTANCE CommandLifecycle WITH record <- status, known <- Known
LifecycleSpec == Lifecycle!Spec

\* What the pages that list commands make of a status: those of CommandFate.
Fate == [r \in Rows |-> IF status[r] \in {"none", "pending", "cancelled"} THEN status[r]
                        ELSE "over"]

\* So the queue is what those pages take it for.
QueueFate == INSTANCE CommandFate WITH fate <- Fate
QueueFateSpec == QueueFate!Spec

\* An outcome, once recorded, stays as it is for as long as only one heartbeat has carried
\* the command: to turn a success into a failure, or a finished command back into a sent
\* one, it takes two heartbeats that were open at once.
OutcomeIsFinal ==
    [][\A r \in Rows : status[r] \in Outcome /\ (\E p \in Polls : Carriers(r) \subseteq {p})
                       => status'[r] = status[r]]_vars

\* No command stays pending for ever, even if the device never polls, once the expiry
\* ticks get to the tenant again and again without exception.
PendingSettles ==
    <>[]reached => \A r \in Rows : (status[r] = "pending") ~> (status[r] # "pending")
=============================================================================
