------------------------- MODULE CommandQueue_proofs -------------------------
(***************************************************************************)
(* CommandQueue, for any number of callers, heartbeats and rows; and at    *)
(* the end ConfirmDialogs, the dialogs that queue its commands, for any    *)
(* visits, openings and dialogs.                                           *)
(*                                                                         *)
(* None of the safety invariants is inductive alone.  Together they are,   *)
(* once it is known what a heartbeat has in its hands between its          *)
(* statements: rows that exist, in an order that skips no older deliverable*)
(* row, already dispatched if they are marked; and that whatever the       *)
(* device executes or answers was handed to it.  A dialog is followed from *)
(* the moment it opens: what it asked for, and that it asks again only     *)
(* after a no.                                                             *)
(***************************************************************************)
EXTENDS CommandQueue, ConfirmDialogs, FiniteSetTheorems, SequenceTheorems, TLAPS

Dispatched == {"sent"} \cup Outcome

\* A row has a status exactly when it has been inserted.
RowsExist == \A r \in Rows : status[r] = "none" <=> r > n

\* An id computed and not yet inserted is taken or is the next free one.
NumbersLag == \A w \in Writers : wpc[w] = "numbered" => num[w] \in 1 .. n + 1

\* What a heartbeat holds between its statements.
BatchExists == \A p \in Polls : batch[p] \subseteq Existing
MarkedIsDispatched ==
    \A p \in Polls : ppc[p] = "marked" => \A r \in batch[p] : status[r] \in Dispatched
BatchSkipsNothing ==
    \A p \in Polls : \A r \in batch[p] : \A q \in 1 .. r - 1 :
        q \in batch[p] \/ status[q] # "pending" \/ q \in lapsed

\* The device only holds and answers what it was handed.
DeviceKnows ==
    /\ Known \subseteq Existing
    /\ inHand \subseteq Known
    /\ \A m \in replies : m.cid \in Known

\* Of a command that one heartbeat alone has delivered: until the device has run it there is
\* no answer, and after that there is one, however often it is posted.
DeliveredBy(r, p) == \A q \in Polls : r \in handed[q] => q = p
AnsweredOnce(r) ==
    /\ r \in inHand => status[r] \notin Outcome /\ \A m \in replies : m.cid # r
    /\ \A m \in replies : m.cid = r =>
          /\ \A o \in replies : o.cid = r => o.ok = m.ok
          /\ status[r] \in Outcome => status[r] = IF m.ok THEN "success" ELSE "failed"
AnswersAgree == \A r \in Rows : \A p \in Polls : DeliveredBy(r, p) => AnsweredOnce(r)

IInv ==
    /\ TypeOK
    /\ RowsExist
    /\ IdsFollowCreation
    /\ NumbersLag
    /\ BatchExists
    /\ MarkedIsDispatched
    /\ BatchSkipsNothing
    /\ DeviceKnows
    /\ HandedIsAccountedFor
    /\ InOrderPerSlot
    /\ NothingLeftBehind
    /\ OutcomeWasHanded
    /\ AnswersAgree

-----------------------------------------------------------------------------
(* Lemmas about the operators                                              *)

\* The ids in the table are exactly 1 .. n, so MAX + 1 is n + 1.
LEMMA NextIdIsNext ==
    ASSUME TypeOK, IdsFollowCreation
    PROVE  /\ UsedIds = 1 .. n
           /\ NextId = n + 1
<1>1. n \in Nat /\ \A r \in Existing : r \in Nat /\ cid[r] = r
  BY CommandQueueAssumption DEF TypeOK, IdsFollowCreation, Existing, Rows
<1>2. UsedIds = 1 .. n
  BY <1>1 DEF UsedIds, Existing
<1>3. n \in UsedIds \cup {0} /\ \A k \in UsedIds : k <= n
  BY <1>1, <1>2
<1>4. ASSUME NEW m \in UsedIds \cup {0}, \A k \in UsedIds : k <= m
      PROVE  m = n
  <2>1. m \in Nat /\ m <= n
    BY <1>1, <1>2
  <2>2. n # 0 => n <= m
    BY <1>1, <1>2, <1>4
  <2> QED  BY <2>1, <2>2, <1>1
<1>5. (CHOOSE m \in UsedIds \cup {0} : \A k \in UsedIds : k <= m) = n
  BY <1>3, <1>4
<1>6. NextId = 1 + n
  BY <1>5 DEF NextId
<1> QED  BY <1>1, <1>2, <1>6

\* LIMIT takes a prefix of the order: with a row, every older candidate.
LEMMA OldestIsPrefix ==
    ASSUME NEW S \in SUBSET Rows, NEW r \in OldestOf(S), NEW q \in S, q < r
    PROVE  q \in OldestOf(S)
<1> DEFINE Below(k) == {j \in S : j < k}
<1>1. q \in Int /\ r \in Int /\ \A j \in S : j \in Int
  BY CommandQueueAssumption DEF OldestOf, Rows
<1>2. Below(q) \subseteq Below(r)
  <2>1. \A j \in S : j < q => j < r
    BY <1>1
  <2> QED  BY <2>1
<1>3. IsFiniteSet(Below(r))
  <2>1. IsFiniteSet(Rows)
    BY CommandQueueAssumption, FS_Interval DEF Rows
  <2>2. Below(r) \in SUBSET Rows
    OBVIOUS
  <2> QED  BY <2>1, <2>2, FS_Subset
<1>4. Cardinality(Below(q)) <= Cardinality(Below(r)) /\ IsFiniteSet(Below(q))
  BY <1>2, <1>3, FS_Subset
<1>5. Cardinality(Below(r)) \in Nat /\ Cardinality(Below(q)) \in Nat
  BY <1>3, <1>4, FS_CardinalityType
<1>6. Cardinality(Below(r)) < BatchLimit
  BY DEF OldestOf
<1>7. Cardinality(Below(q)) < BatchLimit
  BY <1>4, <1>5, <1>6, CommandQueueAssumption
<1> QED  BY <1>7 DEF OldestOf

-----------------------------------------------------------------------------
(* One step                                                                *)

LEMMA TypePreserved == IInv /\ [Next]_vars => TypeOK'
<1> SUFFICES ASSUME IInv, [Next]_vars PROVE TypeOK'
  OBVIOUS
<1> USE CommandQueueAssumption
    DEF IInv, TypeOK, Rows, Existing, Outcome, Statuses,
        rowVars, expiryVars, writerVars, pollVars, deviceVars
<1>1. ASSUME NEW w \in Writers, ReadNextId(w)
      PROVE  TypeOK'
  <2>1. NextId \in Nat
    BY NextIdIsNext, SMTT(60)
  <2> QED  BY <1>1, <2>1 DEF ReadNextId
<1>2. ASSUME NEW w \in Writers, QueueFails(w)
      PROVE  TypeOK'
  BY <1>2 DEF QueueFails
<1>3. ASSUME NEW w \in Writers, Insert(w)
      PROVE  TypeOK'
  BY <1>3 DEF Insert
<1>4. ASSUME NEW r \in Rows, Cancel(r) \/ Lapse(r)
      PROVE  TypeOK'
  BY <1>4 DEF Cancel, Lapse
<1>5. CASE ListTenants \/ Expire \/ AdmsCrash
  BY <1>5 DEF ListTenants, Expire, AdmsCrash
<1>6. ASSUME NEW p \in Polls, Select(p)
      PROVE  TypeOK'
  BY <1>6, SMTT(60) DEF Select, OldestOf, Eligible
<1>7. ASSUME NEW p \in Polls, MarkSent(p) \/ PollFails(p)
      PROVE  TypeOK'
  BY <1>7 DEF MarkSent, PollFails
<1>8. ASSUME NEW p \in Polls, Respond(p)
      PROVE  TypeOK'
  BY <1>8 DEF Respond
<1>9. ASSUME NEW c \in inHand, Execute(c)
      PROVE  TypeOK'
  BY <1>9 DEF Execute
<1>10. ASSUME NEW m \in replies, ProcessResult(m) \/ LoseResult(m)
       PROVE  TypeOK'
  BY <1>10 DEF ProcessResult, LoseResult
<1>11. CASE UNCHANGED vars
  BY <1>11 DEF vars
<1> QED  BY <1>1, <1>2, <1>3, <1>4, <1>5, <1>6, <1>7, <1>8, <1>9, <1>10, <1>11 DEF Next

\* Rows appear at the end, as pending; nothing else becomes pending; a
\* dispatched row stays dispatched; time does not run backwards.
RowsAdvance ==
    /\ n' \in {n, n + 1}
    /\ lapsed \subseteq lapsed'
    /\ \A r \in Rows : status'[r] = "pending" => status[r] = "pending" \/ r = n + 1
    /\ \A r \in Rows : status[r] \in Dispatched => status'[r] \in Dispatched
    /\ \A r \in Rows : status'[r] = "none" <=> r > n'

\* The statements that write the status column keep RowsAdvance.
LEMMA RowsOnlyAdvance == IInv /\ [Next]_vars => RowsAdvance
<1> SUFFICES ASSUME IInv, [Next]_vars PROVE RowsAdvance
  OBVIOUS
<1> USE CommandQueueAssumption
    DEF IInv, TypeOK, RowsExist, RowsAdvance, Rows, Existing, Outcome, Statuses,
        Dispatched, rowVars, expiryVars
<1>1. ASSUME NEW w \in Writers, Insert(w)
      PROVE  RowsAdvance
  BY <1>1 DEF Insert
<1>2. ASSUME NEW r \in Rows, Cancel(r) \/ Lapse(r)
      PROVE  RowsAdvance
  BY <1>2 DEF Cancel, Lapse
<1>3. CASE Expire
  BY <1>3 DEF Expire, Expirable
<1>4. ASSUME NEW p \in Polls, MarkSent(p)
      PROVE  RowsAdvance
  BY <1>4 DEF MarkSent, MarkedBy, BatchExists
<1>5. ASSUME NEW m \in replies, ProcessResult(m)
      PROVE  RowsAdvance
  BY <1>5 DEF ProcessResult, RowsAnswered
<1>6. CASE UNCHANGED <<rowVars, lapsed>>
  BY <1>6
<1> QED  BY <1>1, <1>2, <1>3, <1>4, <1>5, <1>6
         DEF Next, ReadNextId, QueueFails, ListTenants, Select,
             Respond, PollFails, Execute, LoseResult, AdmsCrash, vars

\* Only nextCommandId and the INSERT touch the ids.
LEMMA IdsPreserved == IInv /\ [Next]_vars => IdsFollowCreation' /\ NumbersLag'
<1> SUFFICES ASSUME IInv, [Next]_vars PROVE IdsFollowCreation' /\ NumbersLag'
  OBVIOUS
<1> USE CommandQueueAssumption
    DEF IInv, TypeOK, IdsFollowCreation, NumbersLag, Rows, rowVars, writerVars
<1>1. ASSUME NEW w \in Writers, ReadNextId(w)
      PROVE  IdsFollowCreation' /\ NumbersLag'
  <2>1. NextId = n + 1
    BY NextIdIsNext
  <2> QED  BY <1>1, <2>1 DEF ReadNextId
<1>2. ASSUME NEW w \in Writers, Insert(w)
      PROVE  IdsFollowCreation' /\ NumbersLag'
  <2>1. num[w] = n + 1
    BY <1>2, NextIdIsNext DEF Insert
  <2> QED  BY <1>2, <2>1 DEF Insert
<1>3. ASSUME NEW w \in Writers, QueueFails(w)
      PROVE  IdsFollowCreation' /\ NumbersLag'
  BY <1>3 DEF QueueFails
<1>4. CASE UNCHANGED <<n, cid, writerVars>>
  BY <1>4
<1> QED  BY <1>1, <1>2, <1>3, <1>4
         DEF Next, Cancel, Lapse, ListTenants, Expire, Select, MarkSent, Respond,
             PollFails, Execute, ProcessResult, LoseResult, AdmsCrash, vars

\* What may still be delivered is newer than all the device has been handed.
LEMMA TakenIsNewer ==
    ASSUME IInv, NEW r \in OldestOf(Eligible), NEW q \in Known
    PROVE  q < r
<1>1. r \in Existing /\ status[r] = "pending" /\ r \notin lapsed
  BY DEF OldestOf, Eligible
<1>2. q \in Existing /\ q \in Rows /\ r \in Rows
  BY <1>1, CommandQueueAssumption DEF IInv, DeviceKnows, TypeOK, Existing, Rows
<1>3. status[q] # "pending"
  BY DEF IInv, HandedIsAccountedFor, Outcome
<1>4. ~(r \in 1 .. q - 1)
  BY <1>1 DEF IInv, NothingLeftBehind
<1> QED  BY <1>1, <1>2, <1>3, <1>4, CommandQueueAssumption DEF Rows

HeartbeatInv ==
    /\ BatchExists
    /\ MarkedIsDispatched
    /\ BatchSkipsNothing
    /\ InOrderPerSlot

\* The three statements of a heartbeat, and every step beside them.
LEMMA HeartbeatPreserved == IInv /\ [Next]_vars => HeartbeatInv'
<1> SUFFICES ASSUME IInv, [Next]_vars PROVE HeartbeatInv'
  OBVIOUS
<1>1. RowsAdvance
  BY RowsOnlyAdvance
<1> USE CommandQueueAssumption
    DEF IInv, TypeOK, HeartbeatInv, BatchExists, MarkedIsDispatched,
        BatchSkipsNothing, InOrderPerSlot, Rows, Existing, rowVars, pollVars,
        expiryVars
<1>2. ASSUME NEW p \in Polls, Select(p)
      PROVE  HeartbeatInv'
  <2>1. \A r \in OldestOf(Eligible) : r \in Existing /\ status[r] = "pending"
    BY DEF OldestOf, Eligible
  <2>2. ASSUME NEW r \in OldestOf(Eligible), NEW q \in 1 .. r - 1
        PROVE  q \in OldestOf(Eligible) \/ status[q] # "pending" \/ q \in lapsed
    <3>1. q \in Existing /\ q < r /\ Eligible \in SUBSET Rows
      BY <2>1, SMTT(60) DEF Eligible
    <3>2. CASE q \in Eligible
      BY <3>1, <3>2, OldestIsPrefix
    <3> QED  BY <3>1, <3>2 DEF Eligible
  <2>3. \A r \in OldestOf(Eligible) : \A q \in Known : q < r
    BY <2>1, TakenIsNewer
  <2>4. BatchExists' /\ MarkedIsDispatched'
    BY <1>2, <2>1 DEF Select
  <2>5. BatchSkipsNothing'
    BY <1>2, <2>2 DEF Select
  <2>6. InOrderPerSlot'
    BY <1>2, <2>3 DEF Select, Known, deviceVars
  <2> QED  BY <2>4, <2>5, <2>6
<1>3. ASSUME NEW p \in Polls, MarkSent(p)
      PROVE  HeartbeatInv'
  <2>1. MarkedIsDispatched'
    BY <1>1, <1>3 DEF MarkSent, MarkedBy, RowsAdvance, Dispatched
  <2>2. BatchExists' /\ InOrderPerSlot'
    BY <1>3 DEF MarkSent, deviceVars
  <2>3. \A q \in Existing : status'[q] = "pending" => status[q] = "pending"
    BY <1>1 DEF RowsAdvance
  <2>4. BatchSkipsNothing'
    BY <1>3, <2>3 DEF MarkSent
  <2> QED  BY <2>1, <2>2, <2>4
<1>4. ASSUME NEW p \in Polls, Respond(p) \/ PollFails(p)
      PROVE  HeartbeatInv'
  BY <1>4 DEF Respond, PollFails, deviceVars
<1>5. CASE AdmsCrash
  BY <1>5 DEF AdmsCrash
<1>6. CASE UNCHANGED <<pollVars, handed>>
  BY <1>1, <1>6 DEF RowsAdvance
<1> QED  BY <1>2, <1>3, <1>4, <1>5, <1>6
         DEF Next, ReadNextId, Insert, QueueFails, Cancel, Lapse,
             ListTenants, Expire, Execute, ProcessResult, LoseResult, vars, deviceVars

DeviceInv ==
    /\ DeviceKnows
    /\ HandedIsAccountedFor
    /\ NothingLeftBehind
    /\ OutcomeWasHanded

\* The device learns commands from Respond alone; outcomes come from what
\* it answers.
LEMMA DevicePreserved == IInv /\ [Next]_vars => DeviceInv'
<1> SUFFICES ASSUME IInv, [Next]_vars PROVE DeviceInv'
  OBVIOUS
<1>1. RowsAdvance
  BY RowsOnlyAdvance
<1> USE CommandQueueAssumption
    DEF IInv, TypeOK, DeviceInv, DeviceKnows, HandedIsAccountedFor, NothingLeftBehind,
        OutcomeWasHanded, IdsFollowCreation, Rows, Existing, Outcome
<1>2. ASSUME NEW p \in Polls, Respond(p)
      PROVE  DeviceInv'
  <2>1. Known' = Known \cup batch[p]
    BY <1>2 DEF Respond, Known
  <2>2. \A r \in batch[p] : r \in Existing /\ cid[r] = r /\ status[r] \in Dispatched
    BY <1>2 DEF Respond, BatchExists, MarkedIsDispatched
  <2>3. DeviceKnows'
    <3>1. inHand' = inHand \cup batch[p]
      <4>1. {cid[r] : r \in batch[p]} = batch[p]
        BY <2>2
      <4> QED  BY <1>2, <4>1 DEF Respond
    <3> QED  BY <1>2, <2>1, <2>2, <3>1 DEF Respond, rowVars
  <2>4. HandedIsAccountedFor' /\ OutcomeWasHanded'
    BY <1>2, <2>1, <2>2 DEF Respond, rowVars, Dispatched
  <2>5. \A r \in batch[p] : \A q \in 1 .. r - 1 : status[q] # "pending" \/ q \in lapsed
    BY <2>2 DEF BatchSkipsNothing, Dispatched
  <2>6. NothingLeftBehind'
    BY <1>2, <2>1, <2>5 DEF Respond, rowVars, expiryVars
  <2> QED  BY <2>3, <2>4, <2>6
<1>3. ASSUME NEW c \in inHand, Execute(c)
      PROVE  DeviceInv'
  <2>1. Known' = Known
    BY <1>3 DEF Execute, Known
  <2> QED  BY <1>3, <2>1 DEF Execute, rowVars, expiryVars
<1>4. ASSUME NEW m \in replies, ProcessResult(m)
      PROVE  DeviceInv'
  <2>1. Known' = Known
    BY <1>4 DEF ProcessResult, Known
  <2>2. DeviceKnows' /\ NothingLeftBehind'
    BY <1>4, <2>1, <1>1 DEF ProcessResult, RowsAdvance
  <2>3. \A r \in RowsAnswered(m.cid) : r \in Known
    BY DEF RowsAnswered
  <2>4. HandedIsAccountedFor' /\ OutcomeWasHanded'
    BY <1>4, <2>1, <2>3 DEF ProcessResult
  <2> QED  BY <2>2, <2>4
<1>5. CASE /\ UNCHANGED <<handed, inHand>>
           /\ replies' \subseteq replies
           /\ \A r \in Rows : status'[r] \in Outcome => status[r] \in Outcome
           /\ UNCHANGED cid \/ n' = n + 1
  <2>1. Known' = Known
    BY <1>5 DEF Known
  <2>2. DeviceKnows' /\ OutcomeWasHanded'
    BY <1>1, <1>5, <2>1 DEF RowsAdvance
  <2>3. HandedIsAccountedFor' /\ NothingLeftBehind'
    BY <1>1, <2>1 DEF RowsAdvance, Dispatched
  <2> QED  BY <2>2, <2>3
<1> QED  BY <1>2, <1>3, <1>4, <1>5
         DEF Next, ReadNextId, Insert, QueueFails, Cancel, Lapse,
             ListTenants, Expire, Select, MarkSent, PollFails, LoseResult, AdmsCrash,
             vars, deviceVars, rowVars

\* What was handed before is handed after a step, so whoever delivered a command alone
\* afterwards delivered it alone before.
LEMMA DeliveredBefore ==
    ASSUME IInv, [Next]_vars, NEW r \in Rows, NEW p \in Polls, DeliveredBy(r, p)'
    PROVE  DeliveredBy(r, p)
<1>1. \A q \in Polls : handed[q] \subseteq handed'[q]
  BY DEF IInv, TypeOK, Next, ReadNextId, Insert, QueueFails, Cancel, Lapse, ListTenants, Expire,
         Select, MarkSent, Respond, PollFails, Execute, ProcessResult, LoseResult, AdmsCrash,
         vars, deviceVars
<1> QED  BY <1>1 DEF DeliveredBy

\* A device runs what it was handed once, and its answer is one, however often it is posted.
LEMMA AnswersPreserved == IInv /\ [Next]_vars => AnswersAgree'
<1> SUFFICES ASSUME IInv, [Next]_vars, NEW r \in Rows, NEW p \in Polls, DeliveredBy(r, p)'
             PROVE  AnsweredOnce(r)'
  BY DEF AnswersAgree
<1>1. AnsweredOnce(r)
  BY DeliveredBefore DEF IInv, AnswersAgree
<1>2. /\ status \in [Rows -> Statuses] /\ cid \in [Rows -> Nat]
      /\ \A m \in replies : m.ok \in BOOLEAN
  BY DEF IInv, TypeOK
<1>3. ASSUME NEW s \in Polls, Respond(s)
      PROVE  AnsweredOnce(r)'
  <2>1. status' = status /\ replies' = replies /\ handed'[s] = handed[s] \cup batch[s]
    BY <1>3 DEF Respond, rowVars, IInv, TypeOK
  <2>2. \A j \in batch[s] : cid[j] = j
    BY DEF IInv, BatchExists, IdsFollowCreation, Existing, TypeOK, Rows
  <2>3. inHand' = inHand \cup batch[s]
    <3>1. {cid[j] : j \in batch[s]} = batch[s]
      BY <2>2
    <3> QED  BY <1>3, <3>1 DEF Respond
  <2>4. CASE r \in batch[s]
    <3>1. s = p
      BY <2>1, <2>4 DEF DeliveredBy
    <3>2. r \notin handed[p]
      <4>1. r \in Int
        BY CommandQueueAssumption DEF Rows
      <4> QED  BY <2>4, <3>1, <4>1 DEF IInv, InOrderPerSlot
    <3>3. r \notin Known
      BY <3>2, DeliveredBefore DEF Known, DeliveredBy
    <3> QED  BY <2>1, <3>3 DEF IInv, OutcomeWasHanded, DeviceKnows, AnsweredOnce, Outcome
  <2>5. CASE r \notin batch[s]
    BY <1>1, <2>1, <2>3, <2>5 DEF AnsweredOnce, Outcome
  <2> QED  BY <2>4, <2>5
<1>4. ASSUME NEW c \in inHand, Execute(c)
      PROVE  AnsweredOnce(r)'
  <2>1. status' = status /\ inHand' = inHand \ {c}
    BY <1>4 DEF Execute, rowVars
  <2>2. PICK ok \in BOOLEAN : replies' = replies \cup {[cid |-> c, ok |-> ok]}
    BY <1>4 DEF Execute
  <2>3. CASE c = r
    BY <1>1, <2>1, <2>2, <2>3 DEF AnsweredOnce, Outcome
  <2>4. CASE c # r
    BY <1>1, <2>1, <2>2, <2>4 DEF AnsweredOnce, Outcome
  <2> QED  BY <2>3, <2>4
<1>5. ASSUME NEW m \in replies, ProcessResult(m)
      PROVE  AnsweredOnce(r)'
  <2>1. replies' \subseteq replies /\ inHand' = inHand
    BY <1>5 DEF ProcessResult
  <2>2. m.cid \in Known /\ m.cid \in Rows /\ RowsAnswered(m.cid) = {m.cid}
    BY CommandQueueAssumption
    DEF IInv, TypeOK, DeviceKnows, IdsFollowCreation, RowsAnswered, Existing, Rows
  <2>3. status'[r] = IF r = m.cid THEN IF m.ok THEN "success" ELSE "failed" ELSE status[r]
    BY <1>5, <2>2 DEF ProcessResult
  <2>4. CASE r = m.cid
    BY <1>1, <1>2, <2>1, <2>3, <2>4 DEF AnsweredOnce, Outcome
  <2>5. CASE r # m.cid
    BY <1>1, <2>1, <2>3, <2>5 DEF AnsweredOnce, Outcome
  <2> QED  BY <2>4, <2>5
<1>6. ASSUME inHand' = inHand, replies' \subseteq replies,
             status'[r] \in Outcome => status'[r] = status[r]
      PROVE  AnsweredOnce(r)'
  BY <1>1, <1>6 DEF AnsweredOnce, Outcome
<1>7. ASSUME UNCHANGED <<status, inHand>>, replies' \subseteq replies
      PROVE  AnsweredOnce(r)'
  BY <1>6, <1>7
<1>8. ASSUME NEW w \in Writers, Insert(w)
      PROVE  AnsweredOnce(r)'
  BY <1>2, <1>6, <1>8 DEF Insert, deviceVars, Outcome
<1>9. ASSUME NEW j \in Rows, Cancel(j)
      PROVE  AnsweredOnce(r)'
  BY <1>2, <1>6, <1>9 DEF Cancel, deviceVars, Outcome
<1>10. CASE Expire
  BY <1>2, <1>6, <1>10 DEF Expire, deviceVars, Outcome
<1>11. ASSUME NEW s \in Polls, MarkSent(s)
       PROVE  AnsweredOnce(r)'
  BY <1>2, <1>6, <1>11 DEF MarkSent, deviceVars, Outcome
<1> QED  BY <1>3, <1>4, <1>5, <1>7, <1>8, <1>9, <1>10, <1>11
         DEF Next, ReadNextId, QueueFails, Lapse, ListTenants, Select, PollFails, LoseResult,
             AdmsCrash, vars, rowVars, deviceVars

-----------------------------------------------------------------------------
(* Theorems                                                                *)

LEMMA IInvInit == Init => IInv
<1> SUFFICES ASSUME Init PROVE IInv
  OBVIOUS
<1> USE CommandQueueAssumption DEF Init, Rows, Existing
<1>1. TypeOK
  BY DEF TypeOK, Statuses
<1>2. RowsExist /\ IdsFollowCreation /\ NumbersLag
  BY DEF RowsExist, IdsFollowCreation, NumbersLag
<1>3. HeartbeatInv
  BY DEF HeartbeatInv, BatchExists, MarkedIsDispatched, BatchSkipsNothing, InOrderPerSlot
<1>4. Known = {}
  BY DEF Known
<1>5. DeviceInv
  BY <1>4 DEF DeviceInv, DeviceKnows, HandedIsAccountedFor, NothingLeftBehind,
              OutcomeWasHanded, Outcome
<1>6. AnswersAgree
  BY DEF AnswersAgree, AnsweredOnce, Outcome
<1> QED  BY <1>1, <1>2, <1>3, <1>5, <1>6 DEF IInv, HeartbeatInv, DeviceInv

LEMMA IInvStep == IInv /\ [Next]_vars => IInv'
<1> SUFFICES ASSUME IInv, [Next]_vars PROVE IInv'
  OBVIOUS
<1>1. RowsExist'
  BY RowsOnlyAdvance DEF RowsAdvance, RowsExist
<1> QED  BY <1>1, TypePreserved, IdsPreserved, HeartbeatPreserved, DevicePreserved,
            AnswersPreserved
         DEF IInv, HeartbeatInv, DeviceInv

\* The inductive invariant holds for any number of callers and heartbeats.
THEOREM IInvHolds == Spec => []IInv
BY IInvInit, IInvStep, PTL DEF Spec

\* Every variable keeps its type.
THEOREM TypeCorrect == Spec => []TypeOK
<1>1. IInv => TypeOK
  BY DEF IInv
<1> QED  BY <1>1, IInvHolds, PTL

\* However many calls race through MAX(command_id) + 1, the unique index
\* leaves each device with ids 1, 2, 3, ... in insertion order.
THEOREM IdsAreDense == Spec => []IdsFollowCreation
<1>1. IInv => IdsFollowCreation
  BY DEF IInv
<1> QED  BY <1>1, IInvHolds, PTL

\* A command in a device's hands is never recorded as withdrawn.
THEOREM HandedAccounted == Spec => []HandedIsAccountedFor
<1>1. IInv => HandedIsAccountedFor
  BY DEF IInv
<1> QED  BY <1>1, IInvHolds, PTL

\* A device that waits for each heartbeat's answer has every command once and in order.
THEOREM InOrderWhenWaiting == Spec => []InOrderPerSlot
<1>1. IInv => InOrderPerSlot
  BY DEF IInv
<1> QED  BY <1>1, IInvHolds, PTL

\* Of any number of heartbeats, overlapping or not, none takes up a command older than one
\* the device has: what is out of order was taken up before and delivered late.
THEOREM DeliveryInOrder == Spec => TakenInOrder
<1> DEFINE Newer == \A p \in Polls : \A r \in batch'[p] \ batch[p] : \A q \in Known : q < r
<1>1. ASSUME IInv, Next
      PROVE  Newer
  <2>1. ASSUME NEW p \in Polls, Select(p)
        PROVE  Newer
    <3>1. \A s \in Polls : batch'[s] \subseteq batch[s] \cup OldestOf(Eligible)
      BY <1>1, <2>1 DEF Select, IInv, TypeOK
    <3> QED  BY <1>1, <3>1, TakenIsNewer
  <2>2. CASE \A p \in Polls : batch'[p] \subseteq batch[p]
    BY <2>2
  <2>3. ASSUME NEW p \in Polls, Respond(p) \/ PollFails(p)
        PROVE  \A s \in Polls : batch'[s] \subseteq batch[s]
    BY <1>1, <2>3 DEF Respond, PollFails, IInv, TypeOK
  <2> QED  BY <1>1, <2>1, <2>2, <2>3
           DEF Next, ReadNextId, Insert, QueueFails, Cancel, Lapse, ListTenants, Expire, MarkSent,
               Execute, ProcessResult, LoseResult, AdmsCrash, pollVars
<1>2. IInv /\ [Next]_vars => [Newer]_vars
  BY <1>1
<1> QED  BY <1>2, IInvHolds, PTL DEF Spec, TakenInOrder

\* No outcome is recorded for a command the device never had.
THEOREM OutcomesAreReal == Spec => []OutcomeWasHanded
<1>1. IInv => OutcomeWasHanded
  BY DEF IInv
<1> QED  BY <1>1, IInvHolds, PTL

\* An outcome carried by one heartbeat only is final: the late markCommandsSent that
\* could overwrite it would have to carry a command the same slot has already delivered,
\* and a second answer would have to be of a second delivery.
THEOREM OutcomeFinalWithoutOverlap == Spec => OutcomeIsFinal
<1> DEFINE Final == \A r \in Rows :
                      status[r] \in Outcome /\ (\E p \in Polls : Carriers(r) \subseteq {p})
                      => status'[r] = status[r]
<1>1. ASSUME IInv, [Next]_vars
      PROVE  Final
  <2> USE <1>1 DEF IInv, TypeOK, Outcome, Rows, Existing
  <2>1. ASSUME NEW p \in Polls, MarkSent(p)
        PROVE  Final
    <3>1. ASSUME NEW r \in Rows, status[r] \in Outcome,
                 \E q \in Polls : Carriers(r) \subseteq {q}
          PROVE  r \notin batch[p]
      <4>1. PICK h \in Polls : r \in handed[h]
        BY <3>1 DEF OutcomeWasHanded, Known
      <4>2. r \in batch[p] => p = h
        BY <3>1, <4>1 DEF Carriers
      <4>3. r \in Int
        BY CommandQueueAssumption
      <4> QED  BY <4>1, <4>2, <4>3 DEF InOrderPerSlot
    <3> QED  BY <2>1, <3>1 DEF MarkSent, MarkedBy
  <2>2. ASSUME NEW w \in Writers, Insert(w)
        PROVE  Final
    BY <2>2, CommandQueueAssumption DEF Insert, RowsExist
  <2>3. ASSUME NEW r \in Rows, Cancel(r)
        PROVE  Final
    BY <2>3 DEF Cancel
  <2>4. CASE Expire
    BY <2>4 DEF Expire, Expirable
  <2>5. ASSUME NEW m \in replies, ProcessResult(m)
        PROVE  Final
    <3>1. m.cid \in Rows /\ RowsAnswered(m.cid) = {m.cid}
      BY CommandQueueAssumption DEF DeviceKnows, IdsFollowCreation, RowsAnswered
    <3>2. ASSUME NEW r \in Rows, status[r] \in Outcome,
                 NEW p \in Polls, Carriers(r) \subseteq {p}
          PROVE  status'[r] = status[r]
      <4>1. DeliveredBy(r, p)
        BY <3>2 DEF Carriers, DeliveredBy
      <4>2. AnsweredOnce(r)
        BY <4>1 DEF AnswersAgree
      <4>3. r = m.cid => status[r] = IF m.ok THEN "success" ELSE "failed"
        BY <3>2, <4>2 DEF AnsweredOnce
      <4> QED  BY <2>5, <3>1, <4>3 DEF ProcessResult
    <3> QED  BY <3>2
  <2>6. CASE UNCHANGED status
    BY <2>6
  <2> QED  BY <2>1, <2>2, <2>3, <2>4, <2>5, <2>6
           DEF Next, ReadNextId, QueueFails, Lapse, ListTenants, Select,
               Respond, PollFails, Execute, LoseResult, AdmsCrash, vars, rowVars
<1>2. IInv /\ [Next]_vars => [Final]_vars
  BY <1>1
<1>3. Spec => [][Final]_vars
  BY <1>2, IInvHolds, PTL DEF Spec
<1> QED  BY <1>3 DEF OutcomeIsFinal

-----------------------------------------------------------------------------
(* The queue keeps the promises of CommandLifecycle                        *)

LEMMA LifecycleInit == Init => Lifecycle!Init
BY DEF Init, Lifecycle!Init, Known

LEMMA LifecycleStep ==
    IInv /\ [Next]_vars => [Lifecycle!Next]_<<status, Known>>
<1> SUFFICES ASSUME IInv, [Next]_vars
             PROVE  Lifecycle!Next \/ UNCHANGED <<status, Known>>
  OBVIOUS
<1> USE CommandQueueAssumption
    DEF IInv, TypeOK, Rows, Existing, Outcome, Dispatched, Lifecycle!Next,
        Lifecycle!Outcome, Lifecycle!Withdrawn, Lifecycle!Dispatched
<1>1. ASSUME NEW w \in Writers, Insert(w)
      PROVE  Lifecycle!Next
  <2>1. Lifecycle!Issue(n + 1)
    BY <1>1 DEF Insert, RowsExist, Lifecycle!Issue, deviceVars, Known
  <2>2. n + 1 \in Rows
    BY <1>1 DEF Insert
  <2> QED  BY <2>1, <2>2
<1>2. ASSUME NEW r \in Rows, Cancel(r)
      PROVE  Lifecycle!Next
  <2>1. Lifecycle!Withdraw({r})
    BY <1>2 DEF Cancel, Lifecycle!Withdraw, deviceVars, Known
  <2> QED  BY <2>1
<1>3. CASE Expire
  <2>1. Lifecycle!Withdraw(Expirable)
    BY <1>3 DEF Expire, Expirable, Lifecycle!Withdraw, deviceVars, Known
  <2>2. Expirable \in SUBSET Rows
    BY DEF Expirable
  <2> QED  BY <2>1, <2>2
<1>4. ASSUME NEW p \in Polls, MarkSent(p)
      PROVE  Lifecycle!Next
  <2>1. Lifecycle!Dispatch(batch[p])
    BY <1>4 DEF MarkSent, MarkedBy, BatchExists, RowsExist, Lifecycle!Dispatch,
                deviceVars, Known
  <2> QED  BY <2>1
<1>5. ASSUME NEW p \in Polls, Respond(p)
      PROVE  Lifecycle!Next
  <2>1. Known' = Known \cup batch[p]
    BY <1>5 DEF Respond, Known
  <2>2. Lifecycle!Hand(batch[p])
    BY <1>5, <2>1 DEF Respond, MarkedIsDispatched, Lifecycle!Hand, rowVars
  <2> QED  BY <2>2
<1>6. ASSUME NEW m \in replies, ProcessResult(m)
      PROVE  Lifecycle!Next
  <2>1. m.cid \in Known /\ m.cid \in Rows /\ RowsAnswered(m.cid) = {m.cid}
    BY DEF DeviceKnows, IdsFollowCreation, RowsAnswered
  <2>2. status' = [status EXCEPT ![m.cid] = IF m.ok THEN "success" ELSE "failed"]
    BY <1>6, <2>1 DEF ProcessResult
  <2>3. Known' = Known
    BY <1>6 DEF ProcessResult, Known
  <2>4. Lifecycle!Conclude(m.cid)
    BY <2>1, <2>2, <2>3 DEF Lifecycle!Conclude
  <2> QED  BY <2>1, <2>4
<1>7. CASE UNCHANGED <<status, handed>>
  BY <1>7 DEF Known
<1> QED  BY <1>1, <1>2, <1>3, <1>4, <1>5, <1>6, <1>7
         DEF Next, ReadNextId, QueueFails, Lapse, ListTenants, Select,
             PollFails, Execute, LoseResult, AdmsCrash, vars, rowVars, deviceVars

\* Every behaviour of the queue, read through the status column and the set
\* of commands the device was ever handed, is one CommandLifecycle allows.
THEOREM QueueImplementsLifecycle == Spec => LifecycleSpec
BY LifecycleInit, LifecycleStep, IInvHolds, PTL DEF Spec, LifecycleSpec, Lifecycle!Spec

-----------------------------------------------------------------------------
(* What the dialogs take the queue for                                     *)

\* A row's fate follows its status.
LEMMA FateOfStatus ==
    \A r \in Rows :
        Fate[r] = IF status[r] \in {"none", "pending", "cancelled"} THEN status[r] ELSE "over"
BY DEF Fate

LEMMA QueueFateInit == Init => QueueFate!Init
BY DEF Init, QueueFate!Init, Fate

\* Rows that take a status other than pending or cancelled are over.
LEMMA FatesRunOut ==
    ASSUME NEW S \in SUBSET Rows,
           \A r \in S : status[r] # "none" /\ status'[r] \notin {"none", "pending", "cancelled"},
           \A r \in Rows \ S : status'[r] = status[r]
    PROVE  QueueFate!RunOut(S)
<1>1. \A r \in S : Fate[r] # "none"
  BY FateOfStatus
<1>2. Fate' = [r \in Rows |-> IF r \in S THEN "over" ELSE Fate[r]]
  BY DEF Fate
<1> QED  BY <1>1, <1>2 DEF QueueFate!RunOut

LEMMA QueueFateStep == IInv /\ [Next]_vars => [QueueFate!Next]_Fate
<1> SUFFICES ASSUME IInv, [Next]_vars
             PROVE  QueueFate!Next \/ UNCHANGED Fate
  OBVIOUS
<1> USE CommandQueueAssumption
    DEF IInv, TypeOK, Rows, Existing, Outcome, QueueFate!Next
<1>1. ASSUME NEW w \in Writers, Insert(w)
      PROVE  QueueFate!Next
  <2>1. n + 1 \in Rows /\ status[n + 1] = "none"
    BY <1>1 DEF Insert, RowsExist
  <2>2. status' = [status EXCEPT ![n + 1] = "pending"]
    BY <1>1 DEF Insert
  <2>3. Fate' = [Fate EXCEPT ![n + 1] = "pending"] /\ Fate[n + 1] = "none"
    BY <2>1, <2>2 DEF Fate
  <2> QED  BY <2>1, <2>3 DEF QueueFate!Issue
<1>2. ASSUME NEW r \in Rows, Cancel(r)
      PROVE  QueueFate!Next
  <2>1. Fate' = [Fate EXCEPT ![r] = "cancelled"] /\ Fate[r] = "pending"
    BY <1>2 DEF Cancel, Fate
  <2> QED  BY <2>1 DEF QueueFate!Cancel
<1>3. CASE Expire
  <2>1. Expirable \in SUBSET Rows
    BY DEF Expirable
  <2>2. \A r \in Expirable : status[r] # "none" /\ status'[r] = "expired"
    BY <1>3 DEF Expire, Expirable
  <2>3. \A r \in Rows \ Expirable : status'[r] = status[r]
    BY <1>3 DEF Expire
  <2>4. QueueFate!RunOut(Expirable)
    BY <2>1, <2>2, <2>3, FatesRunOut
  <2> QED  BY <2>1, <2>4
<1>4. ASSUME NEW p \in Polls, MarkSent(p)
      PROVE  QueueFate!Next
  <2>1. batch[p] \in SUBSET Rows
    OBVIOUS
  <2>2. \A r \in batch[p] : status[r] # "none" /\ status'[r] = "sent"
    BY <1>4, <2>1 DEF MarkSent, MarkedBy, BatchExists, RowsExist
  <2>3. \A r \in Rows \ batch[p] : status'[r] = status[r]
    BY <1>4 DEF MarkSent, MarkedBy
  <2>4. QueueFate!RunOut(batch[p])
    BY <2>1, <2>2, <2>3, FatesRunOut
  <2> QED  BY <2>1, <2>4
<1>5. ASSUME NEW m \in replies, ProcessResult(m)
      PROVE  QueueFate!Next
  <2> DEFINE S == RowsAnswered(m.cid)
  <2>1. S \in SUBSET Rows
    BY DEF RowsAnswered
  <2>2. \A r \in S : status[r] # "none" /\ status'[r] \in {"success", "failed"}
    BY <1>5, <2>1 DEF ProcessResult, RowsAnswered, RowsExist
  <2>3. \A r \in Rows \ S : status'[r] = status[r]
    BY <1>5 DEF ProcessResult
  <2>4. QueueFate!RunOut(S)
    BY <2>1, <2>2, <2>3, FatesRunOut
  <2> QED  BY <2>1, <2>4
<1>6. CASE UNCHANGED status
  BY <1>6 DEF Fate
<1> QED  BY <1>1, <1>2, <1>3, <1>4, <1>5, <1>6
         DEF Next, ReadNextId, QueueFails, Lapse, ListTenants, Select, Respond,
             PollFails, Execute, LoseResult, AdmsCrash, vars, rowVars

\* Read as the pages read it, a row goes from nothing to pending, from there to cancelled or
\* over, and never back: what a page that lists commands relies on.
THEOREM QueueKeepsFate == Spec => QueueFateSpec
BY QueueFateInit, QueueFateStep, IInvHolds, PTL DEF Spec, QueueFateSpec, QueueFate!Spec


-----------------------------------------------------------------------------
(* ConfirmDialogs                                                          *)

\* A dialog that is open is the last that was opened, and a command that asks nothing
\* belongs to none.
OpenedLast ==
    /\ shown # None => shown.opening = openings
    /\ \A k \in DOMAIN calls :
        /\ calls[k].opening \leq openings /\ calls[k].visit \leq visit
        /\ calls[k].target = "harmless" => calls[k].opening = 0

\* What an open dialog asked for, it asked for on this page and with what it shows, and
\* the answer is not there yet or was no.
AskedHere ==
    shown # None =>
        \A k \in DOMAIN calls : calls[k].opening = shown.opening =>
            /\ calls[k].dialog = shown.dialog /\ calls[k].target = shown.target
            /\ calls[k].visit = visit /\ calls[k].told \in {"not yet", "refused"}

\* It is asked again only after a no.
AskedAgain ==
    \A j, k \in DOMAIN calls :
        j < k /\ calls[j].opening = calls[k].opening /\ calls[j].opening # 0
            => calls[j].told = "refused"

\* While a terminal's page has its dialog open, no other command of the page is on its way.
OneCommand ==
    shown # None /\ shown.dialog = "command" =>
        \A k \in DOMAIN calls :
            calls[k].dialog = "command" /\ calls[k].visit = visit /\ calls[k].told = "not yet"
                => calls[k].opening = shown.opening

DialogsTypes == DialogsTypeOK /\ calls \in Seq(Call)
DialogsInv == DialogsTypes /\ OpenedLast /\ AskedHere /\ AskedAgain /\ OneCommand

\* The dialogs of the pages are among all of them.
LEMMA DialogsOfPages ==
    /\ \A p \in Pages : Dialogs(p) \subseteq AllDialogs
    /\ \A m \in AllDialogs : Targets(m) \subseteq AllTargets
    /\ AllDialogs = {"command", "maintenance", "reboot", "bulk", "delete", "transfer",
                     "deleteTenant"}
<1>1. \A p \in Pages : Dialogs(p) \subseteq AllDialogs
  BY DEF AllDialogs
<1>2. \A m \in AllDialogs : Targets(m) \subseteq AllTargets
  BY DEF AllTargets
<1>3. AllDialogs \subseteq {"command", "maintenance", "reboot", "bulk", "delete", "transfer",
                            "deleteTenant"}
  BY DEF AllDialogs, Dialogs, Pages
<1>4. /\ Dialogs("device") = {"command"} /\ Dialogs("settings") = {"maintenance", "reboot"}
      /\ Dialogs("groups") = {"bulk"} /\ Dialogs("member") = {"delete", "transfer"}
      /\ Dialogs("tenant") = {"deleteTenant"}
  BY DEF Dialogs
<1>5. {"command", "maintenance", "reboot", "bulk", "delete", "transfer", "deleteTenant"}
        \subseteq AllDialogs
  BY <1>1, <1>4 DEF Pages
<1> QED  BY <1>1, <1>2, <1>3, <1>5

\* The invariant of the dialogs holds at first.
LEMMA DialogsInitInv == DialogsInit => DialogsInv
<1> SUFFICES ASSUME DialogsInit PROVE DialogsInv
  OBVIOUS
<1>1. calls = <<>> /\ calls \in Seq(Call) /\ Len(calls) = 0 /\ DOMAIN calls = {}
  BY DEF DialogsInit
<1>2. typed \in [AllDialogs -> Fields]
  BY DEF DialogsInit, AllEmpty, Empty, Fields
<1>3. DialogsTypeOK
  BY <1>1, <1>2, DialogsAssumption DEF DialogsAssumption, DialogsInit, DialogsTypeOK, Pages, Fates
<1> QED  BY <1>1, <1>3 DEF DialogsInv, DialogsTypes, DialogsInit, OpenedLast, AskedHere,
                           AskedAgain, OneCommand

\* What is shown is a dialog and its target.
LEMMA ShownIsKnown ==
    ASSUME DialogsTypes, shown # None
    PROVE  /\ shown.dialog \in AllDialogs /\ shown.target \in AllTargets
           /\ shown.opening \in 1 .. openings /\ openings \in Nat /\ openings \leq MaxOpenings
           /\ typed[shown.dialog] \in Fields
  BY DialogsOfPages, DialogsAssumption DEF DialogsAssumption, DialogsTypes, DialogsTypeOK

\* What was asked for is a call.
LEMMA CallsAreCalls ==
    ASSUME DialogsTypes, NEW k \in DOMAIN calls
    PROVE  /\ calls[k] \in Call /\ calls[k].dialog \in AllDialogs
           /\ calls[k].opening \in Nat /\ calls[k].visit \in Nat
<1>1. calls[k] \in Call
  BY DEF DialogsTypes, DialogsTypeOK
<1>2. /\ calls[k].dialog \in AllDialogs /\ calls[k].visit \in Nat
      /\ calls[k].opening \in 0 .. MaxOpenings
  BY <1>1 DEF Call
<1> QED  BY <1>1, <1>2

\* What is typed does not disturb it.
LEMMA TypingKeeps ==
    ASSUME DialogsInv, NEW fields \in Fields, Type(fields)
    PROVE  DialogsInv'
<1>1. typed' \in [AllDialogs -> Fields]
  BY DEF Type, DialogsInv, DialogsTypes, DialogsTypeOK
<1> QED  BY <1>1 DEF Type, queueVars, DialogsInv, DialogsTypes, DialogsTypeOK, OpenedLast,
                     AskedHere, AskedAgain, OneCommand

\* Neither does leaving a page,
LEMMA NavigateKeeps ==
    ASSUME DialogsInv, NEW p \in Pages, Navigate(p)
    PROVE  DialogsInv'
<1>1. typed' \in [AllDialogs -> Fields]
  BY DEF Navigate, AllEmpty, Empty, Fields
<1>2. DialogsTypes' /\ shown' = None
  BY <1>1 DEF Navigate, queueVars, DialogsInv, DialogsTypes, DialogsTypeOK
<1>3. OpenedLast'
  <2>1. visit \in Nat /\ visit' = visit + 1 /\ calls' = calls /\ openings' = openings
    BY DEF Navigate, DialogsInv, DialogsTypes, DialogsTypeOK
  <2>2. \A k \in DOMAIN calls : calls[k].visit \in Nat
    BY CallsAreCalls DEF DialogsInv
  <2> QED  BY <1>2, <2>1, <2>2 DEF DialogsInv, OpenedLast
<1> QED  BY <1>2, <1>3 DEF Navigate, DialogsInv, AskedHere, AskedAgain, OneCommand

\* opening a dialog,
LEMMA OpenKeeps ==
    ASSUME DialogsInv, NEW m \in Dialogs(page), NEW t \in Targets(m), Open(m, t)
    PROVE  DialogsInv'
<1>1. openings \in Nat /\ openings' = openings + 1 /\ openings' \in 0 .. MaxOpenings
  BY DialogsAssumption
  DEF DialogsAssumption, Open, DialogsInv, DialogsTypes, DialogsTypeOK
<1>2. /\ shown' = [dialog |-> m, target |-> t, opening |-> openings']
      /\ shown'.dialog = m /\ shown'.target = t /\ shown'.opening = openings'
  BY DEF Open
<1>3. calls' = calls /\ visit' = visit /\ page' = page
  BY DEF Open
<1>4. \A k \in DOMAIN calls : calls[k].opening \in Nat
  BY CallsAreCalls DEF DialogsInv
<1>6. DialogsTypes'
  <2>1. Call' = Call
    BY DEF Call, Fields, AllDialogs, AllTargets
  <2> QED  BY <1>1, <1>2, <1>3, <2>1 DEF Open, queueVars, DialogsInv, DialogsTypes, DialogsTypeOK
<1>7. OpenedLast'
  BY <1>1, <1>2, <1>3, <1>4 DEF DialogsInv, OpenedLast
<1>8. AskedHere'
  <2>1. \A k \in DOMAIN calls : calls[k].opening # openings + 1
    BY <1>1, <1>4 DEF DialogsInv, OpenedLast
  <2> QED  BY <1>1, <1>2, <1>3, <2>1 DEF AskedHere
<1>9. OneCommand'
  BY <1>2, <1>3 DEF Open, ButtonIsOn, IsPending, OneCommand
<1> QED  BY <1>3, <1>6, <1>7, <1>8, <1>9 DEF DialogsInv, AskedAgain

\* dismissing it,
LEMMA DismissKeeps == ASSUME DialogsInv, Dismiss PROVE DialogsInv'
<1>1. typed' \in [AllDialogs -> Fields]
  <2>1. Empty \in Fields
    BY DEF Empty, Fields
  <2> QED  BY <2>1 DEF Dismiss, DialogsInv, DialogsTypes, DialogsTypeOK
<1> QED  BY <1>1 DEF Dismiss, queueVars, DialogsInv, DialogsTypes, DialogsTypeOK, OpenedLast,
                     AskedHere, AskedAgain, OneCommand

\* A request joins the calls.
LEMMA Requested ==
    ASSUME DialogsInv, NEW m \in AllDialogs, NEW t \in AllTargets \cup {"harmless"},
           NEW x \in Fields, NEW o \in 0 .. MaxOpenings, Request(m, t, x, o),
           UNCHANGED <<tabVars, queueVars, drops>>
    PROVE  /\ DialogsTypes'
           /\ DOMAIN calls' = DOMAIN calls \cup {Len(calls) + 1}
           /\ \A k \in DOMAIN calls : calls'[k] = calls[k]
           /\ Len(calls) \in Nat /\ DOMAIN calls = 1 .. Len(calls)
           /\ LET c == calls'[Len(calls) + 1]
              IN  /\ c.dialog = m /\ c.target = t /\ c.opening = o /\ c.visit = visit
                  /\ c.told = "not yet"
<1> DEFINE c == [dialog |-> m, target |-> t, with |-> x, opening |-> o, visit |-> visit,
                 served |-> "not yet", told |-> "not yet"]
<1>1. visit \in Nat
  BY DEF DialogsInv, DialogsTypes, DialogsTypeOK
<1>2. c \in Call
  BY <1>1 DEF Call
<1>3. calls' = Append(calls, c) /\ calls \in Seq(Call) /\ Len(calls) < MaxCalls
  BY DEF Request, DialogsInv, DialogsTypes
<1>4. Call' = Call
  BY DEF Call, Fields, AllDialogs, AllTargets
<1> HIDE DEF c
<1>5. /\ calls' \in Seq(Call) /\ Len(calls') = Len(calls) + 1 /\ Len(calls) \in Nat
      /\ \A k \in 1 .. Len(calls) : calls'[k] = calls[k]
      /\ calls'[Len(calls) + 1] = c
  BY <1>2, <1>3, AppendProperties
<1>6. /\ DOMAIN calls' = DOMAIN calls \cup {Len(calls) + 1}
      /\ \A k \in DOMAIN calls : calls'[k] = calls[k]
      /\ Len(calls) \in Nat /\ DOMAIN calls = 1 .. Len(calls)
  BY <1>3, <1>5, LenProperties
<1>7. Len(calls') \leq MaxCalls
  BY <1>3, <1>5, DialogsAssumption DEF DialogsAssumption
<1>8. \A k \in DOMAIN calls' : calls'[k] \in Call
  BY <1>2, <1>3, <1>5, <1>6 DEF DialogsInv, DialogsTypes, DialogsTypeOK
<1>9. DialogsTypes'
  BY <1>4, <1>5, <1>7, <1>8
  DEF tabVars, queueVars, DialogsInv, DialogsTypes, DialogsTypeOK
<1>10. /\ c.dialog = m /\ c.target = t /\ c.opening = o /\ c.visit = visit
       /\ c.told = "not yet"
  BY DEF c
<1> QED  BY <1>5, <1>6, <1>9, <1>10

\* confirming it,
LEMMA ConfirmKeeps == ASSUME DialogsInv, Confirm PROVE DialogsInv'
<1> DEFINE last == Len(calls) + 1
<1>1. shown # None /\ SubmitIsOn(shown.dialog)
      /\ Request(shown.dialog, shown.target, typed[shown.dialog], shown.opening)
      /\ UNCHANGED <<tabVars, queueVars, drops>>
  BY DEF Confirm
<1>2. /\ shown.dialog \in AllDialogs /\ shown.target \in AllTargets \cup {"harmless"}
      /\ shown.opening \in 0 .. MaxOpenings /\ shown.opening # 0
      /\ typed[shown.dialog] \in Fields /\ shown.target # "harmless"
      /\ shown.opening = openings
  <2>1. MaxOpenings \in Nat
    BY DialogsAssumption DEF DialogsAssumption
  <2> QED  BY <1>1, <2>1, ShownIsKnown, DialogsAssumption
           DEF DialogsAssumption, DialogsInv, OpenedLast
<1>0. /\ DOMAIN calls' = DOMAIN calls \cup {last}
      /\ Len(calls) \in Nat /\ DOMAIN calls = 1 .. Len(calls)
  BY <1>1, <1>2, Requested
<1>3. /\ DialogsTypes'
      /\ \A k \in DOMAIN calls : calls'[k] = calls[k]
      /\ calls'[last].dialog = shown.dialog /\ calls'[last].target = shown.target
      /\ calls'[last].opening = shown.opening /\ calls'[last].visit = visit
      /\ calls'[last].told = "not yet"
  BY <1>1, <1>2, Requested
<1> HIDE DEF last
<1>4. shown' = shown /\ visit' = visit /\ openings' = openings
  BY <1>1 DEF tabVars
<1>5. OpenedLast'
  <2>1. visit \in Nat /\ openings \in Nat
    BY <1>1, ShownIsKnown DEF DialogsInv, DialogsTypes, DialogsTypeOK
  <2>2. ASSUME NEW k \in DOMAIN calls'
        PROVE  /\ calls'[k].opening \leq openings /\ calls'[k].visit \leq visit
               /\ calls'[k].target = "harmless" => calls'[k].opening = 0
    <3>1. CASE k \in DOMAIN calls
      BY <1>3, <3>1 DEF DialogsInv, OpenedLast
    <3>2. CASE k = last
      <4>1. /\ calls'[k].opening = openings /\ calls'[k].visit = visit
            /\ calls'[k].target # "harmless"
        BY <1>2, <1>3, <3>2
      <4> QED  BY <2>1, <4>1
    <3> QED  BY <1>0, <1>3, <2>2, <3>1, <3>2
  <2> QED  BY <1>2, <1>4, <2>2 DEF OpenedLast
<1>6. AskedHere'
  BY <1>2, <1>0, <1>3, <1>4 DEF DialogsInv, AskedHere
<1>7. ASSUME NEW j \in DOMAIN calls, calls[j].opening = shown.opening
      PROVE  calls[j].told = "refused"
  BY <1>1, <1>7 DEF SubmitIsOn, IsPending, DialogsInv, AskedHere
<1>8. AskedAgain'
  <2>1. ASSUME NEW j \in DOMAIN calls', NEW k \in DOMAIN calls', j < k,
               calls'[j].opening = calls'[k].opening, calls'[j].opening # 0
        PROVE  calls'[j].told = "refused"
    <3>1. j \in DOMAIN calls
      <4>1. DOMAIN calls' = 1 .. Len(calls) + 1
        BY <1>0 DEF last
      <4> QED  BY <1>0, <2>1, <4>1
    <3>2. CASE k \in DOMAIN calls
      BY <1>3, <2>1, <3>1, <3>2 DEF DialogsInv, AskedAgain
    <3>3. CASE k = last
      BY <1>3, <1>7, <2>1, <3>1, <3>3
    <3> QED  BY <1>0, <1>3, <3>2, <3>3
  <2> QED  BY <2>1 DEF AskedAgain
<1>9. OneCommand'
  BY <1>0, <1>3, <1>4 DEF DialogsInv, OneCommand
<1> QED  BY <1>3, <1>5, <1>6, <1>8, <1>9 DEF DialogsInv

\* or a command that is queued without a dialog.
LEMMA SafeQueueKeeps == ASSUME DialogsInv, safeQueue PROVE DialogsInv'
<1> DEFINE last == Len(calls) + 1
<1>1. "command" \in AllDialogs /\ Empty \in Fields /\ 0 \in 0 .. MaxOpenings
  BY DialogsOfPages, DialogsAssumption DEF DialogsAssumption, Empty, Fields
<1>2. shown = None /\ Request("command", "harmless", Empty, 0)
      /\ UNCHANGED <<tabVars, queueVars, drops>>
  BY DEF safeQueue
<1>3. /\ DialogsTypes'
      /\ DOMAIN calls' = DOMAIN calls \cup {last}
      /\ \A k \in DOMAIN calls : calls'[k] = calls[k]
      /\ Len(calls) \in Nat /\ DOMAIN calls = 1 .. Len(calls)
      /\ calls'[last].opening = 0 /\ calls'[last].visit = visit
  BY <1>1, <1>2, Requested
<1> HIDE DEF last
<1>4. shown' = None /\ visit' = visit /\ openings' = openings
  BY <1>2 DEF tabVars
<1>5. OpenedLast'
  <2>1. visit \in Nat /\ openings \in Nat
    BY DialogsAssumption DEF DialogsAssumption, DialogsInv, DialogsTypes, DialogsTypeOK
  <2> QED  BY <1>3, <1>4, <2>1 DEF DialogsInv, OpenedLast
<1>6. AskedAgain'
  <2>1. ASSUME NEW j \in DOMAIN calls', NEW k \in DOMAIN calls', j < k,
               calls'[j].opening = calls'[k].opening, calls'[j].opening # 0
        PROVE  calls'[j].told = "refused"
    <3>1. j \in DOMAIN calls /\ k \in DOMAIN calls
      BY <1>3, <2>1
    <3> QED  BY <1>3, <2>1, <3>1 DEF DialogsInv, AskedAgain
  <2> QED  BY <2>1 DEF AskedAgain
<1> QED  BY <1>3, <1>4, <1>5, <1>6 DEF DialogsInv, AskedHere, OneCommand

\* Calls of which only the answer changes, and what the operator is told.
Answers ==
    /\ calls' \in Seq(Call) /\ DOMAIN calls' = DOMAIN calls
    /\ \A k \in DOMAIN calls :
        /\ calls'[k].dialog = calls[k].dialog /\ calls'[k].target = calls[k].target
        /\ calls'[k].opening = calls[k].opening /\ calls'[k].visit = calls[k].visit
        /\ calls'[k].told = calls[k].told \/ calls[k].told = "not yet"

\* The type of the answers, apart from the rest.
LEMMA AnswersType ==
    ASSUME DialogsTypes, Answers
    PROVE  calls' \in Seq(Call)' /\ Len(calls') \leq MaxCalls
           /\ \A k \in DOMAIN calls' : calls'[k] \in Call'
<1>1. Call' = Call
  BY DEF Call, Fields, AllDialogs, AllTargets
<1>2. Len(calls') = Len(calls)
  <2> DEFINE last == Len(calls)
             l == Len(calls')
  <2>1. last \in Nat /\ l \in Nat /\ DOMAIN calls = 1 .. last /\ DOMAIN calls' = 1 .. l
    BY LenProperties DEF Answers, DialogsTypes
  <2>2. 1 .. last = 1 .. l
    BY <2>1 DEF Answers
  <2> HIDE DEF last, l
  <2>3. last = 0 \/ last \in 1 .. l
    BY <2>1, <2>2
  <2>4. l = 0 \/ l \in 1 .. last
    BY <2>1, <2>2
  <2>5. last = l
    BY <2>1, <2>3, <2>4
  <2> QED  BY <2>5 DEF last, l
<1>3. \A k \in DOMAIN calls' : calls'[k] \in Call
  BY ElementOfSeq, LenProperties DEF Answers
<1> QED  BY <1>1, <1>2, <1>3 DEF Answers, DialogsTypes, DialogsTypeOK

\* Where only a no may come to be known, the tab stands as it stood.
LEMMA RefusalsKeep ==
    ASSUME DialogsInv, Answers, UNCHANGED tabVars,
           \A k \in DOMAIN calls : calls'[k].told \in {calls[k].told, "refused"}
    PROVE  OpenedLast' /\ AskedHere' /\ AskedAgain' /\ OneCommand'
<1>1. shown' = shown /\ openings' = openings /\ visit' = visit
  BY DEF tabVars
<1>2. /\ DOMAIN calls' = DOMAIN calls
      /\ \A k \in DOMAIN calls :
            /\ calls'[k].dialog = calls[k].dialog /\ calls'[k].target = calls[k].target
            /\ calls'[k].opening = calls[k].opening /\ calls'[k].visit = calls[k].visit
            /\ calls'[k].told \in {calls[k].told, "refused"}
  BY DEF Answers
<1>3. OpenedLast'
  BY <1>1, <1>2 DEF DialogsInv, OpenedLast
<1>4. AskedHere'
  BY <1>1, <1>2 DEF DialogsInv, AskedHere
<1>5. AskedAgain'
  BY <1>1, <1>2 DEF DialogsInv, AskedAgain
<1>6. OneCommand'
  BY <1>1, <1>2 DEF DialogsInv, OneCommand
<1> QED  BY <1>3, <1>4, <1>5, <1>6

\* One call of those on their way, replaced.
LEMMA ReplacedIn ==
    ASSUME NEW S, NEW q \in Seq(S), NEW k \in DOMAIN q, NEW e \in S
    PROVE  /\ [q EXCEPT ![k] = e] \in Seq(S) /\ DOMAIN [q EXCEPT ![k] = e] = DOMAIN q
           /\ \A j \in DOMAIN q : [q EXCEPT ![k] = e][j] = IF j = k THEN e ELSE q[j]
<1>1. k \in 1 .. Len(q) /\ DOMAIN q = 1 .. Len(q)
  BY LenProperties
<1> QED  BY <1>1, ExceptSeq, LenProperties

\* One call changes.
LEMMA OneAnswer ==
    ASSUME DialogsTypes, NEW k \in DOMAIN calls, NEW served \in {"not yet", "done", "refused"},
           NEW told \in {"not yet", "done", "refused", "never"},
           calls' = [calls EXCEPT ![k] = [[@ EXCEPT !.served = served] EXCEPT !.told = told]],
           told = calls[k].told \/ calls[k].told = "not yet"
    PROVE  Answers /\ \A j \in DOMAIN calls : calls'[j].told = IF j = k THEN told ELSE calls[j].told
<1>1. calls \in Seq(Call) /\ calls[k] \in Call
  BY CallsAreCalls DEF DialogsTypes
<1> DEFINE c == [[calls[k] EXCEPT !.served = served] EXCEPT !.told = told]
<1>2. c \in Call /\ c.dialog = calls[k].dialog /\ c.target = calls[k].target
      /\ c.opening = calls[k].opening /\ c.visit = calls[k].visit /\ c.told = told
  BY <1>1 DEF Call
<1>3. calls' = [calls EXCEPT ![k] = c]
  BY <1>1
<1> HIDE DEF c
<1>4. /\ calls' \in Seq(Call) /\ DOMAIN calls' = DOMAIN calls
      /\ \A j \in DOMAIN calls : calls'[j] = IF j = k THEN c ELSE calls[j]
  <2> DEFINE q == [calls EXCEPT ![k] = c]
  <2>1. /\ q \in Seq(Call) /\ DOMAIN q = DOMAIN calls
        /\ \A j \in DOMAIN calls : q[j] = IF j = k THEN c ELSE calls[j]
    BY <1>1, <1>2, ReplacedIn, Zenon
  <2>2. calls' = q
    BY <1>3
  <2> HIDE DEF q
  <2> QED  BY <2>1, <2>2, Zenon
<1> QED  BY <1>2, <1>4 DEF Answers

\* A call is served.
LEMMA ServeKeeps == ASSUME DialogsInv, NEW k \in DOMAIN calls, Serve(k) PROVE DialogsInv'
<1> DEFINE c == calls[k]
<1>1. c \in Call /\ c.told \in {"not yet", "done", "refused", "never"}
  BY CallsAreCalls DEF DialogsInv, Call
<1>2. \A x : [[c EXCEPT !.served = x] EXCEPT !.told = c.told] = [c EXCEPT !.served = x]
  BY <1>1 DEF Call
<1>3. PICK x \in {"done", "refused"} : calls' = [calls EXCEPT ![k] = [c EXCEPT !.served = x]]
  BY DEF Serve
<1>4. calls' = [calls EXCEPT ![k] = [[@ EXCEPT !.served = x] EXCEPT !.told = c.told]]
  BY <1>2, <1>3
<1>5. /\ Answers
      /\ \A j \in DOMAIN calls : calls'[j].told = calls[j].told
  <2>1. DialogsTypes /\ x \in {"not yet", "done", "refused"}
    BY DEF DialogsInv
  <2>2. /\ Answers
        /\ \A j \in DOMAIN calls : calls'[j].told = IF j = k THEN c.told ELSE calls[j].told
    BY <1>1, <1>4, <2>1, OneAnswer
  <2> QED  BY <2>2
<1>6. fate' \in [1 .. MaxCalls -> Fates] /\ older' \in [1 .. MaxCalls -> SUBSET (1 .. MaxCalls)]
  <2>1. /\ fate \in [1 .. MaxCalls -> Fates] /\ "pending" \in Fates
        /\ older \in [1 .. MaxCalls -> SUBSET (1 .. MaxCalls)]
    BY DEF DialogsInv, DialogsTypes, DialogsTypeOK, Fates
  <2>2. Made \in SUBSET (1 .. MaxCalls)
    BY DEF Made
  <2>3. \/ UNCHANGED <<fate, older>>
        \/ fate' = [fate EXCEPT ![k] = "pending"] /\ older' = [older EXCEPT ![k] = Made]
    BY DEF Serve
  <2> QED  BY <2>1, <2>2, <2>3
<1>7. DialogsTypes'
  <2>1. UNCHANGED <<tabVars, list, cancels, drops>>
    BY DEF Serve
  <2> QED  BY <1>5, <1>6, <2>1, AnswersType
           DEF tabVars, DialogsInv, DialogsTypes, DialogsTypeOK
<1>8. OpenedLast' /\ AskedHere' /\ AskedAgain' /\ OneCommand'
  BY <1>5, RefusalsKeep DEF Serve
<1> QED  BY <1>7, <1>8 DEF DialogsInv

\* A call has failed and its page is told.
LEMMA OnErrorKeeps == ASSUME DialogsInv, NEW k \in DOMAIN calls, onError(k) PROVE DialogsInv'
<1> DEFINE c == calls[k]
<1>1. c \in Call /\ c.served \in {"not yet", "done", "refused"}
  BY CallsAreCalls DEF DialogsInv, Call
<1>2. \A x : [[c EXCEPT !.served = c.served] EXCEPT !.told = x] = [c EXCEPT !.told = x]
  BY <1>1 DEF Call
<1>3. calls' = [calls EXCEPT ![k] = [c EXCEPT !.told = "refused"]] /\ c.told = "not yet"
  BY DEF onError
<1>4. calls' = [calls EXCEPT ![k] = [[@ EXCEPT !.served = c.served] EXCEPT !.told = "refused"]]
  BY <1>2, <1>3
<1>5. /\ Answers
      /\ \A j \in DOMAIN calls : calls'[j].told \in {calls[j].told, "refused"}
  <2>1. /\ Answers
        /\ \A j \in DOMAIN calls : calls'[j].told = IF j = k THEN "refused" ELSE calls[j].told
    BY <1>1, <1>3, <1>4, OneAnswer DEF DialogsInv
  <2> QED  BY <2>1
<1>6. drops' \in 0 .. MaxDrops
  <2>1. drops \in 0 .. MaxDrops /\ MaxDrops \in Nat
    BY DialogsAssumption DEF DialogsAssumption, DialogsInv, DialogsTypes, DialogsTypeOK
  <2>2. drops' = drops \/ (drops < MaxDrops /\ drops' = drops + 1)
    BY DEF onError
  <2> QED  BY <2>1, <2>2
<1>7. DialogsTypes'
  BY <1>5, <1>6, AnswersType
  DEF onError, tabVars, queueVars, DialogsInv, DialogsTypes, DialogsTypeOK
<1>8. OpenedLast' /\ AskedHere' /\ AskedAgain' /\ OneCommand'
  BY <1>5, RefusalsKeep DEF onError
<1> QED  BY <1>7, <1>8 DEF DialogsInv

\* An answer that is good news closes the dialog it came from, if that is still open.
LEMMA OnSuccessKeeps ==
    ASSUME DialogsInv, NEW k \in DOMAIN calls, onSuccess(k)
    PROVE  DialogsInv'
<1> DEFINE c == calls[k]
           told(j) == IF j = k THEN "done"
                      ELSE IF Survives(c, j) THEN calls[j].told ELSE "never"
<1>1. /\ c.told = "not yet" /\ openings' = openings /\ UNCHANGED <<queueVars, drops>>
      /\ calls' = [j \in DOMAIN calls |-> [calls[j] EXCEPT !.told = told(j)]]
      /\ Confirmed(c) \/ Transferred(c) \/ Deleted(c)
  BY DEF onSuccess
<1>2. \A j \in DOMAIN calls : told(j) = calls[j].told \/ calls[j].told = "not yet"
  BY <1>1 DEF Survives
<1>3. \A j \in DOMAIN calls :
        /\ calls'[j] \in Call
        /\ calls'[j].dialog = calls[j].dialog /\ calls'[j].target = calls[j].target
        /\ calls'[j].opening = calls[j].opening /\ calls'[j].visit = calls[j].visit
        /\ calls'[j].told = told(j)
  <2>1. ASSUME NEW j \in DOMAIN calls
        PROVE  /\ calls'[j] \in Call
               /\ calls'[j].dialog = calls[j].dialog /\ calls'[j].target = calls[j].target
               /\ calls'[j].opening = calls[j].opening /\ calls'[j].visit = calls[j].visit
               /\ calls'[j].told = told(j)
    <3>1. calls[j] \in Call
      BY CallsAreCalls DEF DialogsInv
    <3>2. calls[j].told \in {"not yet", "done", "refused", "never"}
      BY <3>1 DEF Call
    <3>3. told(j) \in {"not yet", "done", "refused", "never"}
      BY <3>2
    <3>4. calls'[j] = [calls[j] EXCEPT !.told = told(j)]
      BY <1>1
    <3> HIDE DEF told
    <3> QED  BY <3>1, <3>3, <3>4 DEF Call
  <2> QED  BY <2>1
<1>4. calls' \in Seq(Call) /\ DOMAIN calls' = DOMAIN calls
  <2>1. DOMAIN calls = 1 .. Len(calls) /\ Len(calls) \in Nat
    BY LenProperties DEF DialogsInv, DialogsTypes
  <2>2. DOMAIN calls' = DOMAIN calls
    BY <1>1
  <2>3. calls' \in [1 .. Len(calls) -> Call]
    BY <1>1, <1>3, <2>1, Zenon
  <2> QED  BY <2>1, <2>2, <2>3, SeqDef
<1>5. Answers
  BY <1>2, <1>3, <1>4 DEF Answers
<1> HIDE DEF told
<1>6. visit \in Nat /\ visit' \in Nat /\ visit \leq visit'
  <2>1. visit \in Nat
    BY DEF DialogsInv, DialogsTypes, DialogsTypeOK
  <2>2. visit' = visit \/ visit' = visit + 1
    BY <1>1 DEF Confirmed, Transferred, Deleted, Stay
  <2> QED  BY <2>1, <2>2
<1>7. /\ shown' = None \/ (shown' = shown /\ page' = page /\ visit' = visit)
      /\ shown' = None \/ c.dialog # "delete"
  <2>1. CASE Confirmed(c)
    BY <2>1 DEF Confirmed, Stay, CloseOf
  <2>2. CASE Transferred(c)
    BY <2>2 DEF Transferred, Stay, CloseOf
  <2>3. CASE Deleted(c)
    BY <2>3 DEF Deleted
  <2> QED  BY <1>1, <2>1, <2>2, <2>3
<1>8. typed' \in [AllDialogs -> Fields] /\ page' \in Pages
  <2>1. typed \in [AllDialogs -> Fields] /\ page \in Pages /\ AllEmpty \in [AllDialogs -> Fields]
    BY DEF DialogsInv, DialogsTypes, DialogsTypeOK, AllEmpty, Empty, Fields
  <2>2. CASE Confirmed(c)
    BY <2>1, <2>2 DEF Confirmed, Stay
  <2>3. CASE Transferred(c)
    BY <2>1, <2>3 DEF Transferred, Stay, Fields
  <2>4. CASE Deleted(c)
    BY <2>1, <2>4 DEF Deleted, Pages
  <2> QED  BY <1>1, <2>2, <2>3, <2>4
<1>9. DialogsTypes'
  BY <1>1, <1>5, <1>6, <1>7, <1>8, AnswersType
  DEF queueVars, DialogsInv, DialogsTypes, DialogsTypeOK
<1>10. OpenedLast'
  <2>1. \A j \in DOMAIN calls : calls[j].visit \in Nat
    BY CallsAreCalls DEF DialogsInv
  <2>2. ASSUME NEW j \in DOMAIN calls'
        PROVE  /\ calls'[j].opening \leq openings' /\ calls'[j].visit \leq visit'
               /\ calls'[j].target = "harmless" => calls'[j].opening = 0
    <3>1. j \in DOMAIN calls
      BY <1>4
    <3>2. calls[j].visit \leq visit /\ calls[j].visit \in Nat
      BY <2>1, <3>1 DEF DialogsInv, OpenedLast
    <3>3. calls[j].visit \leq visit'
      BY <1>6, <3>2
    <3> QED  BY <1>1, <1>3, <3>1, <3>3 DEF DialogsInv, OpenedLast
  <2>3. shown' # None => shown'.opening = openings'
    BY <1>1, <1>7 DEF DialogsInv, OpenedLast
  <2> QED  BY <2>2, <2>3 DEF OpenedLast
<1>11. ASSUME shown' # None
       PROVE  /\ shown' = shown /\ visit' = visit
              /\ c.opening # shown.opening
              /\ \A j \in DOMAIN calls : j # k => told(j) = calls[j].told
  <2>1. shown' = shown /\ visit' = visit /\ c.dialog # "delete" /\ shown # None
    BY <1>7, <1>11
  <2>2. \A j \in DOMAIN calls : j # k => told(j) = calls[j].told
    BY <2>1 DEF told, Survives
  <2>3. ASSUME c.opening = shown.opening
        PROVE  FALSE
    <3>1. c.dialog = shown.dialog /\ c.visit = visit
      BY <2>1, <2>3 DEF DialogsInv, AskedHere
    <3>2. c.target # "harmless"
      <4>1. shown.opening # 0
        BY <2>1, ShownIsKnown DEF DialogsInv
      <4> QED  BY <2>3, <4>1 DEF DialogsInv, OpenedLast
    <3> QED  BY <1>1, <1>11, <2>1, <3>1, <3>2
             DEF Confirmed, Transferred, Deleted, CloseOf
  <2> QED  BY <2>1, <2>2, <2>3
<1>12. AskedHere'
  <2>1. ASSUME shown' # None, NEW j \in DOMAIN calls, calls'[j].opening = shown'.opening
        PROVE  /\ calls'[j].dialog = shown'.dialog /\ calls'[j].target = shown'.target
               /\ calls'[j].visit = visit' /\ calls'[j].told \in {"not yet", "refused"}
    <3>1. shown' = shown /\ visit' = visit /\ calls[j].opening = shown.opening
          /\ told(j) = calls[j].told
      BY <1>3, <1>11, <2>1
    <3> QED  BY <1>3, <2>1, <3>1 DEF DialogsInv, AskedHere
  <2> QED  BY <1>4, <2>1 DEF AskedHere
<1>13. AskedAgain'
  BY <1>5 DEF Answers, DialogsInv, AskedAgain
<1>14. OneCommand'
  <2>1. ASSUME shown' # None, NEW j \in DOMAIN calls, calls'[j].told = "not yet"
        PROVE  calls[j].told = "not yet"
    <3>1. told(k) = "done"
      BY DEF told
    <3> QED  BY <1>3, <1>11, <2>1, <3>1
  <2> QED  BY <1>3, <1>4, <1>11, <2>1 DEF DialogsInv, OneCommand
<1> QED  BY <1>9, <1>10, <1>12, <1>13, <1>14 DEF DialogsInv

\* Every step keeps the invariant of the dialogs.
LEMMA DialogsKept == DialogsInv /\ [DialogsNext]_dialogsVars => DialogsInv'
<1> SUFFICES ASSUME DialogsInv, [DialogsNext]_dialogsVars PROVE DialogsInv'
  OBVIOUS
<1>1. ASSUME NEW p \in Pages, Navigate(p) PROVE DialogsInv'
  BY <1>1, NavigateKeeps
<1>2. ASSUME NEW m \in Dialogs(page), NEW t \in Targets(m), Open(m, t) PROVE DialogsInv'
  BY <1>2, OpenKeeps
<1>3. CASE Typing
  <2>1. shown # None /\ typed[shown.dialog] \in Fields
    BY <1>3, ShownIsKnown DEF Typing, DialogsInv
  <2>2. PICK fields \in Fields : Type(fields)
    BY <1>3, <2>1 DEF Typing, TypeReason, TypeSecret, Choose, Fields
  <2> QED  BY <2>2, TypingKeeps
<1>4. CASE Dismiss \/ Confirm \/ safeQueue
  BY <1>4, DismissKeeps, ConfirmKeeps, SafeQueueKeeps
<1>5. ASSUME NEW k \in 1 .. MaxCalls, Serve(k) \/ onSuccess(k) \/ onError(k)
      PROVE  DialogsInv'
  <2>1. k \in DOMAIN calls
    BY <1>5 DEF Serve, onSuccess, onError
  <2> QED  BY <1>5, <2>1, ServeKeeps, OnSuccessKeeps, OnErrorKeeps
<1>6. ASSUME NEW k \in 1 .. MaxCalls, RunsOut(k) \/ PressCancel(k) \/ cancelCommand(k)
      PROVE  DialogsInv'
  <2>1. /\ fate' \in [1 .. MaxCalls -> Fates] /\ UNCHANGED <<older, list>>
        /\ cancels' \subseteq 1 .. MaxCalls /\ UNCHANGED <<tabVars, calls, drops>>
    BY <1>6 DEF RunsOut, PressCancel, cancelCommand, DialogsInv, DialogsTypes, DialogsTypeOK,
                Fates
  <2> QED  BY <2>1 DEF tabVars, DialogsInv, DialogsTypes, DialogsTypeOK, OpenedLast, AskedHere,
                       AskedAgain, OneCommand
<1>7. CASE listCommands \/ UNCHANGED dialogsVars
  <2>1. UNCHANGED <<fate, older, cancels>> /\ list' \in [1 .. MaxCalls -> Fates]
        /\ UNCHANGED <<tabVars, calls, drops>>
    BY <1>7 DEF listCommands, Shows, Fates, dialogsVars, queueVars, DialogsInv, DialogsTypes, DialogsTypeOK
  <2> QED  BY <2>1 DEF tabVars, DialogsInv, DialogsTypes, DialogsTypeOK, OpenedLast, AskedHere,
                       AskedAgain, OneCommand
<1> QED  BY <1>1, <1>2, <1>3, <1>4, <1>5, <1>6, <1>7 DEF DialogsNext

\* The invariant of the dialogs holds in every state that is reached.
THEOREM DialogsInvHolds == DialogsSpec => []DialogsInv
  BY DialogsInitInv, DialogsKept, PTL DEF DialogsSpec

\* A tab only ever has a dialog of the page it shows, and knows of each call what the server
\* and the operator could have said.
THEOREM DialogsTypeCorrect == DialogsSpec => []DialogsTypeOK
<1>1. DialogsInv => DialogsTypeOK
  BY DEF DialogsInv, DialogsTypes
<1> QED  BY <1>1, DialogsInvHolds, PTL

\* However often dialogs are opened, dismissed and confirmed while answers are late: what
\* one opening asked for is done once, unless its first answer was lost.
THEOREM OpeningsHaveOneEffect == DialogsSpec => []OneEffectPerOpening
<1>1. DialogsInv => OneEffectPerOpening
  BY DEF DialogsInv, AskedAgain, OneEffectPerOpening
<1> QED  BY <1>1, DialogsInvHolds, PTL

\* The dialog on a terminal's page closes by itself only for what it showed.
THEOREM DialogsTellTheTruth == DialogsSpec => ClosedIsDone
<1> DEFINE Closes == shown # None /\ shown.dialog = "command" /\ shown' = None
                     /\ page' = page /\ calls' # calls
           IsDone == \E k \in DOMAIN calls : /\ calls[k].opening = shown.opening
                                             /\ calls[k].target = shown.target
                                             /\ calls[k].served = "done"
<1>1. DialogsInv /\ [DialogsNext]_dialogsVars => [Closes => IsDone]_dialogsVars
  <2> SUFFICES ASSUME DialogsInv, DialogsNext, Closes PROVE IsDone
    OBVIOUS
  <2>1. PICK k \in 1 .. MaxCalls : onSuccess(k)
    BY DEF DialogsNext, Navigate, Open, Typing, Type, TypeReason, TypeSecret, Choose, Dismiss,
           Confirm, safeQueue, Serve, RunsOut, onError, PressCancel, cancelCommand,
           listCommands, tabVars
  <2> DEFINE c == calls[k]
  <2>2. k \in DOMAIN calls /\ c.served = "done" /\ c.told = "not yet"
        /\ (Confirmed(c) \/ Transferred(c) \/ Deleted(c))
    BY <2>1 DEF onSuccess
  <2>3. ~Deleted(c)
    <3>1. page # "elsewhere"
      BY DEF DialogsInv, DialogsTypes, DialogsTypeOK, Dialogs
    <3> QED  BY <3>1 DEF Deleted
  <2>4. c.dialog = "command" /\ c.visit = visit
    BY <2>2, <2>3 DEF Confirmed, Transferred, CloseOf
  <2>5. c.opening = shown.opening /\ c.target = shown.target
    BY <2>2, <2>4 DEF DialogsInv, OneCommand, AskedHere
  <2> QED  BY <2>2, <2>5
<1> QED  BY <1>1, DialogsInvHolds, PTL DEF DialogsSpec, ClosedIsDone

\* A call whose command has a row was served.
FateFollowsServing ==
    \A k \in 1 .. MaxCalls :
        fate[k] # "none" => k \in DOMAIN calls /\ calls[k].served # "not yet"

LEMMA FateFollowsInit == DialogsInit => FateFollowsServing
BY DEF DialogsInit, FateFollowsServing

\* Asking adds a call, and answering leaves served as it is.
LEMMA FateFollowsKept == DialogsInv /\ FateFollowsServing /\ [DialogsNext]_dialogsVars
                            => FateFollowsServing'
<1> SUFFICES ASSUME DialogsInv, FateFollowsServing, [DialogsNext]_dialogsVars
             PROVE  FateFollowsServing'
  OBVIOUS
<1>1. /\ fate \in [1 .. MaxCalls -> Fates] /\ calls \in Seq(Call)
      /\ Len(calls) \in Nat /\ DOMAIN calls = 1 .. Len(calls)
  BY DEF DialogsInv, DialogsTypes, DialogsTypeOK
<1>2. ASSUME Confirm \/ safeQueue
      PROVE  FateFollowsServing'
  <2>1. fate' = fate /\ \E c : calls' = Append(calls, c)
    BY <1>2 DEF Confirm, safeQueue, Request, queueVars
  <2>2. \A k \in DOMAIN calls : k \in DOMAIN calls' /\ calls'[k] = calls[k]
    BY <1>1, <2>1
  <2> QED  BY <2>1, <2>2 DEF FateFollowsServing
<1>3. ASSUME NEW k \in 1 .. MaxCalls, Serve(k)
      PROVE  FateFollowsServing'
  <2>1. /\ k \in DOMAIN calls /\ DOMAIN calls' = DOMAIN calls
        /\ calls'[k].served # "not yet"
        /\ \A j \in DOMAIN calls : j # k => calls'[j] = calls[j]
    BY <1>3, CallsAreCalls DEF Serve, Call, DialogsInv
  <2>2. \A j \in 1 .. MaxCalls : j # k => fate'[j] = fate[j]
    BY <1>3, <1>1 DEF Serve
  <2> QED  BY <2>1, <2>2 DEF FateFollowsServing
<1>4. ASSUME NEW k \in 1 .. MaxCalls, RunsOut(k) \/ cancelCommand(k)
      PROVE  FateFollowsServing'
  <2>1. calls' = calls /\ \A j \in 1 .. MaxCalls : fate[j] = "none" => fate'[j] = "none"
    BY <1>4, <1>1 DEF RunsOut, cancelCommand
  <2> QED  BY <2>1 DEF FateFollowsServing
<1>5. ASSUME NEW k \in 1 .. MaxCalls, onSuccess(k) \/ onError(k)
      PROVE  FateFollowsServing'
  <2>1. fate' = fate /\ DOMAIN calls' = DOMAIN calls
    BY <1>5 DEF onSuccess, onError, queueVars
  <2>2. \A j \in DOMAIN calls : calls'[j].served = calls[j].served
    <3>1. CASE onSuccess(k)
      BY <3>1, CallsAreCalls DEF onSuccess, Call, DialogsInv
    <3>2. CASE onError(k)
      BY <3>2, CallsAreCalls DEF onError, Call, DialogsInv
    <3> QED  BY <1>5, <3>1, <3>2
  <2> QED  BY <2>1, <2>2 DEF FateFollowsServing
<1>6. CASE UNCHANGED <<calls, fate>>
  BY <1>6 DEF FateFollowsServing
<1> QED  BY <1>2, <1>3, <1>4, <1>5, <1>6
         DEF DialogsNext, Navigate, Open, Typing, Type, TypeReason, TypeSecret, Choose,
             Dismiss, PressCancel, listCommands, dialogsVars, queueVars

LEMMA DialogFateInit == DialogsInit => DialogFate!Init
BY DEF DialogsInit, DialogFate!Init

LEMMA DialogFateStep == DialogsInv /\ FateFollowsServing /\ [DialogsNext]_dialogsVars
                            => [DialogFate!Next]_fate
<1> SUFFICES ASSUME DialogsInv, FateFollowsServing, [DialogsNext]_dialogsVars
             PROVE  DialogFate!Next \/ UNCHANGED fate
  OBVIOUS
<1>1. fate \in [1 .. MaxCalls -> Fates]
  BY DEF DialogsInv, DialogsTypes, DialogsTypeOK
<1>2. ASSUME NEW k \in 1 .. MaxCalls, Serve(k)
      PROVE  DialogFate!Next \/ UNCHANGED fate
  <2>1. fate[k] = "none"
    BY <1>2 DEF Serve, FateFollowsServing
  <2>2. fate' = [fate EXCEPT ![k] = "pending"] \/ fate' = fate
    BY <1>2 DEF Serve
  <2> QED  BY <2>1, <2>2 DEF DialogFate!Next, DialogFate!Issue
<1>3. ASSUME NEW k \in 1 .. MaxCalls, RunsOut(k)
      PROVE  DialogFate!Next
  <2>1. fate' = [j \in 1 .. MaxCalls |-> IF j \in {k} THEN "over" ELSE fate[j]]
    BY <1>1, <1>3 DEF RunsOut
  <2>2. DialogFate!RunOut({k})
    BY <1>3, <2>1 DEF RunsOut, DialogFate!RunOut
  <2> QED  BY <2>2 DEF DialogFate!Next
<1>4. ASSUME NEW k \in 1 .. MaxCalls, cancelCommand(k)
      PROVE  DialogFate!Next \/ UNCHANGED fate
  <2>1. CASE fate[k] = "pending"
    BY <1>1, <1>4, <2>1 DEF cancelCommand, DialogFate!Next, DialogFate!Cancel
  <2>2. CASE fate[k] # "pending"
    BY <1>1, <1>4, <2>2 DEF cancelCommand
  <2> QED  BY <2>1, <2>2
<1>5. CASE UNCHANGED fate
  BY <1>5
<1> QED  BY <1>2, <1>3, <1>4, <1>5
         DEF DialogsNext, Navigate, Open, Typing, Type, TypeReason, TypeSecret, Choose,
             Dismiss, Confirm, safeQueue, onSuccess, onError, PressCancel, listCommands,
             dialogsVars, queueVars

\* The tab's commands fare as CommandFate says, which QueueKeepsFate shows of the rows they
\* become: the dialogs assume nothing of the queue that it does not keep.
THEOREM DialogsKeepFate == DialogsSpec => DialogFateSpec
BY DialogsInvHolds, FateFollowsInit, FateFollowsKept, DialogFateInit, DialogFateStep, PTL
   DEF DialogsSpec, DialogFateSpec, DialogFate!Spec
=============================================================================
