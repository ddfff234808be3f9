------------------------- MODULE SyncDelivery_proofs -------------------------
(***************************************************************************)
(* SyncDelivery, for any tenants, punches, limits and number of timer      *)
(* callbacks.                                                              *)
(*                                                                         *)
(* Everything rests on cycleInFlight: because at most one callback is past *)
(* its first line, the batch in its hands is still pending, still short of *)
(* the attempts limit and still of the tenant it was read for when the     *)
(* statement that marks it runs, although neither UPDATE asks.             *)
(***************************************************************************)
EXTENDS SyncDelivery, TLAPS

\* At most one callback is inside runCycle, and the flag says so.
Exclusive ==
    /\ \A c \in Cycles : pc[c] # "idle" => inFlight
    /\ \A c, d \in Cycles : pc[c] # "idle" /\ pc[d] # "idle" => c = d

\* A configured endpoint, and one copied into a cycle, is of its tenant.
EndpointsStayHome ==
    /\ \A t \in Tenants : endpoint[t] \in EndpointsOf[t] \cup {Null}
    /\ \A c \in Cycles : \A x \in todo[c] : x.endpoint \in EndpointsOf[x.tenant]

\* Past the choice of a tenant, the callback has one.
AtWork == {"fetching", "posting", "accepted", "rejected"}
HasTenant ==
    \A c \in Cycles : pc[c] \in AtWork =>
        /\ cur[c] \in Targets
        /\ cur[c].endpoint \in EndpointsOf[cur[c].tenant]

\* The batch between its SELECT and its UPDATE.
BatchIsLive ==
    \A c \in Cycles : \A p \in batch[c] :
        /\ pc[c] \in {"posting", "accepted", "rejected"}
        /\ sync[p] = "pending"
        /\ owner[p] = cur[c].tenant
AcceptedIsTaken ==
    \A c \in Cycles : pc[c] = "accepted" => \A p \in batch[c] : p \in Taken

\* Only a failed punch has used up its attempts.
AttemptsLeft == \A p \in Punches : sync[p] # "failed" => attempts[p] < MaxFailed

IInv ==
    /\ TypeOK
    /\ Exclusive
    /\ EndpointsStayHome
    /\ HasTenant
    /\ BatchIsLive
    /\ AcceptedIsTaken
    /\ AttemptsLeft
    /\ SyncedWasTaken
    /\ TenantsStayApart

-----------------------------------------------------------------------------
(* Lemmas about the operators                                              *)

\* LIMIT returns some of the candidates, and what it may return of a tenant
\* is pending and of that tenant.
LEMMA FetchedIsSendable ==
    ASSUME NEW t, NEW p \in Oldest(Sendable(t))
    PROVE  p \in Punches /\ owner[p] = t /\ sync[p] = "pending"
BY DEF Oldest, Sendable

\* A row of listTenantsWithIntegration.
LEMMA ListedIsTarget ==
    ASSUME TypeOK, EndpointsStayHome, NEW t \in Tenants, Listed(t)
    PROVE  /\ [tenant |-> t, endpoint |-> endpoint[t]] \in Targets
           /\ endpoint[t] \in EndpointsOf[t]
BY DEF Listed, EndpointsStayHome, Targets, Endpoints

\* One more rejection ends below the limit, or the row becomes 'failed'.
LEMMA FailureCounts ==
    ASSUME TypeOK, NEW p \in Punches, sync[p] = "pending", attempts[p] < MaxFailed
    PROVE  /\ attempts[p] + 1 \in 0 .. MaxFailed
           /\ StatusAfterFailure(p) \in {"pending", "failed"}
           /\ StatusAfterFailure(p) = "pending" => attempts[p] + 1 < MaxFailed
BY SyncAssumption DEF TypeOK, StatusAfterFailure

-----------------------------------------------------------------------------
(* One step                                                                *)

LEMMA TypePreserved == IInv /\ [Next]_vars => TypeOK'
<1> SUFFICES ASSUME IInv, [Next]_vars PROVE TypeOK'
  OBVIOUS
<1> USE SyncAssumption
    DEF IInv, TypeOK, punchVars, configVars, workerVars, LeaveTenant
<1>1. ASSUME NEW p \in Punches, Arrive(p) \/ Void(p)
      PROVE  TypeOK'
  BY <1>1 DEF Arrive, Void
<1>2. ASSUME NEW t \in Tenants, RetryFailed(t)
      PROVE  TypeOK'
  BY <1>2 DEF RetryFailed
<1>3. ASSUME NEW t \in Tenants, SetIntegration(t) \/ ClearIntegration(t)
      PROVE  TypeOK'
  <2>1. EndpointsOf[t] \subseteq Endpoints
    BY DEF Endpoints
  <2>2. CASE SetIntegration(t)
    BY <2>1, <2>2 DEF SetIntegration
  <2>3. CASE ClearIntegration(t)
    BY <2>3 DEF ClearIntegration
  <2> QED  BY <1>3, <2>2, <2>3
<1>4. ASSUME NEW c \in Cycles, StartCycle(c)
      PROVE  TypeOK'
  BY <1>4, ListedIsTarget DEF StartCycle
<1>5. ASSUME NEW c \in Cycles, PickTenant(c) \/ EndCycle(c)
      PROVE  TypeOK'
  <2>1. CASE PickTenant(c)
    BY <2>1 DEF PickTenant
  <2>2. CASE EndCycle(c)
    BY <2>2 DEF EndCycle
  <2> QED  BY <1>5, <2>1, <2>2
<1>6. ASSUME NEW c \in Cycles, Fetch(c)
      PROVE  TypeOK'
  BY <1>6, FetchedIsSendable DEF Fetch
<1>7. ASSUME NEW c \in Cycles, PostAccepted(c) \/ PostRejected4xx(c) \/ PostUnknown(c)
      PROVE  TypeOK'
  <2>1. cur[c].endpoint \in Endpoints
    BY <1>7 DEF PostAccepted, PostRejected4xx, PostUnknown, HasTenant, AtWork, Targets
  <2>2. ({cur[c].endpoint} \X batch[c]) \subseteq Endpoints \X Punches
    BY <2>1
  <2>3. CASE PostAccepted(c)
    BY <2>2, <2>3 DEF PostAccepted, Take
  <2>4. CASE PostRejected4xx(c)
    BY <2>4 DEF PostRejected4xx
  <2>5. CASE PostUnknown(c)
    BY <2>2, <2>5 DEF PostUnknown, Take
  <2> QED  BY <1>7, <2>3, <2>4, <2>5
<1>8. ASSUME NEW c \in Cycles, MarkPunchesSynced(c)
      PROVE  TypeOK'
  BY <1>8 DEF MarkPunchesSynced
<1>9. ASSUME NEW c \in Cycles, MarkPunchesFailed(c)
      PROVE  TypeOK'
  <2>1. \A p \in batch[c] : /\ attempts[p] + 1 \in 0 .. MaxFailed
                            /\ StatusAfterFailure(p) \in {"pending", "failed"}
    BY FailureCounts DEF BatchIsLive, AttemptsLeft
  <2> QED  BY <1>9, <2>1 DEF MarkPunchesFailed
<1>10. ASSUME NEW c \in Cycles, TenantThrows(c)
      PROVE  TypeOK'
  BY <1>10 DEF TenantThrows
<1>11. CASE Crash
  <2>1. inFlight' \in BOOLEAN
    BY <1>11 DEF Crash
  <2>2. spent' \in 0 .. Budget
    BY <1>11 DEF Crash
  <2>3. pc' \in [Cycles -> {"idle", "picking"} \cup AtWork]
    BY <1>11 DEF Crash, AtWork
  <2>4. todo' \in [Cycles -> SUBSET Targets] /\ batch' \in [Cycles -> SUBSET Punches]
    BY <1>11 DEF Crash
  <2>5. cur' \in [Cycles -> Targets \cup {Nobody}]
    BY <1>11 DEF Crash
  <2>6. rounds' \in [Cycles -> 0 .. MaxRounds] /\ tries' \in [Cycles -> 0 .. MaxTries]
    BY <1>11 DEF Crash
  <2>7. UNCHANGED <<sync, attempts, voided, endpoint, token, inbox>>
    BY <1>11 DEF Crash
  <2> QED  BY <2>1, <2>2, <2>3, <2>4, <2>5, <2>6, <2>7 DEF AtWork
<1>12. CASE UNCHANGED vars
  BY <1>12 DEF vars
<1> QED  BY <1>1, <1>2, <1>3, <1>4, <1>5, <1>6, <1>7, <1>8, <1>9, <1>10, <1>11, <1>12
         DEF Next, Work

\* While c is inside runCycle, no other callback has anything in its hands.
LEMMA OthersIdle ==
    ASSUME IInv, NEW c \in Cycles, pc[c] # "idle"
    PROVE  /\ inFlight
           /\ \A d \in Cycles : d # c => pc[d] = "idle" /\ batch[d] = {}
BY DEF IInv, Exclusive, BatchIsLive

LEMMA ExclusivePreserved == IInv /\ [Next]_vars => Exclusive'
<1> SUFFICES ASSUME IInv, [Next]_vars PROVE Exclusive'
  OBVIOUS
<1> USE DEF IInv, TypeOK, Exclusive, workerVars, LeaveTenant
<1>1. CASE /\ pc' = pc /\ inFlight' = inFlight
  BY <1>1
<1>2. ASSUME NEW c \in Cycles, StartCycle(c)
      PROVE  Exclusive'
  BY <1>2 DEF StartCycle, MayStart
<1>3. ASSUME NEW c \in Cycles, EndCycle(c)
      PROVE  Exclusive'
  BY <1>3 DEF EndCycle
<1>4. ASSUME NEW c \in Cycles, pc[c] # "idle", inFlight' = inFlight,
             NEW x \in {"picking"} \cup AtWork, pc' = [pc EXCEPT ![c] = x]
      PROVE  Exclusive'
  BY <1>4 DEF AtWork
<1>5. ASSUME NEW c \in Cycles, PickTenant(c) \/ Fetch(c)
      PROVE  Exclusive'
  BY <1>4, <1>5 DEF PickTenant, Fetch, AtWork
<1>6. ASSUME NEW c \in Cycles, PostAccepted(c) \/ PostRejected4xx(c) \/ PostUnknown(c)
      PROVE  Exclusive'
  BY <1>1, <1>4, <1>6 DEF PostAccepted, PostRejected4xx, PostUnknown, AtWork
<1>7. ASSUME NEW c \in Cycles, MarkPunchesSynced(c) \/ MarkPunchesFailed(c) \/ TenantThrows(c)
      PROVE  Exclusive'
  BY <1>4, <1>7 DEF MarkPunchesSynced, MarkPunchesFailed, TenantThrows, AtWork
<1>8. CASE Crash
  BY <1>8 DEF Crash
<1>9. CASE \/ \E p \in Punches : Arrive(p) \/ Void(p)
           \/ \E t \in Tenants : RetryFailed(t) \/ SetIntegration(t) \/ ClearIntegration(t)
           \/ UNCHANGED vars
  BY <1>1, <1>9 DEF Arrive, Void, RetryFailed, SetIntegration, ClearIntegration, vars
<1> QED  BY <1>2, <1>3, <1>5, <1>6, <1>7, <1>8, <1>9 DEF Next, Work

LEMMA EndpointsPreserved == IInv /\ [Next]_vars => EndpointsStayHome'
<1> SUFFICES ASSUME IInv, [Next]_vars PROVE EndpointsStayHome'
  OBVIOUS
<1> USE DEF IInv, TypeOK, EndpointsStayHome, workerVars, configVars
<1>1. CASE /\ endpoint' = endpoint
           /\ \A c \in Cycles : todo'[c] \subseteq todo[c]
  BY <1>1
<1>2. ASSUME NEW t \in Tenants, SetIntegration(t) \/ ClearIntegration(t)
      PROVE  EndpointsStayHome'
  <2>1. CASE SetIntegration(t)
    BY <2>1 DEF SetIntegration
  <2>2. CASE ClearIntegration(t)
    BY <2>2 DEF ClearIntegration
  <2> QED  BY <1>2, <2>1, <2>2
<1>3. ASSUME NEW c \in Cycles, StartCycle(c)
      PROVE  EndpointsStayHome'
  <2>1. \A x \in todo'[c] : x.endpoint \in EndpointsOf[x.tenant]
    BY <1>3, ListedIsTarget DEF StartCycle
  <2> QED  BY <1>3, <2>1 DEF StartCycle
<1>4. ASSUME NEW c \in Cycles, PickTenant(c)
      PROVE  EndpointsStayHome'
  BY <1>1, <1>4 DEF PickTenant
<1>5. CASE Crash
  BY <1>1, <1>5 DEF Crash
<1>6. ASSUME NEW c \in Cycles,
             \/ EndCycle(c) \/ Fetch(c) \/ TenantThrows(c)
             \/ PostAccepted(c) \/ PostRejected4xx(c) \/ PostUnknown(c)
             \/ MarkPunchesSynced(c) \/ MarkPunchesFailed(c)
      PROVE  EndpointsStayHome'
  BY <1>1, <1>6 DEF EndCycle, Fetch, TenantThrows, PostAccepted, PostRejected4xx,
                    PostUnknown, MarkPunchesSynced, MarkPunchesFailed
<1>7. CASE \/ \E p \in Punches : Arrive(p) \/ Void(p)
           \/ \E t \in Tenants : RetryFailed(t)
           \/ UNCHANGED vars
  BY <1>1, <1>7 DEF Arrive, Void, RetryFailed, vars
<1> QED  BY <1>2, <1>3, <1>4, <1>5, <1>6, <1>7 DEF Next, Work

LEMMA TenantPreserved == IInv /\ [Next]_vars => HasTenant'
<1> SUFFICES ASSUME IInv, [Next]_vars PROVE HasTenant'
  OBVIOUS
<1> USE DEF IInv, TypeOK, HasTenant, workerVars
<1>1. CASE /\ cur' = cur
           /\ \A c \in Cycles : pc'[c] \in AtWork => pc[c] \in AtWork
  BY <1>1
<1>2. ASSUME NEW c \in Cycles, PickTenant(c)
      PROVE  HasTenant'
  BY <1>2 DEF PickTenant, EndpointsStayHome
<1>3. ASSUME NEW c \in Cycles, LeaveTenant(c)
      PROVE  HasTenant'
  BY <1>3 DEF LeaveTenant, AtWork
<1>4. ASSUME NEW c \in Cycles, Fetch(c) \/ MarkPunchesSynced(c)
      PROVE  HasTenant'
  BY <1>1, <1>3, <1>4 DEF Fetch, MarkPunchesSynced, AtWork
<1>5. ASSUME NEW c \in Cycles, MarkPunchesFailed(c) \/ TenantThrows(c)
      PROVE  HasTenant'
  BY <1>3, <1>5 DEF MarkPunchesFailed, TenantThrows
<1>6. ASSUME NEW c \in Cycles,
             \/ StartCycle(c) \/ EndCycle(c)
             \/ PostAccepted(c) \/ PostRejected4xx(c) \/ PostUnknown(c)
      PROVE  HasTenant'
  BY <1>1, <1>6 DEF StartCycle, EndCycle, PostAccepted, PostRejected4xx, PostUnknown, AtWork
<1>7. CASE Crash
  BY <1>7 DEF Crash, AtWork
<1>8. CASE \/ \E p \in Punches : Arrive(p) \/ Void(p)
           \/ \E t \in Tenants : RetryFailed(t) \/ SetIntegration(t) \/ ClearIntegration(t)
           \/ UNCHANGED vars
  BY <1>1, <1>8 DEF Arrive, Void, RetryFailed, SetIntegration, ClearIntegration, vars
<1> QED  BY <1>2, <1>4, <1>5, <1>6, <1>7, <1>8 DEF Next, Work

LEMMA BatchPreserved == IInv /\ [Next]_vars => BatchIsLive'
<1> SUFFICES ASSUME IInv, [Next]_vars PROVE BatchIsLive'
  OBVIOUS
<1> USE DEF IInv, TypeOK, BatchIsLive, workerVars, punchVars, AtWork
<1>1. CASE /\ UNCHANGED <<pc, cur, batch>>
           /\ \A p \in Punches : sync[p] = "pending" => sync'[p] = "pending"
  BY <1>1
<1>2. ASSUME NEW p \in Punches, Arrive(p)
      PROVE  BatchIsLive'
  BY <1>1, <1>2 DEF Arrive
<1>3. ASSUME NEW t \in Tenants, RetryFailed(t)
      PROVE  BatchIsLive'
  BY <1>1, <1>3 DEF RetryFailed
\* c changes only its own locals, and ends up with a batch of its own or none.
<1>4. ASSUME NEW c \in Cycles, sync' = sync,
             \A d \in Cycles : d # c =>
                 pc'[d] = pc[d] /\ cur'[d] = cur[d] /\ batch'[d] = batch[d],
             \/ batch'[c] = {}
             \/ /\ batch'[c] = batch[c] /\ cur'[c] = cur[c]
                /\ batch[c] # {} => pc'[c] \in {"posting", "accepted", "rejected"}
      PROVE  BatchIsLive'
  BY <1>4
<1>5. ASSUME NEW c \in Cycles, StartCycle(c)
      PROVE  BatchIsLive'
  <2>1. batch[c] = {}
    BY <1>5 DEF StartCycle
  <2> QED  BY <1>4, <1>5, <2>1 DEF StartCycle
<1>6. ASSUME NEW c \in Cycles, PickTenant(c) \/ EndCycle(c)
      PROVE  BatchIsLive'
  <2>1. batch[c] = {}
    BY <1>6 DEF PickTenant, EndCycle
  <2>2. CASE PickTenant(c)
    BY <1>4, <2>1, <2>2 DEF PickTenant
  <2>3. CASE EndCycle(c)
    BY <1>4, <2>1, <2>3 DEF EndCycle
  <2> QED  BY <1>6, <2>2, <2>3
<1>7. ASSUME NEW c \in Cycles, LeaveTenant(c), sync' = sync
      PROVE  BatchIsLive'
  BY <1>4, <1>7 DEF LeaveTenant
<1>8. ASSUME NEW c \in Cycles, Fetch(c)
      PROVE  BatchIsLive'
  <2>1. CASE LeaveTenant(c)
    BY <1>7, <1>8, <2>1 DEF Fetch
  <2>2. CASE ~LeaveTenant(c)
    <3>1. batch'[c] = Oldest(Sendable(cur[c].tenant)) /\ pc'[c] = "posting"
      BY <1>8, <2>2 DEF Fetch
    <3>2. cur' = cur /\ sync' = sync
      BY <1>8, <2>2 DEF Fetch
    <3>3. \A d \in Cycles : d # c => pc'[d] = pc[d] /\ batch'[d] = batch[d]
      BY <1>8, <2>2 DEF Fetch
    <3> QED  BY <3>1, <3>2, <3>3, FetchedIsSendable
  <2> QED  BY <2>1, <2>2
<1>9. ASSUME NEW c \in Cycles, PostAccepted(c) \/ PostRejected4xx(c) \/ PostUnknown(c)
      PROVE  BatchIsLive'
  <2>1. CASE PostAccepted(c)
    BY <1>4, <2>1 DEF PostAccepted
  <2>2. CASE PostRejected4xx(c)
    BY <1>4, <2>2 DEF PostRejected4xx
  <2>3. CASE PostUnknown(c)
    BY <1>4, <2>3 DEF PostUnknown
  <2> QED  BY <1>9, <2>1, <2>2, <2>3
\* The statements that mark the batch let go of it, and nobody else has one.
<1>10. ASSUME NEW c \in Cycles, MarkPunchesSynced(c) \/ MarkPunchesFailed(c)
       PROVE  BatchIsLive'
  <2>1. \A d \in Cycles : d # c => batch[d] = {}
    BY <1>10, OthersIdle DEF MarkPunchesSynced, MarkPunchesFailed
  <2>2. batch' = [batch EXCEPT ![c] = {}]
    BY <1>10 DEF MarkPunchesSynced, MarkPunchesFailed, LeaveTenant
  <2> QED  BY <2>1, <2>2
<1>11. ASSUME NEW c \in Cycles, TenantThrows(c)
       PROVE  BatchIsLive'
  BY <1>7, <1>11 DEF TenantThrows
<1>12. CASE Crash
  BY <1>12 DEF Crash
<1>13. CASE \/ \E p \in Punches : Void(p)
            \/ \E t \in Tenants : SetIntegration(t) \/ ClearIntegration(t)
            \/ UNCHANGED vars
  BY <1>1, <1>13 DEF Void, SetIntegration, ClearIntegration, vars
<1> QED  BY <1>2, <1>3, <1>5, <1>6, <1>8, <1>9, <1>10, <1>11, <1>12, <1>13 DEF Next, Work

\* What an endpoint has taken, it keeps.
LEMMA InboxGrows == IInv /\ [Next]_vars => inbox \subseteq inbox' /\ Taken \subseteq Taken'
<1> SUFFICES ASSUME IInv, [Next]_vars PROVE inbox \subseteq inbox'
  BY DEF Taken
<1>1. CASE inbox' = inbox
  BY <1>1
<1>2. ASSUME NEW c \in Cycles, PostAccepted(c) \/ PostUnknown(c)
      PROVE  inbox \subseteq inbox'
  BY <1>2 DEF PostAccepted, PostUnknown, Take
<1>3. ASSUME NEW c \in Cycles,
             \/ StartCycle(c) \/ PickTenant(c) \/ EndCycle(c) \/ Fetch(c) \/ PostRejected4xx(c)
             \/ MarkPunchesSynced(c) \/ MarkPunchesFailed(c) \/ TenantThrows(c)
      PROVE  inbox' = inbox
  BY <1>3 DEF StartCycle, PickTenant, EndCycle, Fetch, PostRejected4xx,
              MarkPunchesSynced, MarkPunchesFailed, TenantThrows
<1>4. CASE \/ \E p \in Punches : Arrive(p) \/ Void(p)
           \/ \E t \in Tenants : RetryFailed(t) \/ SetIntegration(t) \/ ClearIntegration(t)
           \/ Crash \/ UNCHANGED vars
  BY <1>4 DEF Arrive, Void, RetryFailed, SetIntegration, ClearIntegration, Crash, vars
<1> QED  BY <1>1, <1>2, <1>3, <1>4 DEF Next, Work

LEMMA AcceptedPreserved == IInv /\ [Next]_vars => AcceptedIsTaken'
<1> SUFFICES ASSUME IInv, [Next]_vars PROVE AcceptedIsTaken'
  OBVIOUS
<1> USE DEF IInv, TypeOK, AcceptedIsTaken, workerVars
<1>0. Taken \subseteq Taken'
  BY InboxGrows
\* c enters 'accepted' only through PostAccepted; no other step puts a batch there.
<1>1. ASSUME NEW c \in Cycles,
             \A d \in Cycles : d # c => pc'[d] = pc[d] /\ batch'[d] = batch[d],
             pc'[c] # "accepted"
      PROVE  AcceptedIsTaken'
  BY <1>0, <1>1
<1>2. CASE UNCHANGED <<pc, batch>>
  BY <1>0, <1>2
<1>3. ASSUME NEW c \in Cycles, PostAccepted(c)
      PROVE  AcceptedIsTaken'
  <2>1. cur[c].endpoint \in Endpoints
    BY <1>3 DEF PostAccepted, HasTenant, AtWork, Targets
  <2>2. \A p \in batch[c] : p \in Taken'
    BY <1>3, <2>1 DEF PostAccepted, Take, Taken
  <2>3. \A d \in Cycles : d # c => pc'[d] # "accepted"
    BY <1>3, OthersIdle DEF PostAccepted
  <2> QED  BY <1>3, <2>2, <2>3 DEF PostAccepted
<1>4. ASSUME NEW c \in Cycles, LeaveTenant(c)
      PROVE  AcceptedIsTaken'
  BY <1>1, <1>4 DEF LeaveTenant
<1>5. ASSUME NEW c \in Cycles, StartCycle(c) \/ PickTenant(c) \/ EndCycle(c)
      PROVE  AcceptedIsTaken'
  <2>1. CASE StartCycle(c)
    BY <1>1, <2>1 DEF StartCycle
  <2>2. CASE PickTenant(c)
    BY <1>1, <2>2 DEF PickTenant
  <2>3. CASE EndCycle(c)
    BY <1>1, <2>3 DEF EndCycle
  <2> QED  BY <1>5, <2>1, <2>2, <2>3
<1>6. ASSUME NEW c \in Cycles, Fetch(c) \/ MarkPunchesSynced(c)
      PROVE  AcceptedIsTaken'
  <2>1. CASE Fetch(c)
    BY <1>1, <1>4, <2>1 DEF Fetch
  <2>2. CASE MarkPunchesSynced(c)
    BY <1>1, <1>4, <2>2 DEF MarkPunchesSynced
  <2> QED  BY <1>6, <2>1, <2>2
<1>7. ASSUME NEW c \in Cycles, PostRejected4xx(c) \/ PostUnknown(c)
      PROVE  AcceptedIsTaken'
  <2>1. CASE PostRejected4xx(c)
    BY <1>1, <2>1 DEF PostRejected4xx
  <2>2. CASE PostUnknown(c)
    BY <1>1, <2>2 DEF PostUnknown
  <2> QED  BY <1>7, <2>1, <2>2
<1>8. ASSUME NEW c \in Cycles, MarkPunchesFailed(c) \/ TenantThrows(c)
      PROVE  AcceptedIsTaken'
  BY <1>4, <1>8 DEF MarkPunchesFailed, TenantThrows
<1>9. CASE Crash
  BY <1>9 DEF Crash
<1>10. CASE \/ \E p \in Punches : Arrive(p) \/ Void(p)
            \/ \E t \in Tenants : RetryFailed(t) \/ SetIntegration(t) \/ ClearIntegration(t)
            \/ UNCHANGED vars
  BY <1>2, <1>10 DEF Arrive, Void, RetryFailed, SetIntegration, ClearIntegration, vars
<1> QED  BY <1>3, <1>5, <1>6, <1>7, <1>8, <1>9, <1>10 DEF Next, Work

\* A step that changes no status and no count of attempts.
Quiet == UNCHANGED <<sync, attempts>>
LEMMA StatusSteps ==
    ASSUME IInv, [Next]_vars
    PROVE  \/ Quiet
           \/ \E p \in Punches : Arrive(p)
           \/ \E t \in Tenants : RetryFailed(t)
           \/ \E c \in Cycles : MarkPunchesSynced(c) \/ MarkPunchesFailed(c)
<1>1. ASSUME NEW c \in Cycles,
             \/ StartCycle(c) \/ PickTenant(c) \/ EndCycle(c) \/ Fetch(c) \/ TenantThrows(c)
             \/ PostAccepted(c) \/ PostRejected4xx(c) \/ PostUnknown(c)
      PROVE  Quiet
  BY <1>1 DEF StartCycle, PickTenant, EndCycle, Fetch, TenantThrows, PostAccepted,
              PostRejected4xx, PostUnknown, punchVars, Quiet
<1>2. CASE \/ \E p \in Punches : Void(p)
           \/ \E t \in Tenants : SetIntegration(t) \/ ClearIntegration(t)
           \/ Crash \/ UNCHANGED vars
  BY <1>2 DEF Void, SetIntegration, ClearIntegration, Crash, vars, punchVars, Quiet
<1> QED  BY <1>1, <1>2 DEF Next, Work

LEMMA AttemptsPreserved == IInv /\ [Next]_vars => AttemptsLeft'
<1> SUFFICES ASSUME IInv, [Next]_vars PROVE AttemptsLeft'
  OBVIOUS
<1> USE SyncAssumption DEF IInv, TypeOK, AttemptsLeft
<1>1. CASE Quiet
  BY <1>1 DEF Quiet
<1>2. ASSUME NEW p \in Punches, Arrive(p)
      PROVE  AttemptsLeft'
  BY <1>2 DEF Arrive
<1>3. ASSUME NEW t \in Tenants, RetryFailed(t)
      PROVE  AttemptsLeft'
  BY <1>3 DEF RetryFailed
<1>4. ASSUME NEW c \in Cycles, MarkPunchesSynced(c)
      PROVE  AttemptsLeft'
  BY <1>4 DEF MarkPunchesSynced, BatchIsLive
<1>5. ASSUME NEW c \in Cycles, MarkPunchesFailed(c)
      PROVE  AttemptsLeft'
  <2>1. \A p \in batch[c] : StatusAfterFailure(p) = "failed" \/ attempts[p] + 1 < MaxFailed
    BY FailureCounts DEF BatchIsLive
  <2> QED  BY <1>5, <2>1 DEF MarkPunchesFailed
<1> QED  BY <1>1, <1>2, <1>3, <1>4, <1>5, StatusSteps

LEMMA SyncedPreserved == IInv /\ [Next]_vars => SyncedWasTaken'
<1> SUFFICES ASSUME IInv, [Next]_vars, NEW p \in Punches, sync'[p] = "synced"
             PROVE  p \in Taken'
  BY DEF SyncedWasTaken
<1>1. Taken \subseteq Taken'
  BY InboxGrows
<1>2. sync[p] = "synced" \/ \E c \in Cycles : pc[c] = "accepted" /\ p \in batch[c]
  <2>1. CASE Quiet
    BY <2>1 DEF Quiet
  <2>2. CASE \E q \in Punches : Arrive(q)
    BY <2>2 DEF Arrive, IInv, TypeOK
  <2>3. CASE \E t \in Tenants : RetryFailed(t)
    BY <2>3 DEF RetryFailed
  <2>4. CASE \E c \in Cycles : MarkPunchesSynced(c)
    BY <2>4 DEF MarkPunchesSynced
  <2>5. CASE \E c \in Cycles : MarkPunchesFailed(c)
    BY <2>5 DEF MarkPunchesFailed, StatusAfterFailure
  <2> QED  BY <2>1, <2>2, <2>3, <2>4, <2>5, StatusSteps
<1> QED  BY <1>1, <1>2 DEF IInv, SyncedWasTaken, AcceptedIsTaken

\* The only steps that put something in an inbox, and what they put there.
LEMMA InboxSteps ==
    ASSUME IInv, [Next]_vars
    PROVE  \/ inbox' = inbox
           \/ \E c \in Cycles : pc[c] = "posting" /\ Take(c) /\ sync' = sync
<1>1. ASSUME NEW c \in Cycles, PostAccepted(c) \/ PostUnknown(c)
      PROVE  inbox' = inbox \/ (pc[c] = "posting" /\ Take(c) /\ sync' = sync)
  BY <1>1 DEF PostAccepted, PostUnknown, punchVars
<1>2. ASSUME NEW c \in Cycles,
             \/ StartCycle(c) \/ PickTenant(c) \/ EndCycle(c) \/ Fetch(c) \/ PostRejected4xx(c)
             \/ MarkPunchesSynced(c) \/ MarkPunchesFailed(c) \/ TenantThrows(c)
      PROVE  inbox' = inbox
  BY <1>2 DEF StartCycle, PickTenant, EndCycle, Fetch, PostRejected4xx,
              MarkPunchesSynced, MarkPunchesFailed, TenantThrows
<1>3. CASE \/ \E p \in Punches : Arrive(p) \/ Void(p)
           \/ \E t \in Tenants : RetryFailed(t) \/ SetIntegration(t) \/ ClearIntegration(t)
           \/ Crash \/ UNCHANGED vars
  BY <1>3 DEF Arrive, Void, RetryFailed, SetIntegration, ClearIntegration, Crash, vars
<1> QED  BY <1>1, <1>2, <1>3 DEF Next, Work

\* A batch that is being posted goes to an endpoint of its punches' tenant.
LEMMA TakeStaysHome ==
    ASSUME IInv, NEW c \in Cycles, pc[c] = "posting"
    PROVE  /\ cur[c].endpoint \in Endpoints
           /\ \A p \in batch[c] : /\ p \in Punches /\ sync[p] = "pending"
                                  /\ cur[c].endpoint \in EndpointsOf[owner[p]]
BY DEF IInv, TypeOK, HasTenant, BatchIsLive, AtWork, Targets

LEMMA ApartPreserved == IInv /\ [Next]_vars => TenantsStayApart'
<1> SUFFICES ASSUME IInv, [Next]_vars PROVE TenantsStayApart'
  OBVIOUS
<1>1. CASE inbox' = inbox
  BY <1>1 DEF IInv, TenantsStayApart
<1>2. ASSUME NEW c \in Cycles, pc[c] = "posting", Take(c)
      PROVE  TenantsStayApart'
  BY <1>2, TakeStaysHome DEF IInv, TenantsStayApart, Take
<1> QED  BY <1>1, <1>2, InboxSteps

-----------------------------------------------------------------------------
(* Theorems                                                                *)

LEMMA IInvInit == Init => IInv
<1> SUFFICES ASSUME Init PROVE IInv
  OBVIOUS
<1> USE SyncAssumption DEF Init
<1>1. /\ sync \in [Punches -> {"absent", "pending", "synced", "failed"}]
      /\ attempts \in [Punches -> 0 .. MaxFailed]
      /\ voided \subseteq Punches
      /\ endpoint \in [Tenants -> Endpoints \cup {Null}]
      /\ token \subseteq Tenants
  OBVIOUS
<1>2. /\ inFlight \in BOOLEAN
      /\ pc \in [Cycles -> {"idle", "picking", "fetching", "posting", "accepted", "rejected"}]
      /\ todo \in [Cycles -> SUBSET Targets]
      /\ cur \in [Cycles -> Targets \cup {Nobody}]
  OBVIOUS
<1>3. /\ rounds \in [Cycles -> 0 .. MaxRounds]
      /\ tries \in [Cycles -> 0 .. MaxTries]
      /\ batch \in [Cycles -> SUBSET Punches]
      /\ inbox \subseteq Endpoints \X Punches
      /\ spent \in 0 .. Budget
  OBVIOUS
<1>4. TypeOK
  BY <1>1, <1>2, <1>3 DEF TypeOK
<1>5. Exclusive /\ EndpointsStayHome /\ HasTenant
  BY DEF Exclusive, EndpointsStayHome, HasTenant, AtWork
<1>6. BatchIsLive /\ AcceptedIsTaken
  BY DEF BatchIsLive, AcceptedIsTaken
<1>7. AttemptsLeft /\ SyncedWasTaken /\ TenantsStayApart
  BY DEF AttemptsLeft, SyncedWasTaken, TenantsStayApart
<1> QED  BY <1>4, <1>5, <1>6, <1>7 DEF IInv

\* The inductive invariant holds in every reachable state.
THEOREM IInvHolds == Spec => []IInv
<1>1. Init => IInv
  BY IInvInit
<1>2. IInv /\ [Next]_vars => IInv'
  BY TypePreserved, ExclusivePreserved, EndpointsPreserved, TenantPreserved,
     BatchPreserved, AcceptedPreserved, AttemptsPreserved, SyncedPreserved,
     ApartPreserved DEF IInv
<1> QED  BY <1>1, <1>2, PTL DEF Spec

\* Every variable of the worker and of the tables keeps its type; the
\* attempts of a punch never pass MAX_FAILED_ATTEMPTS.
THEOREM TypeCorrect == Spec => []TypeOK
<1>1. IInv => TypeOK
  BY DEF IInv
<1> QED  BY <1>1, IInvHolds, PTL

\* A punch the dashboard shows as synced was taken by some endpoint.
THEOREM SyncedMeansTaken == Spec => []SyncedWasTaken
<1>1. IInv => SyncedWasTaken
  BY DEF IInv
<1> QED  BY <1>1, IInvHolds, PTL

\* No punch reaches an endpoint of another tenant.
THEOREM NoCrossTenantLeak == Spec => []TenantsStayApart
<1>1. IInv => TenantsStayApart
  BY DEF IInv
<1> QED  BY <1>1, IInvHolds, PTL

\* A pending punch always has an attempt left, so the fetch can see it.
THEOREM NothingStranded == Spec => []NoStrandedPunch
<1>1. IInv => NoStrandedPunch
  BY DEF IInv, AttemptsLeft, NoStrandedPunch
<1> QED  BY <1>1, IInvHolds, PTL

\* No step takes a punch out of 'synced'.
THEOREM SyncedStays == Spec => SyncedIsFinal
<1>1. ASSUME IInv, [Next]_vars, NEW p \in Punches, sync[p] = "synced"
      PROVE  sync'[p] = "synced"
  <2>1. CASE Quiet
    BY <1>1, <2>1 DEF Quiet
  <2>2. CASE \E q \in Punches : Arrive(q)
    BY <1>1, <2>2 DEF Arrive, IInv, TypeOK
  <2>3. CASE \E t \in Tenants : RetryFailed(t)
    BY <1>1, <2>3 DEF RetryFailed
  <2>4. CASE \E c \in Cycles : MarkPunchesSynced(c) \/ MarkPunchesFailed(c)
    BY <1>1, <2>4 DEF MarkPunchesSynced, MarkPunchesFailed, IInv, BatchIsLive
  <2> QED  BY <1>1, <2>1, <2>2, <2>3, <2>4, StatusSteps
<1>2. IInv /\ [Next]_vars => [\A p \in Punches : sync[p] = "synced" => sync'[p] = "synced"]_vars
  BY <1>1
<1> QED  BY <1>2, IInvHolds, PTL DEF Spec, SyncedIsFinal

\* The worker implements the at-least-once promise.
THEOREM WorkerKeepsPromise == Spec => PromiseSpec
<1> USE DEF Promise!Init, Promise!Next
<1>1. Init => Promise!Init
  BY DEF Init
<1>2. ASSUME IInv, [Next]_vars
      PROVE  [Promise!Next]_<<sync, inbox>>
  <2>1. CASE \E p \in Punches : Arrive(p)
    BY <2>1 DEF Arrive, Promise!Accept
  <2>2. ASSUME NEW t \in Tenants, RetryFailed(t)
        PROVE  \E S \in SUBSET Punches : Promise!Requeue(S)
    <3> DEFINE gone == {p \in Punches : owner[p] = t /\ sync[p] = "failed"}
    <3>1. Promise!Requeue(gone)
      BY <2>2 DEF RetryFailed, Promise!Requeue
    <3> QED  BY <3>1
  <2>3. ASSUME NEW c \in Cycles, pc[c] = "posting", Take(c), sync' = sync
        PROVE  \E e \in Endpoints, S \in SUBSET Punches : Promise!Transmit(e, S)
    <3>1. cur[c].endpoint \in Endpoints /\ batch[c] \in SUBSET Punches
      BY <1>2, <2>3, TakeStaysHome
    <3>2. Promise!Transmit(cur[c].endpoint, batch[c])
      BY <1>2, <2>3, TakeStaysHome DEF Promise!Transmit, MayReach, Take
    <3> QED  BY <3>1, <3>2
  <2>4. ASSUME NEW c \in Cycles, MarkPunchesSynced(c)
        PROVE  \E S \in SUBSET Punches : Promise!Confirm(S)
    <3>1. batch[c] \in SUBSET Punches
      BY <1>2 DEF IInv, TypeOK
    <3>2. Promise!Confirm(batch[c])
      BY <1>2, <2>4 DEF IInv, MarkPunchesSynced, BatchIsLive, AcceptedIsTaken, Taken,
                         Promise!Confirm
    <3> QED  BY <3>1, <3>2
  <2>5. ASSUME NEW c \in Cycles, MarkPunchesFailed(c)
        PROVE  \E S \in SUBSET Punches : Promise!GiveUp(S)
    <3> DEFINE spentOut == {p \in batch[c] : attempts[p] + 1 >= MaxFailed}
    <3>1. spentOut \in SUBSET Punches
      BY <1>2 DEF IInv, TypeOK
    <3>2. Promise!GiveUp(spentOut)
      BY <1>2, <2>5 DEF IInv, TypeOK, MarkPunchesFailed, BatchIsLive, StatusAfterFailure,
                         Promise!GiveUp
    <3> QED  BY <3>1, <3>2
  <2>6. CASE sync' = sync /\ inbox' = inbox
    BY <2>6
  <2>7. inbox' = inbox \/ \E c \in Cycles : pc[c] = "posting" /\ Take(c) /\ sync' = sync
    BY <1>2, InboxSteps
  <2>8. \/ sync' = sync
        \/ \E p \in Punches : Arrive(p)
        \/ \E t \in Tenants : RetryFailed(t)
        \/ \E c \in Cycles : MarkPunchesSynced(c) \/ MarkPunchesFailed(c)
    BY <1>2, StatusSteps DEF Quiet
  <2> QED  BY <2>1, <2>2, <2>3, <2>4, <2>5, <2>6, <2>7, <2>8
<1> QED  BY <1>1, <1>2, IInvHolds, PTL DEF Spec, PromiseSpec, Promise!Spec

\* The rows the sync knows of.
LogRows == {p \in Punches : sync[p] # "absent"}

\* The sync is one more AttendanceLog beside the ingest and the desk: what it writes into
\* a row neither makes a row, nor loses one, nor brings a voided one back, even when a
\* punch is voided while a batch with it is on its way (sync.service.ts:82-136,
\* integrations.ts, attendance.ts:259-301).
THEOREM SyncKeepsLog == Spec => SyncLogSpec
<1>1. Init => SyncLog!Init
  BY DEF Init, SyncLog!Init
<1>2. ASSUME IInv, [Next]_vars
      PROVE  [SyncLog!Next]_<<LogRows, voided>>
  <2> USE DEF IInv, TypeOK, LogRows
  <2>1. ASSUME NEW p \in Punches, Arrive(p)
        PROVE  SyncLog!Insert(p)
    BY <1>2, <2>1 DEF Arrive, SyncLog!Insert
  <2>2. ASSUME NEW p \in Punches, Void(p)
        PROVE  SyncLog!Void(p)
    BY <2>2 DEF Void, SyncLog!Void
  <2>3. CASE voided' = voided /\ LogRows' = LogRows
    BY <2>3
  <2>4. ASSUME ~\E p \in Punches : Void(p)
        PROVE  voided' = voided
    BY <1>2, <2>4
       DEF Next, Work, Arrive, RetryFailed, SetIntegration, ClearIntegration, StartCycle,
           PickTenant, EndCycle, Fetch, PostAccepted, PostRejected4xx, PostUnknown,
           MarkPunchesSynced, MarkPunchesFailed, TenantThrows, Crash, vars, punchVars
  <2>5. CASE \E t \in Tenants : RetryFailed(t)
    BY <1>2, <2>3, <2>5 DEF RetryFailed
  <2>6. ASSUME NEW c \in Cycles, MarkPunchesSynced(c) \/ MarkPunchesFailed(c)
        PROVE  LogRows' = LogRows /\ voided' = voided
    BY <1>2, <2>6 DEF MarkPunchesSynced, MarkPunchesFailed, BatchIsLive, StatusAfterFailure
  <2>7. ASSUME Quiet
        PROVE  LogRows' = LogRows
    BY <2>7 DEF Quiet
  <2>8. \/ Quiet
        \/ \E p \in Punches : Arrive(p)
        \/ \E t \in Tenants : RetryFailed(t)
        \/ \E c \in Cycles : MarkPunchesSynced(c) \/ MarkPunchesFailed(c)
    BY <1>2, StatusSteps
  <2> QED  BY <2>1, <2>2, <2>3, <2>4, <2>5, <2>6, <2>7, <2>8 DEF SyncLog!Next
<1>3. IInv /\ [Next]_vars => [SyncLog!Next]_<<LogRows, voided>>
  BY <1>2
<1>4. SyncLogSpec <=> SyncLog!Init /\ [][SyncLog!Next]_<<LogRows, voided>>
  BY DEF SyncLogSpec, SyncLog!Spec, LogRows
<1> QED  BY <1>1, <1>3, <1>4, IInvHolds, PTL DEF Spec
=============================================================================
