---------------------------- MODULE SyncDelivery ----------------------------
(***************************************************************************)
(* The outbound sync: the worker cycle of apps/adms/src/jobs/sync-worker,  *)
(* its batches (services/sync.service) and HTTP attempts (sync-dispatcher),*)
(* with the web's void, retryFailed and setIntegration running beside it.  *)
(*                                                                         *)
(* A punch is a natural number: its rank by punch_time.  Punches arrive in *)
(* any order, because a device that was offline uploads old ones late.     *)
(* Payloads, backoff delays and the tenant's last-success / last-error     *)
(* columns, which nothing reads back, are left out.                        *)
(***************************************************************************)
EXTENDS Integers, FiniteSets

CONSTANTS Tenants,
          Punches,      \* a finite set of naturals, ordered by punch_time
          owner,        \* the tenant in whose schema each punch lives
          EndpointsOf,  \* the endpoints an administrator enters for a tenant
          Null,         \* no endpoint
          Cycles,       \* timer callbacks that may run runCycle
          BatchSize,    \* LIMIT of fetchPendingPunches (50)
          MaxFailed,    \* MAX_FAILED_ATTEMPTS (5)
          MaxTries,     \* maxAttempts of the retry policy (3)
          MaxRounds,    \* batches per tenant and cycle (20)
          Budget        \* bound on crashes, thrown statements and retryFailed

Endpoints == UNION {EndpointsOf[t] : t \in Tenants}

ASSUME SyncAssumption ==
    /\ Punches \subseteq Nat /\ IsFiniteSet(Punches)
    /\ owner \in [Punches -> Tenants]
    /\ \A t \in Tenants : Null \notin EndpointsOf[t]
    /\ BatchSize \in Nat \ {0} /\ MaxFailed \in Nat \ {0}
    /\ MaxTries \in Nat \ {0} /\ MaxRounds \in Nat \ {0}
    /\ Budget \in Nat

VARIABLES sync, attempts, \* sync_status and sync_attempts of each punch
          voided,         \* punches with voided_at set
          endpoint,       \* integration_endpoint of each tenant, or Null
          token,          \* tenants with an encrypted token
          inFlight,       \* the worker's cycleInFlight flag
          pc,             \* where each callback is in runCycle
          todo, cur,      \* its snapshot of tenants left, and the one at hand
          rounds, tries,  \* batches drained for cur, POSTs of this batch
          batch,          \* the ids of the batch at hand
          inbox,          \* <<endpoint, punch>> pairs a receiver has taken
          spent           \* how much of Budget is used

punchVars == <<sync, attempts, voided>>
configVars == <<endpoint, token>>
workerVars == <<inFlight, pc, todo, cur, rounds, tries, batch>>
vars == <<punchVars, configVars, workerVars, inbox, spent>>

\* What listTenantsWithIntegration returns of a tenant.
Targets == [tenant : Tenants, endpoint : Endpoints]
Nobody == [tenant |-> Null, endpoint |-> Null]

TypeOK ==
    /\ sync \in [Punches -> {"absent", "pending", "synced", "failed"}]
    /\ attempts \in [Punches -> 0 .. MaxFailed]
    /\ voided \subseteq Punches
    /\ endpoint \in [Tenants -> Endpoints \cup {Null}]
    /\ token \subseteq Tenants
    /\ inFlight \in BOOLEAN
    /\ pc \in [Cycles -> {"idle", "picking", "fetching", "posting", "accepted", "rejected"}]
    /\ todo \in [Cycles -> SUBSET Targets]
    /\ cur \in [Cycles -> Targets \cup {Nobody}]
    /\ rounds \in [Cycles -> 0 .. MaxRounds]
    /\ tries \in [Cycles -> 0 .. MaxTries]
    /\ batch \in [Cycles -> SUBSET Punches]
    /\ inbox \subseteq Endpoints \X Punches
    /\ spent \in 0 .. Budget

Init ==
    /\ sync = [p \in Punches |-> "absent"]
    /\ attempts = [p \in Punches |-> 0]
    /\ voided = {}
    /\ endpoint = [t \in Tenants |-> Null]
    /\ token = {}
    /\ inFlight = FALSE
    /\ pc = [c \in Cycles |-> "idle"]
    /\ todo = [c \in Cycles |-> {}]
    /\ cur = [c \in Cycles |-> Nobody]
    /\ rounds = [c \in Cycles |-> 0]
    /\ tries = [c \in Cycles |-> 0]
    /\ batch = [c \in Cycles |-> {}]
    /\ inbox = {}
    /\ spent = 0

-----------------------------------------------------------------------------
(* The database as others change it                                        *)

\* A row is inserted by ATTLOG ingestion or by attendance.insertManual.
Arrive(p) ==
    /\ sync[p] = "absent"
    /\ sync' = [sync EXCEPT ![p] = "pending"]
    /\ UNCHANGED <<attempts, voided, configVars, workerVars, inbox, spent>>

\* attendance.void: sync_status is not touched.
Void(p) ==
    /\ sync[p] # "absent" /\ p \notin voided
    /\ voided' = voided \cup {p}
    /\ UNCHANGED <<sync, attempts, configVars, workerVars, inbox, spent>>

\* retryFailed for one tenant.
RetryFailed(t) ==
    LET gone == {p \in Punches : owner[p] = t /\ sync[p] = "failed"} IN
    /\ gone # {} /\ spent < Budget
    /\ sync' = [p \in Punches |-> IF p \in gone THEN "pending" ELSE sync[p]]
    /\ attempts' = [p \in Punches |-> IF p \in gone THEN 0 ELSE attempts[p]]
    /\ spent' = spent + 1
    /\ UNCHANGED <<voided, configVars, workerVars, inbox>>

\* setIntegration with a kind; the endpoint may be null, and a null token
\* keeps the stored one.
SetIntegration(t) ==
    /\ \E e \in EndpointsOf[t] \cup {Null} : endpoint' = [endpoint EXCEPT ![t] = e]
    /\ \E T \in {token, token \cup {t}} : token' = T
    /\ UNCHANGED <<punchVars, workerVars, inbox, spent>>

\* setIntegration with kind 'none' wipes endpoint and token.
ClearIntegration(t) ==
    /\ endpoint[t] # Null
    /\ endpoint' = [endpoint EXCEPT ![t] = Null]
    /\ token' = token \ {t}
    /\ UNCHANGED <<punchVars, workerVars, inbox, spent>>

-----------------------------------------------------------------------------
(* runCycle                                                                *)

\* The WHERE clause of listTenantsWithIntegration.
Listed(t) == endpoint[t] # Null /\ t \in token

\* The timer fires: `if (cycleInFlight) return`, then one SELECT of tenants
\* whose endpoint is used for the rest of the cycle.
MayStart == ~inFlight
StartCycle(c) ==
    /\ pc[c] = "idle" /\ MayStart
    /\ \E t \in Tenants : Listed(t)
    /\ inFlight' = TRUE
    /\ todo' = [todo EXCEPT ![c] =
                  {[tenant |-> t, endpoint |-> endpoint[t]] : t \in {u \in Tenants : Listed(u)}}]
    /\ pc' = [pc EXCEPT ![c] = "picking"]
    /\ UNCHANGED <<punchVars, configVars, cur, rounds, tries, batch, inbox, spent>>

PickTenant(c) ==
    /\ pc[c] = "picking"
    /\ \E t \in todo[c] :
           /\ cur' = [cur EXCEPT ![c] = t]
           /\ todo' = [todo EXCEPT ![c] = @ \ {t}]
    /\ pc' = [pc EXCEPT ![c] = "fetching"]
    /\ UNCHANGED <<punchVars, configVars, inFlight, rounds, tries, batch, inbox, spent>>

EndCycle(c) ==
    /\ pc[c] = "picking" /\ todo[c] = {}
    /\ inFlight' = FALSE
    /\ pc' = [pc EXCEPT ![c] = "idle"]
    /\ UNCHANGED <<punchVars, configVars, todo, cur, rounds, tries, batch, inbox, spent>>

\* The locals of runOneBatch and of the drain loop are gone.
LeaveTenant(c) ==
    /\ pc' = [pc EXCEPT ![c] = "picking"]
    /\ cur' = [cur EXCEPT ![c] = Nobody]
    /\ rounds' = [rounds EXCEPT ![c] = 0]
    /\ tries' = [tries EXCEPT ![c] = 0]
    /\ batch' = [batch EXCEPT ![c] = {}]

\* Rows fetchPendingPunches may return for tenant t, and a wrong filter.
SendableOrFailed(t) ==
    {p \in Punches : owner[p] = t /\ sync[p] \in {"pending", "failed"} /\ p \notin voided}
Sendable(t) ==
    {p \in Punches :
        owner[p] = t /\ sync[p] = "pending" /\ p \notin voided /\ attempts[p] < MaxFailed}

\* ORDER BY punch_time LIMIT BatchSize.
Oldest(S) == {p \in S : Cardinality({q \in S : q < p}) < BatchSize}

Fetch(c) ==
    LET found == Oldest(Sendable(cur[c].tenant)) IN
    /\ pc[c] = "fetching"
    /\ \/ found = {} /\ LeaveTenant(c)
       \/ /\ found # {}
          /\ batch' = [batch EXCEPT ![c] = found]
          /\ tries' = [tries EXCEPT ![c] = 1]
          /\ pc' = [pc EXCEPT ![c] = "posting"]
          /\ UNCHANGED <<cur, rounds>>
    /\ UNCHANGED <<punchVars, configVars, inFlight, todo, inbox, spent>>

\* The endpoint takes the batch at hand.
Take(c) == inbox' = inbox \cup ({cur[c].endpoint} \X batch[c])

\* One fetch() of postSyncBatch.  A 2xx means the endpoint took the batch;
\* a 5xx, a timeout or a lost answer means it may have.
PostAccepted(c) ==
    /\ pc[c] = "posting"
    /\ Take(c)
    /\ pc' = [pc EXCEPT ![c] = "accepted"]
    /\ UNCHANGED <<punchVars, configVars, inFlight, todo, cur, rounds, tries, batch, spent>>

PostRejected4xx(c) ==
    /\ pc[c] = "posting"
    /\ pc' = [pc EXCEPT ![c] = "rejected"]
    /\ UNCHANGED <<punchVars, configVars, inFlight, todo, cur, rounds, tries, batch, inbox, spent>>

PostUnknown(c) ==
    /\ pc[c] = "posting"
    /\ Take(c) \/ UNCHANGED inbox
    /\ IF tries[c] < MaxTries
         THEN tries' = [tries EXCEPT ![c] = @ + 1] /\ UNCHANGED pc
         ELSE pc' = [pc EXCEPT ![c] = "rejected"] /\ UNCHANGED tries
    /\ UNCHANGED <<punchVars, configVars, inFlight, todo, cur, rounds, batch, spent>>

\* ... then the next turn of `while (safety++ < 20)`.
MarkPunchesSynced(c) ==
    /\ pc[c] = "accepted"
    /\ sync' = [p \in Punches |-> IF p \in batch[c] THEN "synced" ELSE sync[p]]
    /\ \/ rounds[c] + 1 = MaxRounds /\ LeaveTenant(c)
       \/ /\ rounds[c] + 1 < MaxRounds
          /\ rounds' = [rounds EXCEPT ![c] = @ + 1]
          /\ tries' = [tries EXCEPT ![c] = 0]
          /\ batch' = [batch EXCEPT ![c] = {}]
          /\ pc' = [pc EXCEPT ![c] = "fetching"]
          /\ UNCHANGED cur
    /\ UNCHANGED <<attempts, voided, configVars, inFlight, todo, inbox, spent>>

\* The status markPunchesFailed leaves on a row with a failed attempts.
StatusNeverFails(p) == sync[p]
StatusAfterFailure(p) == IF attempts[p] + 1 >= MaxFailed THEN "failed" ELSE sync[p]

MarkPunchesFailed(c) ==
    /\ pc[c] = "rejected"
    /\ attempts' = [p \in Punches |-> IF p \in batch[c] THEN attempts[p] + 1 ELSE attempts[p]]
    /\ sync' = [p \in Punches |-> IF p \in batch[c] THEN StatusAfterFailure(p) ELSE sync[p]]
    /\ LeaveTenant(c)
    /\ UNCHANGED <<voided, configVars, inFlight, todo, inbox, spent>>

\* A statement, decrypt or transformBatch throws: the catch around the
\* tenant moves on, and nothing is marked.
TenantThrows(c) ==
    /\ pc[c] \notin {"idle", "picking"} /\ spent < Budget
    /\ LeaveTenant(c)
    /\ spent' = spent + 1
    /\ UNCHANGED <<punchVars, configVars, inFlight, todo, inbox>>

\* The ADMS process dies and boots again.
Crash ==
    /\ inFlight /\ spent < Budget
    /\ inFlight' = FALSE
    /\ pc' = [c \in Cycles |-> "idle"]
    /\ todo' = [c \in Cycles |-> {}]
    /\ cur' = [c \in Cycles |-> Nobody]
    /\ rounds' = [c \in Cycles |-> 0]
    /\ tries' = [c \in Cycles |-> 0]
    /\ batch' = [c \in Cycles |-> {}]
    /\ spent' = spent + 1
    /\ UNCHANGED <<punchVars, configVars, inbox>>

-----------------------------------------------------------------------------
\* What the process does by itself once a callback runs.
Work(c) ==
    \/ StartCycle(c) \/ PickTenant(c) \/ EndCycle(c) \/ Fetch(c)
    \/ PostAccepted(c) \/ PostRejected4xx(c) \/ PostUnknown(c)
    \/ MarkPunchesSynced(c) \/ MarkPunchesFailed(c)

Next ==
    \/ \E p \in Punches : Arrive(p) \/ Void(p)
    \/ \E t \in Tenants : RetryFailed(t) \/ SetIntegration(t) \/ ClearIntegration(t)
    \/ \E c \in Cycles : Work(c) \/ TenantThrows(c)
    \/ Crash

Spec == Init /\ [][Next]_vars

\* The timer keeps firing and a running cycle keeps running: every await in
\* it is bounded by a timeout.
FairSpec == Spec /\ WF_vars(\E c \in Cycles : Work(c))

-----------------------------------------------------------------------------
(* Properties                                                              *)

\* The punches some endpoint has taken.
Taken == {p \in Punches : \E e \in Endpoints : <<e, p>> \in inbox}

\* A punch reported as synced really reached the outside, whatever crashed,
\* timed out or was retried in between.
SyncedWasTaken ==
    \A p \in Punches : sync[p] = "synced" => p \in Taken

\* No endpoint ever takes a punch of another tenant, even when integrations
\* change in the middle of a cycle (sync.service.ts promises "cross-tenant
\* data can never leak between batches").
TenantsStayApart ==
    \A m \in inbox : m[1] \in EndpointsOf[owner[m[2]]]

\* The filter sync_attempts < MAX_FAILED_ATTEMPTS never hides a pending
\* punch: one that used up its attempts is 'failed', where retryFailed
\* finds it.
NoStrandedPunch ==
    \A p \in Punches : sync[p] = "pending" => attempts[p] < MaxFailed

\* Synced is final: no late batch and no retry sends a synced punch back.
\* It rests on cycleInFlight, since neither UPDATE looks at sync_status.
SyncedIsFinal ==
    [][\A p \in Punches : sync[p] = "synced" => sync'[p] = "synced"]_vars

\* The worker keeps the promises of AtLeastOnce.
MayReach(e, p) == e \in EndpointsOf[owner[p]]
Promise == INSTANCE AtLeastOnce WITH state <- sync, reached <- inbox
PromiseSpec == Promise!Spec

\* To the sync as well the table is an AttendanceLog: no status it writes, no batch that
\* comes late and no retryFailed makes a row or brings a voided one back.
SyncLog == INSTANCE AttendanceLog
             WITH Keys <- Punches, stored <- {p \in Punches : sync[p] # "absent"}
SyncLogSpec == SyncLog!Spec

\* Every pending punch of a tenant with an integration is settled, however
\* often the endpoint misbehaves, unless it is voided or the integration
\* goes away.
PendingSettles ==
    \A p \in Punches :
        (sync[p] = "pending" /\ p \notin voided /\ Listed(owner[p]))
            ~> (sync[p] # "pending" \/ p \in voided \/ ~Listed(owner[p]))
=============================================================================
