---------------------------- MODULE TenantRouter ----------------------------
(***************************************************************************)
(* Which tenant a serial number belongs to: resolveTenantBySn of           *)
(* apps/adms/src/tenant/router.ts with its in-memory cache, the enrollment *)
(* tokens the dashboard issues, and the tenants' own life: created in      *)
(* several statements, suspended, deleted in two.  One statement is one    *)
(* action; requests of the same or of different devices interleave.        *)
(*                                                                         *)
(* A tenant stands for a slug: the row that has it and the schema named    *)
(* after it.  Once the row is deleted the slug is free again, and the next *)
(* tenant of that slug has a new id, so tokens of its own, and a schema of *)
(* the old name, so cached bindings and running requests of the old tenant *)
(* act on it.  Time is a Tick that ages what has an age; ages stop at TTL, *)
(* past which nobody tells them apart.                                     *)
(***************************************************************************)
EXTENDS Integers, FiniteSets

CONSTANTS Tenants, Sns, Tokens,
          tenantOf,  \* the tenant each token is issued for
          Requests,  \* resolutions that may be open at once
          None,      \* no tenant, token or serial number
          TTL,       \* CACHE_TTL_MS, in ticks
          Budget     \* bound on crashes and failing statements

ASSUME RouterAssumption ==
    /\ tenantOf \in [Tokens -> Tenants]
    /\ None \notin Tenants \cup Tokens \cup Sns
    /\ TTL \in Nat \ {0}
    /\ Budget \in Nat

VARIABLES status,    \* the tenant's row; any status but active is "suspended"
          schema,    \* tenants whose schema exists
          building,  \* tenants whose create handler is still running
          deleting,  \* tenants whose delete handler has dropped the schema
          devices,   \* serial numbers in each tenant's devices table
          token,     \* state of each enrollment token
          taker,     \* consumed_by_sn of each token
          pairs,     \* <<token, sn>> for which a claim inserted a device
          cache, age, \* the cached tenant of each sn, ticks since refreshedAt
          deadFor,   \* ticks since each schema was last dropped, TTL if never
          orphans,   \* sns cached with the id of a device row that was dropped
          orphaned,  \* requests that hold such an id
          pc, sn, list, tok, born, \* a request's place, locals and age
          spent      \* how much of Budget is used

tenantVars == <<status, schema, building, deleting, devices, deadFor>>
tokenVars == <<token, taker, pairs>>
cacheVars == <<cache, age, orphans>>
requestVars == <<pc, sn, list, tok, born, orphaned>>
vars == <<tenantVars, tokenVars, cacheVars, requestVars, spent>>

TypeOK ==
    /\ status \in [Tenants -> {"absent", "active", "suspended"}]
    /\ schema \subseteq Tenants /\ building \subseteq Tenants /\ deleting \subseteq Tenants
    /\ devices \in [Tenants -> SUBSET Sns]
    /\ token \in [Tokens -> {"unissued", "valid", "expired", "consumed", "gone"}]
    /\ taker \in [Tokens -> Sns \cup {None}]
    /\ pairs \subseteq Tokens \X Sns
    /\ cache \in [Sns -> Tenants \cup {None}]
    /\ age \in [Sns -> 0 .. TTL]
    /\ deadFor \in [Tenants -> 0 .. TTL]
    /\ orphans \subseteq Sns /\ orphaned \subseteq Requests
    /\ pc \in [Requests -> {"idle", "sweeping", "claiming", "found", "paired"}]
    /\ sn \in [Requests -> Sns \cup {None}]
    /\ list \in [Requests -> SUBSET Tenants]
    /\ tok \in [Requests -> Tokens \cup {None}]
    /\ born \in [Requests -> 0 .. TTL]
    /\ \A r \in Requests : pc[r] \in {"claiming", "found", "paired"} => tok[r] \in Tokens
    /\ spent \in 0 .. Budget

Init ==
    /\ status = [t \in Tenants |-> "absent"]
    /\ schema = {} /\ building = {} /\ deleting = {}
    /\ devices = [t \in Tenants |-> {}]
    /\ token = [k \in Tokens |-> "unissued"]
    /\ taker = [k \in Tokens |-> None]
    /\ pairs = {}
    /\ cache = [s \in Sns |-> None]
    /\ age = [s \in Sns |-> 0]
    /\ deadFor = [t \in Tenants |-> TTL]
    /\ orphans = {} /\ orphaned = {}
    /\ pc = [r \in Requests |-> "idle"]
    /\ sn = [r \in Requests |-> None]
    /\ list = [r \in Requests |-> {}]
    /\ tok = [r \in Requests |-> None]
    /\ born = [r \in Requests |-> 0]
    /\ spent = 0

-----------------------------------------------------------------------------
(* tenants.create, update and delete                                       *)

Exists(t) == status[t] \in {"active", "suspended"}

\* The row is inserted, already active; its schema comes later.  A create of
\* the same slug that still runs ends first.
CreateRow(t) ==
    /\ status[t] = "absent" /\ t \notin building
    /\ status' = [status EXCEPT ![t] = "active"]
    /\ building' = building \cup {t}
    /\ UNCHANGED <<schema, deleting, devices, deadFor, tokenVars, cacheVars, requestVars, spent>>

Provision(t) ==
    /\ t \in building
    /\ schema' = schema \cup {t}
    /\ building' = building \ {t}
    /\ UNCHANGED <<status, deleting, devices, deadFor, tokenVars, cacheVars, requestVars, spent>>

\* A tenant's row goes, and its tokens by ON DELETE CASCADE; another DELETE
\* of that id finds nothing.
DeleteRow(t) ==
    /\ status' = [status EXCEPT ![t] = "absent"]
    /\ deleting' = deleting \ {t}
    /\ token' = [k \in Tokens |-> IF tenantOf[k] = t /\ token[k] # "unissued"
                                  THEN "gone" ELSE token[k]]

ProvisionFails(t) ==
    /\ t \in building /\ spent < Budget
    /\ DeleteRow(t)
    /\ building' = building \ {t}
    /\ spent' = spent + 1
    /\ UNCHANGED <<schema, devices, deadFor, taker, pairs, cacheVars, requestVars>>

\* The dashboard process dies: the row stays, active and without a schema.
CreateDies(t) ==
    /\ t \in building /\ spent < Budget
    /\ building' = building \ {t}
    /\ spent' = spent + 1
    /\ UNCHANGED <<status, schema, deleting, devices, deadFor, tokenVars, cacheVars, requestVars>>

\* tenants.update with a status.
SetStatus(t) ==
    /\ Exists(t)
    /\ \E s \in {"active", "suspended"} : status' = [status EXCEPT ![t] = s]
    /\ UNCHANGED <<schema, building, deleting, devices, deadFor, tokenVars, cacheVars,
                   requestVars, spent>>

\* tenants.delete drops the schema if there is one and, in a statement of
\* its own that may never come, the row.
DropSchema(t) ==
    /\ Exists(t)
    /\ schema' = schema \ {t}
    /\ deleting' = deleting \cup {t}
    /\ devices' = [devices EXCEPT ![t] = {}]
    /\ IF t \in schema
       THEN /\ deadFor' = [deadFor EXCEPT ![t] = 0]
            /\ orphans' = orphans \cup {s \in Sns : cache[s] = t}
            /\ orphaned' = orphaned \cup
                   {r \in Requests : pc[r] = "paired" /\ tenantOf[tok[r]] = t}
       ELSE UNCHANGED <<deadFor, orphans, orphaned>>
    /\ UNCHANGED <<status, building, tokenVars, cache, age, pc, sn, list, tok, born, spent>>

FinishDelete(t) ==
    /\ t \in deleting
    /\ DeleteRow(t)
    /\ UNCHANGED <<schema, building, devices, deadFor, taker, pairs, cacheVars, requestVars, spent>>

-----------------------------------------------------------------------------
(* Enrollment tokens and time                                              *)

\* tenantProcedure does not look at the tenant's status.
IssueToken(k) ==
    /\ token[k] = "unissued" /\ Exists(tenantOf[k])
    /\ token' = [token EXCEPT ![k] = "valid"]
    /\ UNCHANGED <<tenantVars, taker, pairs, cacheVars, requestVars, spent>>

ExpireToken(k) ==
    /\ token[k] = "valid"
    /\ token' = [token EXCEPT ![k] = "expired"]
    /\ UNCHANGED <<tenantVars, taker, pairs, cacheVars, requestVars, spent>>

Older(a) == IF a < TTL THEN a + 1 ELSE TTL

Tick ==
    /\ age' = [s \in Sns |-> IF cache[s] = None THEN age[s] ELSE Older(age[s])]
    /\ deadFor' = [t \in Tenants |-> Older(deadFor[t])]
    /\ born' = [r \in Requests |-> IF pc[r] = "idle" THEN born[r] ELSE Older(born[r])]
    /\ UNCHANGED <<status, schema, building, deleting, devices, tokenVars, cache, orphans, pc, sn,
                   list, tok, orphaned, spent>>

-----------------------------------------------------------------------------
(* resolveTenantBySn                                                       *)

\* A request that finds a fresh entry is answered from it, with no effect.
Fresh(s) == cache[s] # None /\ age[s] < TTL

\* `now` is taken, then one SELECT of the active tenants.
StartSweep(r, s) ==
    /\ pc[r] = "idle" /\ ~Fresh(s)
    /\ pc' = [pc EXCEPT ![r] = "sweeping"]
    /\ sn' = [sn EXCEPT ![r] = s]
    /\ list' = [list EXCEPT ![r] = {t \in Tenants : status[t] = "active"}]
    /\ born' = [born EXCEPT ![r] = 0]
    /\ UNCHANGED <<tenantVars, tokenVars, cacheVars, tok, orphaned, spent>>

\* The handler of r is done and its locals are gone.
Done(r) ==
    /\ pc' = [pc EXCEPT ![r] = "idle"]
    /\ sn' = [sn EXCEPT ![r] = None]
    /\ list' = [list EXCEPT ![r] = {}]
    /\ tok' = [tok EXCEPT ![r] = None]
    /\ born' = [born EXCEPT ![r] = 0]
    /\ orphaned' = orphaned \ {r}

\* The age a binding enters the cache with: refreshedAt is the `now` of the
\* start, and a wrong one the time of the set.
AgeAtEnd(r) == 0
AgeAtSet(r) == born[r]

CacheSet(r, t) ==
    /\ cache' = [cache EXCEPT ![sn[r]] = t]
    /\ age' = [age EXCEPT ![sn[r]] = AgeAtSet(r)]
    /\ orphans' = IF r \in orphaned THEN orphans \cup {sn[r]} ELSE orphans \ {sn[r]}

\* SELECT id FROM devices WHERE serial_number = sn, and a careless match.
FoundAnywhere(r, t) == \E u \in Tenants : sn[r] \in devices[u]
FoundIn(r, t) == sn[r] \in devices[t]

SweepOne(r) ==
    /\ pc[r] = "sweeping"
    /\ \E t \in list[r] :
           /\ t \in schema
           /\ \/ FoundIn(r, t) /\ CacheSet(r, t) /\ Done(r)
              \/ /\ ~FoundIn(r, t)
                 /\ list' = [list EXCEPT ![r] = @ \ {t}]
                 /\ UNCHANGED <<cacheVars, pc, sn, tok, born, orphaned>>
    /\ UNCHANGED <<tenantVars, tokenVars, spent>>

\* The table of a listed tenant is missing: the query throws, whoever's
\* device is asking.
SweepThrows(r) ==
    /\ pc[r] = "sweeping" /\ ~(list[r] \subseteq schema)
    /\ Done(r)
    /\ UNCHANGED <<tenantVars, tokenVars, cacheVars, spent>>

\* Unconsumed, unexpired tokens of all tenants; 0 or > 1 of them is refused.
ValidTokens == {k \in Tokens : token[k] = "valid"}
AlwaysRefused == TRUE
Refused == Cardinality(ValidTokens) # 1

\* tokens[0].
FirstToken == CHOOSE k \in ValidTokens \cup {None} : ValidTokens # {} => k \in ValidTokens

ReadTokens(r) ==
    /\ pc[r] = "sweeping" /\ list[r] = {}
    /\ \/ Refused /\ Done(r)
       \/ /\ ~Refused
          /\ tok' = [tok EXCEPT ![r] = FirstToken]
          /\ pc' = [pc EXCEPT ![r] = "claiming"]
          /\ UNCHANGED <<sn, list, born, orphaned>>
    /\ UNCHANGED <<tenantVars, tokenVars, cacheVars, spent>>

\* The tenant a claim goes to.
ClaimTenant(r) == tenantOf[tok[r]]

\* The token's tenant is looked up by id, whatever its status: its row and
\* the token's went together, whoever has the slug now.
FindTenant(r) ==
    /\ pc[r] = "claiming"
    /\ \/ token[tok[r]] = "gone" /\ Done(r)
       \/ /\ token[tok[r]] # "gone"
          /\ pc' = [pc EXCEPT ![r] = "found"]
          /\ UNCHANGED <<sn, list, tok, born, orphaned>>
    /\ UNCHANGED <<tenantVars, tokenVars, cacheVars, spent>>

\* ON CONFLICT keeps the row that is there.
InsertDevice(r) ==
    LET t == ClaimTenant(r) IN
    /\ pc[r] = "found" /\ t \in schema
    /\ devices' = [devices EXCEPT ![t] = @ \cup {sn[r]}]
    /\ pairs' = pairs \cup {<<tok[r], sn[r]>>}
    /\ pc' = [pc EXCEPT ![r] = "paired"]
    /\ UNCHANGED <<status, schema, building, deleting, deadFor, token, taker, cacheVars,
                   sn, list, tok, born, orphaned, spent>>

InsertThrows(r) ==
    /\ pc[r] = "found" /\ tenantOf[tok[r]] \notin schema
    /\ Done(r)
    /\ UNCHANGED <<tenantVars, tokenVars, cacheVars, spent>>

\* UPDATE ... WHERE id = token.id: no condition on consumed_at.
StateAfterUse(k) == IF token[k] = "gone" THEN "gone" ELSE "consumed"

ConsumeToken(r) ==
    LET k == tok[r] IN
    /\ pc[r] = "paired"
    /\ token' = [token EXCEPT ![k] = StateAfterUse(k)]
    /\ taker' = IF token[k] = "gone" THEN taker ELSE [taker EXCEPT ![k] = sn[r]]
    /\ CacheSet(r, tenantOf[k])
    /\ Done(r)
    /\ UNCHANGED <<tenantVars, pairs, spent>>

\* A statement of r throws.
RequestFails(r) ==
    /\ pc[r] # "idle" /\ spent < Budget
    /\ Done(r)
    /\ spent' = spent + 1
    /\ UNCHANGED <<tenantVars, tokenVars, cacheVars>>

\* The ADMS process dies with its cache and its requests.
AdmsCrash ==
    /\ spent < Budget
    /\ spent' = spent + 1
    /\ cache' = [s \in Sns |-> None]
    /\ age' = [s \in Sns |-> 0]
    /\ pc' = [r \in Requests |-> "idle"]
    /\ sn' = [r \in Requests |-> None]
    /\ list' = [r \in Requests |-> {}]
    /\ tok' = [r \in Requests |-> None]
    /\ born' = [r \in Requests |-> 0]
    /\ orphans' = {} /\ orphaned' = {}
    /\ UNCHANGED <<tenantVars, tokenVars>>

-----------------------------------------------------------------------------
Tenancy(t) ==
    \/ CreateRow(t) \/ Provision(t) \/ ProvisionFails(t) \/ CreateDies(t)
    \/ SetStatus(t) \/ DropSchema(t) \/ FinishDelete(t)

Resolve(r) ==
    \/ SweepOne(r) \/ SweepThrows(r) \/ ReadTokens(r)
    \/ FindTenant(r) \/ InsertDevice(r) \/ InsertThrows(r) \/ ConsumeToken(r)

Next ==
    \/ \E t \in Tenants : Tenancy(t)
    \/ \E k \in Tokens : IssueToken(k) \/ ExpireToken(k)
    \/ Tick
    \/ \E r \in Requests : (\E s \in Sns : StartSweep(r, s)) \/ Resolve(r) \/ RequestFails(r)
    \/ AdmsCrash

Spec == Init /\ [][Next]_vars

\* A device keeps knocking, time passes, and a request that has started
\* goes on.  Strong fairness, since the server has room for every request
\* and only the model makes devices wait for one of Requests.
FairSpec ==
    /\ Spec
    /\ WF_vars(Tick)
    /\ \A s \in Sns : SF_vars(\E r \in Requests : StartSweep(r, s))
    /\ \A r \in Requests : WF_vars(Resolve(r))

-----------------------------------------------------------------------------
(* Properties                                                              *)

\* A device is served from the cache with the id of a device row that is
\* gone for less than the TTL after its tenant's schema was dropped, even if
\* the resolution that cached it was slow and even if a new tenant has the
\* slug by then: refreshedAt is read before the tables are.
StalenessIsBounded ==
    \A s \in Sns : Fresh(s) /\ s \in orphans => deadFor[cache[s]] < TTL

\* Only dropping the schema takes the row of a cached binding away: any other
\* binding, fresh or not, names a device row of its tenant's schema, so a
\* handler's UPDATE devices WHERE id = deviceId hits it.
CachedIsPaired ==
    \A s \in Sns : cache[s] # None /\ s \notin orphans
                       => cache[s] \in schema /\ s \in devices[cache[s]]

\* consumed_by_sn tells the truth: that device is in the devices table of
\* the token's tenant until the tenant is being deleted, whatever else
\* claimed the token.
TakerIsPaired ==
    \A k \in Tokens : taker[k] # None /\ token[k] # "gone" /\ tenantOf[k] \notin deleting
                          => tenantOf[k] \in schema /\ taker[k] \in devices[tenantOf[k]]

\* A token lets one device in.  True of one request at a time whose
\* statements do not fail.
TokenPairsOne ==
    \A p, q \in pairs : p[1] = q[1] => p[2] = q[2]

\* "The next new device that handshakes is mine": while a token is the only
\* valid one and every listed tenant has its tables, a device that keeps
\* knocking does not stay out.
Clear(k) ==
    /\ ValidTokens = {k}
    /\ tenantOf[k] \in schema
    /\ \A t \in Tenants : status[t] = "active" => t \in schema
NextDeviceIsPaired ==
    \A k \in Tokens, s \in Sns :
        []<>~(Clear(k) /\ \A t \in Tenants : s \notin devices[t])
=============================================================================
