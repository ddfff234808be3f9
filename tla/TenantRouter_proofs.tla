------------------------- MODULE TenantRouter_proofs -------------------------
(***************************************************************************)
(* TenantRouter, for any tenants, serial numbers, tokens, TTL and number   *)
(* of open resolutions; and at the end RecordForms, the forms over what    *)
(* the tenants store, for any tabs, rows and values.                       *)
(*                                                                         *)
(* What the cache and the tokens say about a tenant stays true while other *)
(* requests, other processes and the tenant's deletion go on, because a    *)
(* request that is about to write a binding is never more wrong than old:  *)
(* its device row exists, or its tenant's schema was dropped after the     *)
(* request began, and then either the tenant's row still waits for its     *)
(* DELETE or the token went with it.                                       *)
(*                                                                         *)
(* A form holds what its operator means unless a create that was answered  *)
(* late emptied it, so a save sends it and its handler lays it over the    *)
(* record.                                                                 *)
(***************************************************************************)
EXTENDS TenantRouter, RecordForms, FiniteSetTheorems, TLAPS

\* A token somebody holds or has used was issued, so it goes with its tenant.
HeldIsIssued ==
    /\ \A r \in Requests : pc[r] \in {"claiming", "found", "paired"} => token[tok[r]] # "unissued"
    /\ \A k \in Tokens : taker[k] # None => token[k] # "unissued"

RequestHasSn == \A r \in Requests : pc[r] # "idle" => sn[r] \in Sns

\* A schema was not dropped longer ago than the binding it broke is old.
DeadNoLongerThanCached ==
    \A s \in orphans : cache[s] # None => deadFor[cache[s]] <= age[s]

\* A request between its INSERT and its UPDATE.
PairedIsInserted ==
    \A r \in Requests : pc[r] = "paired" /\ r \notin orphaned =>
        tenantOf[tok[r]] \in schema /\ sn[r] \in devices[tenantOf[tok[r]]]
OrphanedIsDropped ==
    \A r \in orphaned :
        /\ pc[r] = "paired"
        /\ deadFor[tenantOf[tok[r]]] <= born[r]
        /\ token[tok[r]] = "gone" \/ tenantOf[tok[r]] \in deleting

IInv ==
    /\ TypeOK
    /\ HeldIsIssued
    /\ RequestHasSn
    /\ DeadNoLongerThanCached
    /\ PairedIsInserted
    /\ OrphanedIsDropped
    /\ CachedIsPaired
    /\ TakerIsPaired

\* What has happened to a token, when requests come one at a time and no
\* statement fails.
Sequential == Budget = 0 /\ \A q, r \in Requests : q = r
TokenHistory ==
    /\ \A p \in pairs : \/ token[p[1]] \in {"consumed", "gone"}
                        \/ \E r \in Requests : pc[r] = "paired" /\ tok[r] = p[1] /\ sn[r] = p[2]
    /\ \A r \in Requests : pc[r] \in {"claiming", "found"} =>
           \A p \in pairs : p[1] # tok[r]

-----------------------------------------------------------------------------
(* Lemmas about the operators                                              *)

\* When the SELECT returns exactly one token, tokens[0] is it.
LEMMA FirstTokenIsValid ==
    ASSUME ~Refused
    PROVE  FirstToken \in Tokens /\ token[FirstToken] = "valid"
<1>1. ValidTokens # {}
  BY FS_EmptySet DEF Refused
<1>2. FirstToken \in ValidTokens
  BY <1>1 DEF FirstToken
<1> QED  BY <1>2 DEF ValidTokens

\* Ageing keeps the range and the order of ages.
LEMMA OlderGrows ==
    ASSUME NEW a \in 0 .. TTL, NEW b \in 0 .. TTL
    PROVE  Older(a) \in 0 .. TTL /\ (a <= b => Older(a) <= Older(b))
BY RouterAssumption DEF Older

\* A constant that is not a token, a tenant or a serial number.
LEMMA NoneIsNothing == None \notin Tenants /\ None \notin Tokens /\ None \notin Sns
BY RouterAssumption

\* The end of a handler touches no other request.
LEMMA DoneIsLocal ==
    ASSUME TypeOK, NEW r \in Requests, Done(r)
    PROVE  /\ pc' \in [Requests -> {"idle", "sweeping", "claiming", "found", "paired"}]
           /\ sn' \in [Requests -> Sns \cup {None}]
           /\ list' \in [Requests -> SUBSET Tenants]
           /\ tok' \in [Requests -> Tokens \cup {None}]
           /\ born' \in [Requests -> 0 .. TTL]
           /\ pc'[r] = "idle"
           /\ orphaned' = orphaned \ {r}
           /\ \A q \in Requests : q # r =>
                 /\ pc'[q] = pc[q] /\ sn'[q] = sn[q]
                 /\ tok'[q] = tok[q] /\ born'[q] = born[q]
BY RouterAssumption DEF TypeOK, Done

-----------------------------------------------------------------------------
(* One step                                                                *)

LEMMA InitIsGood == Init => IInv
<1> SUFFICES ASSUME Init PROVE IInv
  OBVIOUS
<1> USE RouterAssumption DEF Init
<1>1. TypeOK
  BY DEF TypeOK
<1>2. HeldIsIssued
  BY DEF HeldIsIssued
<1>3. RequestHasSn /\ DeadNoLongerThanCached /\ PairedIsInserted /\ OrphanedIsDropped
  BY DEF RequestHasSn, DeadNoLongerThanCached, PairedIsInserted, OrphanedIsDropped
<1>4. CachedIsPaired /\ TakerIsPaired
  BY DEF CachedIsPaired, TakerIsPaired
<1> QED  BY <1>1, <1>2, <1>3, <1>4 DEF IInv

LEMMA TypePreserved == IInv /\ [Next]_vars => TypeOK'
<1> SUFFICES ASSUME IInv, [Next]_vars PROVE TypeOK'
  OBVIOUS
<1> USE RouterAssumption
    DEF IInv, TypeOK, tenantVars, tokenVars, cacheVars, requestVars
<1>1. ASSUME NEW t \in Tenants, CreateRow(t) \/ Provision(t)
      PROVE  TypeOK'
  <2>1. CASE CreateRow(t)
    BY <2>1 DEF CreateRow
  <2>2. CASE Provision(t)
    BY <2>2 DEF Provision
  <2> QED  BY <1>1, <2>1, <2>2
<1>2. ASSUME NEW t \in Tenants, ProvisionFails(t) \/ CreateDies(t)
      PROVE  TypeOK'
  <2>1. CASE ProvisionFails(t)
    BY <2>1 DEF ProvisionFails, DeleteRow
  <2>2. CASE CreateDies(t)
    BY <2>2 DEF CreateDies
  <2> QED  BY <1>2, <2>1, <2>2
<1>3. ASSUME NEW t \in Tenants, SetStatus(t)
      PROVE  TypeOK'
  BY <1>3 DEF SetStatus
<1>4. ASSUME NEW t \in Tenants, DropSchema(t) \/ FinishDelete(t)
      PROVE  TypeOK'
  <2>1. CASE DropSchema(t)
    BY <2>1 DEF DropSchema
  <2>2. CASE FinishDelete(t)
    BY <2>2 DEF FinishDelete, DeleteRow
  <2> QED  BY <1>4, <2>1, <2>2
<1>5. ASSUME NEW k \in Tokens, IssueToken(k) \/ ExpireToken(k)
      PROVE  TypeOK'
  BY <1>5 DEF IssueToken, ExpireToken
<1>6. CASE Tick
  <2>1. age' \in [Sns -> 0 .. TTL]
    BY <1>6, OlderGrows DEF Tick
  <2>2. deadFor' \in [Tenants -> 0 .. TTL]
    BY <1>6, OlderGrows DEF Tick
  <2>3. born' \in [Requests -> 0 .. TTL]
    BY <1>6, OlderGrows DEF Tick
  <2> QED  BY <1>6, <2>1, <2>2, <2>3 DEF Tick
<1>7. ASSUME NEW r \in Requests, NEW s \in Sns, StartSweep(r, s)
      PROVE  TypeOK'
  BY <1>7 DEF StartSweep
<1>8. ASSUME NEW r \in Requests, SweepOne(r)
      PROVE  TypeOK'
  <2>1. PICK t \in list[r] :
            \/ FoundIn(r, t) /\ CacheSet(r, t) /\ Done(r)
            \/ /\ list' = [list EXCEPT ![r] = @ \ {t}]
               /\ UNCHANGED <<cacheVars, pc, sn, tok, born, orphaned>>
    BY <1>8 DEF SweepOne
  <2>2. CASE FoundIn(r, t) /\ CacheSet(r, t) /\ Done(r)
    <3>1. /\ cache' \in [Sns -> Tenants \cup {None}] /\ age' \in [Sns -> 0 .. TTL]
          /\ orphans' \subseteq Sns
      BY <1>8, <2>2 DEF SweepOne, CacheSet, AgeAtSet, RequestHasSn
    <3>2. UNCHANGED <<tenantVars, tokenVars, spent>>
      BY <1>8 DEF SweepOne
    <3> QED  BY <2>2, <3>1, <3>2, DoneIsLocal
  <2>3. CASE /\ list' = [list EXCEPT ![r] = @ \ {t}]
             /\ UNCHANGED <<cacheVars, pc, sn, tok, born, orphaned>>
    BY <1>8, <2>3 DEF SweepOne
  <2> QED  BY <2>1, <2>2, <2>3
<1>9. ASSUME NEW r \in Requests, SweepThrows(r) \/ InsertThrows(r) \/ RequestFails(r)
      PROVE  TypeOK'
  BY <1>9, DoneIsLocal, SMTT(60) DEF SweepThrows, InsertThrows, RequestFails
<1>10. ASSUME NEW r \in Requests, ReadTokens(r)
      PROVE  TypeOK'
  <2>1. CASE Done(r)
    BY <1>10, <2>1, DoneIsLocal DEF ReadTokens
  <2>2. CASE ~Refused /\ ~Done(r)
    BY <1>10, <2>2, FirstTokenIsValid DEF ReadTokens
  <2> QED  BY <1>10, <2>1, <2>2 DEF ReadTokens
<1>11. ASSUME NEW r \in Requests, FindTenant(r)
      PROVE  TypeOK'
  <2>1. CASE Done(r)
    BY <1>11, <2>1, DoneIsLocal DEF FindTenant
  <2>2. CASE ~Done(r)
    BY <1>11, <2>2 DEF FindTenant
  <2> QED  BY <2>1, <2>2
<1>12. ASSUME NEW r \in Requests, InsertDevice(r)
      PROVE  TypeOK'
  BY <1>12, RequestHasSn DEF InsertDevice, ClaimTenant, RequestHasSn
<1>13. ASSUME NEW r \in Requests, ConsumeToken(r)
      PROVE  TypeOK'
  BY <1>13 DEF ConsumeToken, StateAfterUse, CacheSet, AgeAtSet, Done, RequestHasSn
<1>14. CASE AdmsCrash
  <2>1. /\ UNCHANGED <<tenantVars, tokenVars>> /\ spent' \in 0 .. Budget
        /\ orphans' = {} /\ orphaned' = {}
    BY <1>14 DEF AdmsCrash
  <2>2. cache' \in [Sns -> Tenants \cup {None}] /\ age' \in [Sns -> 0 .. TTL]
    BY <1>14 DEF AdmsCrash
  <2>3. /\ pc' \in [Requests -> {"idle", "sweeping", "claiming", "found", "paired"}]
        /\ \A r \in Requests : pc'[r] = "idle"
    BY <1>14 DEF AdmsCrash
  <2>4. sn' \in [Requests -> Sns \cup {None}] /\ list' \in [Requests -> SUBSET Tenants]
    BY <1>14 DEF AdmsCrash
  <2>5. tok' \in [Requests -> Tokens \cup {None}] /\ born' \in [Requests -> 0 .. TTL]
    BY <1>14 DEF AdmsCrash
  <2> QED  BY <2>1, <2>2, <2>3, <2>4, <2>5
<1>15. CASE UNCHANGED vars
  BY <1>15 DEF vars
<1> QED
  BY <1>1, <1>2, <1>3, <1>4, <1>5, <1>6, <1>7, <1>8, <1>9, <1>10, <1>11, <1>12, <1>13,
     <1>14, <1>15
  DEF Next, Tenancy, Resolve

\* A request gives its tenant away only to the table or to nobody: what each
\* of its steps does to what the invariants look at.
LEMMA SweepOneCases ==
    ASSUME IInv, NEW r \in Requests, SweepOne(r)
    PROVE  /\ UNCHANGED <<tenantVars, tokenVars>>
           /\ \/ /\ UNCHANGED <<cacheVars, pc, sn, tok, born, orphaned>>
              \/ /\ Done(r)
                 /\ sn[r] \in Sns
                 /\ \E t \in schema : /\ sn[r] \in devices[t]
                                      /\ cache' = [cache EXCEPT ![sn[r]] = t]
                                      /\ age' = [age EXCEPT ![sn[r]] = born[r]]
                                      /\ orphans' = orphans \ {sn[r]}
<1>1. r \notin orphaned
  BY DEF SweepOne, IInv, OrphanedIsDropped
<1> QED  BY <1>1 DEF SweepOne, FoundIn, CacheSet, AgeAtSet, IInv, RequestHasSn

\* Steps of a request that write no table and no cache.
Reads(r) == SweepThrows(r) \/ ReadTokens(r) \/ FindTenant(r) \/ InsertThrows(r) \/ RequestFails(r)
LEMMA ReadsChangeLittle ==
    ASSUME IInv, NEW r \in Requests, Reads(r)
    PROVE  /\ UNCHANGED <<tenantVars, tokenVars, cacheVars>>
           /\ pc'[r] \in {"idle", "claiming", "found"}
           /\ pc'[r] # "idle" => sn'[r] = sn[r] /\ pc[r] # "idle"
           /\ pc'[r] # "idle" => token[tok'[r]] # "unissued"
           /\ orphaned' = orphaned \ {r}
           /\ \A q \in Requests : q # r =>
                 /\ pc'[q] = pc[q] /\ sn'[q] = sn[q]
                 /\ tok'[q] = tok[q] /\ born'[q] = born[q]
<1> USE DEF IInv
<1>1. CASE Done(r)
  <2>1. UNCHANGED <<tenantVars, tokenVars, cacheVars>>
    BY <1>1 DEF Reads, SweepThrows, ReadTokens, FindTenant, InsertThrows, RequestFails
  <2> QED  BY <1>1, <2>1, DoneIsLocal
<1>2. CASE ~Done(r) /\ ReadTokens(r)
  <2>1. r \notin orphaned
    BY <1>2 DEF ReadTokens, OrphanedIsDropped
  <2> QED  BY <1>2, <2>1, FirstTokenIsValid DEF ReadTokens, TypeOK, requestVars
<1>3. CASE ~Done(r) /\ FindTenant(r)
  <2>1. r \notin orphaned
    BY <1>3 DEF FindTenant, OrphanedIsDropped
  <2> QED  BY <1>3, <2>1 DEF FindTenant, TypeOK, HeldIsIssued
<1>4. SweepThrows(r) \/ InsertThrows(r) \/ RequestFails(r) => Done(r)
  BY DEF SweepThrows, InsertThrows, RequestFails
<1> QED  BY <1>1, <1>2, <1>3, <1>4 DEF Reads

LEMMA HeldPreserved == IInv /\ [Next]_vars => HeldIsIssued'
<1> SUFFICES ASSUME IInv, [Next]_vars PROVE HeldIsIssued'
  OBVIOUS
<1> USE RouterAssumption
    DEF IInv, TypeOK, HeldIsIssued, tenantVars, tokenVars, cacheVars, requestVars
<1>1. ASSUME \A k \in Tokens : token[k] # "unissued" => token'[k] # "unissued",
             UNCHANGED <<taker, pc, tok>>
      PROVE  HeldIsIssued'
  BY <1>1
<1>2. ASSUME NEW t \in Tenants, Tenancy(t)
      PROVE  HeldIsIssued'
  BY <1>1, <1>2 DEF Tenancy, CreateRow, Provision, ProvisionFails, CreateDies, SetStatus,
                    DropSchema, FinishDelete, DeleteRow
<1>3. CASE \/ \E k \in Tokens : IssueToken(k) \/ ExpireToken(k)
           \/ Tick \/ UNCHANGED vars
  BY <1>1, <1>3 DEF IssueToken, ExpireToken, Tick, vars
<1>4. ASSUME NEW r \in Requests, NEW s \in Sns, StartSweep(r, s)
      PROVE  HeldIsIssued'
  BY <1>4 DEF StartSweep
<1>5. ASSUME NEW r \in Requests, SweepOne(r)
      PROVE  HeldIsIssued'
  BY <1>5, SweepOneCases, DoneIsLocal
<1>6. ASSUME NEW r \in Requests, Reads(r)
      PROVE  HeldIsIssued'
  BY <1>6, ReadsChangeLittle
<1>7. ASSUME NEW r \in Requests, InsertDevice(r)
      PROVE  HeldIsIssued'
  BY <1>7 DEF InsertDevice
<1>8. ASSUME NEW r \in Requests, ConsumeToken(r)
      PROVE  HeldIsIssued'
  BY <1>8, DoneIsLocal DEF ConsumeToken, StateAfterUse
<1>9. CASE AdmsCrash
  BY <1>9 DEF AdmsCrash
<1> QED  BY <1>2, <1>3, <1>4, <1>5, <1>6, <1>7, <1>8, <1>9 DEF Next, Resolve, Reads

LEMMA RequestSnPreserved == IInv /\ [Next]_vars => RequestHasSn'
<1> SUFFICES ASSUME IInv, [Next]_vars PROVE RequestHasSn'
  OBVIOUS
<1> USE DEF IInv, TypeOK, RequestHasSn, requestVars
<1>1. CASE UNCHANGED <<pc, sn>>
  BY <1>1
<1>2. ASSUME NEW t \in Tenants, Tenancy(t)
      PROVE  RequestHasSn'
  BY <1>1, <1>2 DEF Tenancy, CreateRow, Provision, ProvisionFails, CreateDies, SetStatus,
                    DropSchema, FinishDelete
<1>3. CASE \/ \E k \in Tokens : IssueToken(k) \/ ExpireToken(k)
           \/ Tick \/ UNCHANGED vars
  BY <1>1, <1>3 DEF IssueToken, ExpireToken, Tick, vars
<1>4. ASSUME NEW r \in Requests, NEW s \in Sns, StartSweep(r, s)
      PROVE  RequestHasSn'
  BY <1>4 DEF StartSweep
<1>5. ASSUME NEW r \in Requests, SweepOne(r)
      PROVE  RequestHasSn'
  BY <1>5, SweepOneCases, DoneIsLocal
<1>6. ASSUME NEW r \in Requests, Reads(r)
      PROVE  RequestHasSn'
  BY <1>6, ReadsChangeLittle
<1>7. ASSUME NEW r \in Requests, InsertDevice(r)
      PROVE  RequestHasSn'
  BY <1>7 DEF InsertDevice
<1>8. ASSUME NEW r \in Requests, ConsumeToken(r)
      PROVE  RequestHasSn'
  BY <1>8, DoneIsLocal DEF ConsumeToken
<1>9. CASE AdmsCrash
  BY <1>9 DEF AdmsCrash
<1> QED  BY <1>2, <1>3, <1>4, <1>5, <1>6, <1>7, <1>8, <1>9 DEF Next, Resolve, Reads

\* Steps after which every schema, device row, cache entry and pairing
\* request is as before, or there are more device rows, and a tenant is gone
\* with its tokens.
Harmless ==
    /\ UNCHANGED <<schema, deadFor>>
    /\ \A t \in Tenants : devices[t] \subseteq devices'[t]
    /\ UNCHANGED <<cacheVars, taker>>
    /\ orphaned' \subseteq orphaned
    /\ \A r \in Requests : pc[r] = "paired" /\ r \in orphaned' => pc'[r] = "paired"
    /\ \A r \in Requests : pc'[r] = "paired" =>
           /\ pc[r] = "paired" /\ sn'[r] = sn[r]
           /\ tok'[r] = tok[r] /\ born'[r] = born[r]
           /\ r \in orphaned => r \in orphaned'
    /\ \A k \in Tokens : token[k] = "gone" => token'[k] = "gone"
    /\ \A k \in Tokens : token[k] # "unissued" /\ tenantOf[k] \in deleting
                             => tenantOf[k] \in deleting' \/ token'[k] = "gone"
LEMMA HarmlessSteps ==
    ASSUME IInv,
           \/ \E t \in Tenants : \/ CreateRow(t) \/ ProvisionFails(t) \/ CreateDies(t)
                                 \/ SetStatus(t) \/ FinishDelete(t)
           \/ \E k \in Tokens : IssueToken(k) \/ ExpireToken(k)
           \/ \E r \in Requests : (\E s \in Sns : StartSweep(r, s)) \/ Reads(r)
           \/ UNCHANGED vars
    PROVE  Harmless
<1> USE DEF IInv, TypeOK, Harmless, tenantVars, tokenVars, cacheVars, requestVars
<1>1. CASE \E t \in Tenants : \/ CreateRow(t) \/ ProvisionFails(t) \/ CreateDies(t)
                              \/ SetStatus(t) \/ FinishDelete(t)
  BY <1>1 DEF CreateRow, ProvisionFails, CreateDies, SetStatus, FinishDelete, DeleteRow
<1>2. CASE \E k \in Tokens : IssueToken(k) \/ ExpireToken(k)
  BY <1>2 DEF IssueToken, ExpireToken
<1>3. ASSUME NEW r \in Requests, NEW s \in Sns, StartSweep(r, s)
      PROVE  Harmless
  BY <1>3 DEF StartSweep
<1>4. ASSUME NEW r \in Requests, Reads(r)
      PROVE  Harmless
  BY <1>4, ReadsChangeLittle
<1>5. CASE UNCHANGED vars
  BY <1>5 DEF vars
<1> QED  BY <1>1, <1>2, <1>3, <1>4, <1>5

LEMMA AgesPreserved == IInv /\ [Next]_vars => DeadNoLongerThanCached'
<1> SUFFICES ASSUME IInv, [Next]_vars PROVE DeadNoLongerThanCached'
  OBVIOUS
<1> USE RouterAssumption
    DEF IInv, TypeOK, DeadNoLongerThanCached, tenantVars, tokenVars, cacheVars, requestVars
<1>1. CASE Harmless
  BY <1>1 DEF Harmless
<1>2. ASSUME NEW t \in Tenants, Provision(t)
      PROVE  DeadNoLongerThanCached'
  BY <1>2 DEF Provision
<1>3. ASSUME NEW t \in Tenants, DropSchema(t)
      PROVE  DeadNoLongerThanCached'
  BY <1>3 DEF DropSchema
<1>4. CASE Tick
  <2> SUFFICES ASSUME NEW s \in orphans', cache'[s] # None
               PROVE  deadFor'[cache'[s]] <= age'[s]
    OBVIOUS
  <2> DEFINE t == cache[s]
  <2>1. cache'[s] = t /\ t \in Tenants /\ deadFor[t] <= age[s] /\ s \in Sns
    BY <1>4 DEF Tick
  <2>2. deadFor'[t] = Older(deadFor[t]) /\ age'[s] = Older(age[s])
    BY <1>4, <2>1 DEF Tick
  <2>3. deadFor[t] \in 0 .. TTL /\ age[s] \in 0 .. TTL
    BY <2>1
  <2> QED  BY <2>1, <2>2, <2>3, OlderGrows
<1>5. ASSUME NEW r \in Requests, SweepOne(r)
      PROVE  DeadNoLongerThanCached'
  BY <1>5, SweepOneCases, SMTT(60)
<1>6. ASSUME NEW r \in Requests, InsertDevice(r)
      PROVE  DeadNoLongerThanCached'
  BY <1>6 DEF InsertDevice
<1>7. ASSUME NEW r \in Requests, ConsumeToken(r)
      PROVE  DeadNoLongerThanCached'
  BY <1>7 DEF ConsumeToken, CacheSet, AgeAtSet, OrphanedIsDropped, RequestHasSn
<1>8. CASE AdmsCrash
  BY <1>8 DEF AdmsCrash
<1> QED
  BY <1>1, <1>2, <1>3, <1>4, <1>5, <1>6, <1>7, <1>8, HarmlessSteps
  DEF Next, Tenancy, Resolve, Reads

LEMMA PairedPreserved == IInv /\ [Next]_vars => PairedIsInserted'
<1> SUFFICES ASSUME IInv, [Next]_vars PROVE PairedIsInserted'
  OBVIOUS
<1> USE RouterAssumption
    DEF IInv, TypeOK, PairedIsInserted, tenantVars, tokenVars, cacheVars, requestVars
<1>1. CASE Harmless
  BY <1>1 DEF Harmless
<1>2. ASSUME NEW t \in Tenants, Provision(t)
      PROVE  PairedIsInserted'
  BY <1>2 DEF Provision
<1>3. ASSUME NEW t \in Tenants, DropSchema(t)
      PROVE  PairedIsInserted'
  BY <1>3 DEF DropSchema
<1>4. CASE Tick
  BY <1>4 DEF Tick
<1>5. ASSUME NEW r \in Requests, SweepOne(r)
      PROVE  PairedIsInserted'
  BY <1>5, SweepOneCases, DoneIsLocal
<1>6. ASSUME NEW r \in Requests, InsertDevice(r)
      PROVE  PairedIsInserted'
  BY <1>6 DEF InsertDevice, ClaimTenant, RequestHasSn
<1>7. ASSUME NEW r \in Requests, ConsumeToken(r)
      PROVE  PairedIsInserted'
  BY <1>7, DoneIsLocal DEF ConsumeToken
<1>8. CASE AdmsCrash
  BY <1>8 DEF AdmsCrash
<1> QED
  BY <1>1, <1>2, <1>3, <1>4, <1>5, <1>6, <1>7, <1>8, HarmlessSteps
  DEF Next, Tenancy, Resolve, Reads

LEMMA OrphanedPreserved == IInv /\ [Next]_vars => OrphanedIsDropped'
<1> SUFFICES ASSUME IInv, [Next]_vars PROVE OrphanedIsDropped'
  OBVIOUS
<1> USE RouterAssumption
    DEF IInv, TypeOK, OrphanedIsDropped, tenantVars, tokenVars, cacheVars, requestVars
<1>1. CASE Harmless
  BY <1>1 DEF Harmless, HeldIsIssued
<1>2. ASSUME NEW t \in Tenants, Provision(t)
      PROVE  OrphanedIsDropped'
  BY <1>2 DEF Provision
<1>3. ASSUME NEW t \in Tenants, DropSchema(t)
      PROVE  OrphanedIsDropped'
  BY <1>3 DEF DropSchema
<1>4. CASE Tick
  <2> SUFFICES ASSUME NEW r \in orphaned
               PROVE  deadFor'[tenantOf[tok[r]]] <= born'[r]
    BY <1>4 DEF Tick
  <2>1. pc[r] = "paired" /\ tenantOf[tok[r]] \in Tenants /\ r \in Requests
    OBVIOUS
  <2>2. /\ deadFor'[tenantOf[tok[r]]] = Older(deadFor[tenantOf[tok[r]]])
        /\ born'[r] = Older(born[r])
    BY <1>4, <2>1 DEF Tick
  <2> QED  BY <2>1, <2>2, OlderGrows
<1>5. ASSUME NEW r \in Requests, SweepOne(r)
      PROVE  OrphanedIsDropped'
  BY <1>5, SweepOneCases, DoneIsLocal
<1>6. ASSUME NEW r \in Requests, InsertDevice(r)
      PROVE  OrphanedIsDropped'
  BY <1>6 DEF InsertDevice, ClaimTenant, RequestHasSn
<1>7. ASSUME NEW r \in Requests, ConsumeToken(r)
      PROVE  OrphanedIsDropped'
  BY <1>7, DoneIsLocal DEF ConsumeToken, StateAfterUse
<1>8. CASE AdmsCrash
  BY <1>8 DEF AdmsCrash
<1> QED
  BY <1>1, <1>2, <1>3, <1>4, <1>5, <1>6, <1>7, <1>8, HarmlessSteps
  DEF Next, Tenancy, Resolve, Reads

LEMMA RowsPreserved == IInv /\ [Next]_vars => CachedIsPaired' /\ TakerIsPaired'
<1> DEFINE Paired == CachedIsPaired /\ TakerIsPaired
<1> SUFFICES ASSUME IInv, [Next]_vars PROVE Paired'
  OBVIOUS
<1> USE RouterAssumption
    DEF IInv, TypeOK, CachedIsPaired, TakerIsPaired, tenantVars, tokenVars, cacheVars,
        requestVars
<1>1. CASE Harmless
  BY <1>1 DEF Harmless, HeldIsIssued
<1>2. ASSUME NEW t \in Tenants, Provision(t)
      PROVE  Paired'
  BY <1>2 DEF Provision
<1>3. ASSUME NEW t \in Tenants, DropSchema(t)
      PROVE  Paired'
  BY <1>3 DEF DropSchema
<1>4. CASE Tick
  BY <1>4 DEF Tick
<1>5. ASSUME NEW r \in Requests, SweepOne(r)
      PROVE  Paired'
  BY <1>5, SweepOneCases
<1>6. ASSUME NEW r \in Requests, InsertDevice(r)
      PROVE  Paired'
  BY <1>6 DEF InsertDevice
<1>7. ASSUME NEW r \in Requests, ConsumeToken(r)
      PROVE  Paired'
  <2>1. CachedIsPaired'
    BY <1>7 DEF ConsumeToken, CacheSet, PairedIsInserted, RequestHasSn
  <2>2. TakerIsPaired'
    BY <1>7 DEF ConsumeToken, StateAfterUse, PairedIsInserted, OrphanedIsDropped, RequestHasSn
  <2> QED  BY <2>1, <2>2
<1>8. CASE AdmsCrash
  BY <1>8 DEF AdmsCrash
<1> QED
  BY <1>1, <1>2, <1>3, <1>4, <1>5, <1>6, <1>7, <1>8, HarmlessSteps
  DEF Next, Tenancy, Resolve, Reads

LEMMA Invariance == Spec => []IInv
<1>1. IInv /\ [Next]_vars => IInv'
  BY TypePreserved, HeldPreserved, RequestSnPreserved, AgesPreserved, PairedPreserved,
     OrphanedPreserved, RowsPreserved DEF IInv
<1> QED  BY <1>1, InitIsGood, PTL DEF Spec

-----------------------------------------------------------------------------
(* Theorems                                                                *)

\* Every variable of the router keeps its type; in particular a request that
\* claims holds a token.
THEOREM TypeCorrect == Spec => []TypeOK
<1>1. IInv => TypeOK
  BY DEF IInv
<1> QED  BY <1>1, Invariance, PTL

\* router.ts:40-69: a binding is used for less than the TTL after its device
\* row was dropped, however slow the resolution that cached it was and
\* whoever has the tenant's slug by then.
THEOREM CacheForgetsTheDead == Spec => []StalenessIsBounded
<1>1. IInv => StalenessIsBounded
  <2> SUFFICES ASSUME IInv, NEW s \in Sns, Fresh(s), s \in orphans
               PROVE  deadFor[cache[s]] < TTL
    BY DEF StalenessIsBounded
  <2>1. cache[s] \in Tenants /\ deadFor[cache[s]] <= age[s] /\ age[s] < TTL
    BY DEF IInv, TypeOK, DeadNoLongerThanCached, Fresh
  <2>2. deadFor[cache[s]] \in 0 .. TTL /\ age[s] \in 0 .. TTL
    BY <2>1 DEF IInv, TypeOK
  <2> QED  BY <2>1, <2>2, RouterAssumption
<1> QED  BY <1>1, Invariance, PTL

\* router.ts:63-71, 148-156: a cached binding names a row of the devices
\* table unless its schema was dropped since the row was read.
THEOREM CachedRowExists == Spec => []CachedIsPaired
<1>1. IInv => CachedIsPaired
  BY DEF IInv
<1> QED  BY <1>1, Invariance, PTL

\* router.ts:138-141: the device a token records is in the tenant's table
\* until the tenant is deleted.
THEOREM TakerRowExists == Spec => []TakerIsPaired
<1>1. IInv => TakerIsPaired
  BY DEF IInv
<1> QED  BY <1>1, Invariance, PTL

-----------------------------------------------------------------------------
(* One request at a time                                                   *)

LEMMA HistoryPreserved ==
    ASSUME Sequential, IInv, TokenHistory, [Next]_vars
    PROVE  TokenHistory'
<1> USE RouterAssumption
    DEF IInv, TypeOK, TokenHistory, Sequential, tenantVars, tokenVars, cacheVars, requestVars
<1>1. CASE /\ UNCHANGED <<pairs, pc, sn, tok>>
           /\ \A k \in Tokens : token[k] \in {"consumed", "gone"} => token'[k] \in {"consumed", "gone"}
  BY <1>1
<1>2. ASSUME NEW t \in Tenants, Tenancy(t)
      PROVE  TokenHistory'
  <2>1. \A k \in Tokens : token[k] \in {"consumed", "gone"} => token'[k] \in {"consumed", "gone"}
    BY <1>2 DEF Tenancy, CreateRow, Provision, ProvisionFails, CreateDies, SetStatus,
                DropSchema, FinishDelete, DeleteRow
  <2>2. UNCHANGED <<pairs, pc, sn, tok>>
    BY <1>2 DEF Tenancy, CreateRow, Provision, ProvisionFails, CreateDies, SetStatus,
                DropSchema, FinishDelete
  <2> QED  BY <1>1, <2>1, <2>2
<1>3. CASE \E k \in Tokens : IssueToken(k) \/ ExpireToken(k)
  BY <1>1, <1>3 DEF IssueToken, ExpireToken
<1>4. CASE Tick \/ UNCHANGED vars
  BY <1>4 DEF Tick, vars
<1>5. ASSUME NEW r \in Requests, NEW s \in Sns, StartSweep(r, s)
      PROVE  TokenHistory'
  BY <1>5 DEF StartSweep
<1>6. ASSUME NEW r \in Requests, SweepOne(r)
      PROVE  TokenHistory'
  <2>1. pc[r] = "sweeping" /\ UNCHANGED tokenVars
    BY <1>6 DEF SweepOne
  <2>2. \A q \in Requests : pc'[q] \in {"idle", "sweeping"}
    BY <1>6, <2>1, SweepOneCases, DoneIsLocal
  <2> QED  BY <2>1, <2>2
<1>7. ASSUME NEW r \in Requests, SweepThrows(r) \/ InsertThrows(r)
      PROVE  TokenHistory'
  <2>1. pc[r] # "paired" /\ UNCHANGED tokenVars /\ Done(r)
    BY <1>7 DEF SweepThrows, InsertThrows
  <2> QED  BY <2>1, DoneIsLocal
<1>8. ASSUME NEW r \in Requests, ReadTokens(r)
      PROVE  TokenHistory'
  <2>1. pc[r] = "sweeping" /\ UNCHANGED tokenVars
    BY <1>8 DEF ReadTokens
  <2>2. \A p \in pairs : token[p[1]] \in {"consumed", "gone"}
    BY <2>1
  <2>3. CASE Done(r)
    BY <2>1, <2>2, <2>3, DoneIsLocal
  <2>4. CASE ~Refused /\ tok'[r] = FirstToken
    BY <2>1, <2>2, <2>4, FirstTokenIsValid
  <2>5. Done(r) \/ (~Refused /\ tok'[r] = FirstToken)
    BY <1>8 DEF ReadTokens
  <2> QED  BY <2>3, <2>4, <2>5
<1>9. ASSUME NEW r \in Requests, FindTenant(r)
      PROVE  TokenHistory'
  <2>1. pc[r] = "claiming" /\ UNCHANGED tokenVars
    BY <1>9 DEF FindTenant
  <2>2. CASE Done(r)
    BY <2>1, <2>2, DoneIsLocal
  <2>3. CASE pc' = [pc EXCEPT ![r] = "found"] /\ UNCHANGED <<sn, tok>>
    BY <2>1, <2>3
  <2> QED  BY <1>9, <2>2, <2>3 DEF FindTenant
<1>10. ASSUME NEW r \in Requests, InsertDevice(r)
       PROVE  TokenHistory'
  <2>1. /\ pc[r] = "found" /\ pc'[r] = "paired" /\ UNCHANGED <<sn, tok, token>>
        /\ pairs' = pairs \cup {<<tok[r], sn[r]>>}
    BY <1>10 DEF InsertDevice
  <2>2. \A p \in pairs : token[p[1]] \in {"consumed", "gone"}
    BY <2>1
  <2> QED  BY <2>1, <2>2
<1>11. ASSUME NEW r \in Requests, ConsumeToken(r)
       PROVE  TokenHistory'
  <2> DEFINE k == tok[r]
  <2>1. /\ pc[r] = "paired" /\ k \in Tokens /\ UNCHANGED pairs /\ Done(r)
        /\ token' = [token EXCEPT ![k] = StateAfterUse(k)]
    BY <1>11 DEF ConsumeToken
  <2>2. token'[k] \in {"consumed", "gone"}
    BY <2>1 DEF StateAfterUse
  <2>3. \A p \in pairs : p[1] # k => token'[p[1]] \in {"consumed", "gone"}
    BY <2>1
  <2>4. \A q \in Requests : pc'[q] = "idle"
    BY <2>1, DoneIsLocal
  <2> QED  BY <2>1, <2>2, <2>3, <2>4
<1>12. ASSUME NEW r \in Requests, RequestFails(r)
       PROVE  TokenHistory'
  BY <1>12 DEF RequestFails
<1>13. CASE AdmsCrash
  BY <1>13 DEF AdmsCrash
<1> QED
  BY <1>2, <1>3, <1>4, <1>5, <1>6, <1>7, <1>8, <1>9, <1>10, <1>11, <1>12, <1>13
  DEF Next, Resolve

\* router.ts:125-141, when requests do not overlap and no statement fails: a
\* token lets one device in.  Both conditions are needed.
THEOREM SequentialTokens ==
    ASSUME Sequential
    PROVE  Spec => []TokenPairsOne
<1> DEFINE Both == TokenHistory /\ TokenPairsOne
<1>1. Init => Both
  BY DEF Init, TokenHistory, TokenPairsOne
<1>2. ASSUME IInv, Both, [Next]_vars
      PROVE  Both'
  <2>1. TokenHistory'
    BY <1>2, HistoryPreserved
  <2>2. CASE UNCHANGED pairs
    BY <1>2, <2>1, <2>2 DEF TokenPairsOne
  <2>3. ASSUME NEW r \in Requests, InsertDevice(r)
        PROVE  TokenPairsOne'
    <3>1. /\ pairs' = pairs \cup {<<tok[r], sn[r]>>}
          /\ \A p \in pairs : p[1] # tok[r]
      BY <1>2, <2>3 DEF InsertDevice, TokenHistory
    <3> QED  BY <1>2, <3>1 DEF TokenPairsOne
  <2>4. UNCHANGED pairs \/ \E r \in Requests : InsertDevice(r)
    <3>1. ASSUME NEW t \in Tenants, Tenancy(t)
          PROVE  UNCHANGED pairs
      BY <3>1 DEF Tenancy, CreateRow, Provision, ProvisionFails, CreateDies, SetStatus,
                  DropSchema, FinishDelete, tokenVars
    <3>2. ASSUME NEW r \in Requests, Resolve(r) \/ RequestFails(r), ~InsertDevice(r)
          PROVE  UNCHANGED pairs
      BY <3>2 DEF Resolve, SweepOne, SweepThrows, ReadTokens, FindTenant, InsertThrows,
                  ConsumeToken, RequestFails, tokenVars
    <3>3. CASE \/ \E k \in Tokens : IssueToken(k) \/ ExpireToken(k)
               \/ \E r \in Requests, s \in Sns : StartSweep(r, s)
               \/ Tick \/ AdmsCrash \/ UNCHANGED vars
      BY <3>3 DEF IssueToken, ExpireToken, StartSweep, Tick, AdmsCrash, vars, tokenVars
    <3> QED  BY <1>2, <3>1, <3>2, <3>3 DEF Next
  <2> QED  BY <2>1, <2>2, <2>3, <2>4
<1>3. IInv /\ Both /\ [Next]_vars => Both'
  BY <1>2
<1>4. Both => TokenPairsOne
  OBVIOUS
<1> QED  BY <1>1, <1>3, <1>4, Invariance, PTL DEF Spec

-----------------------------------------------------------------------------
(* Any number of requests                                                  *)

\* The devices token k let in, and the requests that are about to let one in with it or
\* have and did not consume it yet.
LetIn(k) == {s \in Sns : <<k, s>> \in pairs}
Claiming(k) == {r \in Requests : pc[r] \in {"claiming", "found"} /\ tok[r] = k}
Paired(k) == {r \in Requests : pc[r] = "paired" /\ tok[r] = k}

\* However requests overlap, crash and fail, a token lets in at most as many devices as
\* requests may be open at once, and as many again for each crash or failed statement.
MaxLetIn(n) == Cardinality(Requests) * n
TokenPairsFew == \A k \in Tokens : Cardinality(LetIn(k)) <= MaxLetIn(spent + 1)

\* What keeps it so: as long as k may still be read as valid, whoever let a device in
\* with it has yet to consume it, or was lost with a crash or a failed statement.
LetInOf(k) ==
    /\ IsFiniteSet(LetIn(k))
    /\ Cardinality(LetIn(k)) + Cardinality(Claiming(k)) <= MaxLetIn(spent + 1)
    /\ token[k] \in {"unissued", "valid"} =>
           Cardinality(LetIn(k)) <= MaxLetIn(spent) + Cardinality(Paired(k))
ClaimsAreCounted == \A k \in Tokens : LetInOf(k)

\* Sets of requests can be counted, and together claiming and paired ones are not more
\* than there are requests.
LEMMA RequestsCount ==
    ASSUME IsFiniteSet(Requests), NEW S \in SUBSET Requests, NEW T \in SUBSET Requests
    PROVE  /\ IsFiniteSet(S) /\ Cardinality(S) \in Nat /\ Cardinality(T) \in Nat
           /\ Cardinality(Requests) \in Nat /\ Cardinality(S) <= Cardinality(Requests)
           /\ S \subseteq T => Cardinality(S) <= Cardinality(T)
           /\ S \cap T = {} => Cardinality(S) + Cardinality(T) <= Cardinality(Requests)
<1>1. IsFiniteSet(S) /\ IsFiniteSet(T) /\ IsFiniteSet(S \cup T)
  BY FS_Subset
<1>2. /\ Cardinality(S) \in Nat /\ Cardinality(T) \in Nat /\ Cardinality(Requests) \in Nat
      /\ Cardinality(S) <= Cardinality(Requests)
      /\ Cardinality(S \cup T) <= Cardinality(Requests)
  BY <1>1, FS_Subset, FS_CardinalityType
<1>3. S \subseteq T => Cardinality(S) <= Cardinality(T)
  BY <1>1, FS_Subset
<1>4. S \cap T = {} => Cardinality(S \cup T) = Cardinality(S) + Cardinality(T)
  BY <1>1, <1>2, FS_Union, FS_EmptySet
<1> QED  BY <1>1, <1>2, <1>3, <1>4

LEMMA LetInGrows ==
    ASSUME IsFiniteSet(Requests), NEW n \in Nat
    PROVE  MaxLetIn(n) \in Nat /\ MaxLetIn(n + 1) = MaxLetIn(n) + Cardinality(Requests)
<1>1. Cardinality(Requests) \in Nat
  BY FS_CardinalityType
<1> QED  BY <1>1 DEF MaxLetIn

\* A step that lets nothing in and starts no claim with k: its paired requests stay, or
\* are lost to a crash or a failure that is counted, or k is valid no more.
LEMMA CountStays ==
    ASSUME IsFiniteSet(Requests), TypeOK, TypeOK', NEW k \in Tokens, LetInOf(k),
           LetIn(k)' = LetIn(k), Claiming(k)' \subseteq Claiming(k),
           spent' \in {spent, spent + 1},
           token'[k] \in {"unissued", "valid"} =>
               /\ token[k] \in {"unissued", "valid"}
               /\ spent' = spent + 1 \/ Paired(k) \subseteq Paired(k)'
    PROVE  LetInOf(k)'
<1> DEFINE n == Cardinality(LetIn(k))
           c == Cardinality(Claiming(k))
           cc == Cardinality(Claiming(k)')
           p == Cardinality(Paired(k))
           pp == Cardinality(Paired(k)')
<1>1. spent \in Nat /\ spent' \in Nat
  BY DEF TypeOK
<1>2. n \in Nat
  BY FS_CardinalityType DEF LetInOf
<1>3. Claiming(k) \subseteq Requests /\ Paired(k) \subseteq Requests
      /\ Claiming(k)' \subseteq Requests /\ Paired(k)' \subseteq Requests
  BY DEF Claiming, Paired
<1>4. /\ c \in Nat /\ cc \in Nat /\ p \in Nat /\ pp \in Nat /\ Cardinality(Requests) \in Nat
      /\ cc <= c /\ p <= Cardinality(Requests)
      /\ Paired(k) \subseteq Paired(k)' => p <= pp
  BY <1>3, RequestsCount
<1>5. /\ MaxLetIn(spent) \in Nat /\ MaxLetIn(spent + 1) = MaxLetIn(spent) + Cardinality(Requests)
      /\ MaxLetIn(spent' + 1) = MaxLetIn(spent') + Cardinality(Requests)
      /\ MaxLetIn(spent') \in {MaxLetIn(spent), MaxLetIn(spent + 1)}
      /\ spent' = spent + 1 => MaxLetIn(spent') = MaxLetIn(spent + 1)
  BY <1>1, LetInGrows
<1>6. /\ n + c <= MaxLetIn(spent + 1)
      /\ token[k] \in {"unissued", "valid"} => n <= MaxLetIn(spent) + p
  BY DEF LetInOf
<1> HIDE DEF n, c, cc, p, pp
<1>7. n + cc <= MaxLetIn(spent' + 1)
  BY <1>2, <1>4, <1>5, <1>6
<1>8. ASSUME token'[k] \in {"unissued", "valid"}
      PROVE  n <= MaxLetIn(spent') + pp
  <2>1. CASE spent' = spent + 1
    BY <1>2, <1>4, <1>5, <1>6, <1>8, <2>1
  <2>2. CASE spent' = spent /\ Paired(k) \subseteq Paired(k)'
    BY <1>2, <1>4, <1>5, <1>6, <1>8, <2>2
  <2> QED  BY <1>8, <2>1, <2>2
<1>9. /\ IsFiniteSet(LetIn(k)')
      /\ Cardinality(LetIn(k)') + Cardinality(Claiming(k)') <= MaxLetIn(spent' + 1)
      /\ token'[k] \in {"unissued", "valid"} =>
             Cardinality(LetIn(k)') <= MaxLetIn(spent') + Cardinality(Paired(k)')
  BY <1>7, <1>8 DEF n, cc, pp, LetInOf
<1> QED  BY <1>9 DEF LetInOf, MaxLetIn

\* Steps that read no token and insert no device.
LEMMA CountsMostlyStay ==
    ASSUME IsFiniteSet(Requests), IInv, TypeOK', ClaimsAreCounted, NEW k \in Tokens,
           [Next]_vars,
           \A r \in Requests : ~InsertDevice(r) /\ ~(ReadTokens(r) /\ ~Refused)
    PROVE  LetInOf(k)'
<1> DEFINE Kept ==
               /\ LetIn(k)' = LetIn(k) /\ Claiming(k)' \subseteq Claiming(k)
               /\ spent' \in {spent, spent + 1}
               /\ token'[k] \in {"unissued", "valid"} =>
                      /\ token[k] \in {"unissued", "valid"}
                      /\ spent' = spent + 1 \/ Paired(k) \subseteq Paired(k)'
<1> USE DEF TypeOK, tenantVars, tokenVars, cacheVars, requestVars, LetIn, Claiming, Paired
<1>0. TypeOK /\ LetInOf(k)
  BY DEF IInv, ClaimsAreCounted
<1>1. ASSUME UNCHANGED <<pairs, pc, tok>>, spent' \in {spent, spent + 1},
             token'[k] \in {"unissued", "valid"} => token[k] \in {"unissued", "valid"}
      PROVE  Kept
  BY <1>0, <1>1
<1>2. ASSUME NEW t \in Tenants, Tenancy(t)
      PROVE  Kept
  <2>1. token'[k] \in {"unissued", "valid"} => token[k] \in {"unissued", "valid"}
    BY <1>0, <1>2 DEF Tenancy, CreateRow, Provision, ProvisionFails, CreateDies, SetStatus,
                DropSchema, FinishDelete, DeleteRow
  <2>2. UNCHANGED <<pairs, pc, tok>> /\ spent' \in {spent, spent + 1}
    BY <1>2 DEF Tenancy, CreateRow, Provision, ProvisionFails, CreateDies, SetStatus,
                DropSchema, FinishDelete
  <2> QED  BY <1>1, <2>1, <2>2
<1>3. ASSUME \/ \E j \in Tokens : IssueToken(j) \/ ExpireToken(j)
             \/ Tick \/ UNCHANGED vars
      PROVE  Kept
  <2>1. token'[k] \in {"unissued", "valid"} => token[k] \in {"unissued", "valid"}
    BY <1>0, <1>3 DEF IssueToken, ExpireToken, Tick, vars
  <2>2. UNCHANGED <<pairs, pc, tok, spent>>
    BY <1>3 DEF IssueToken, ExpireToken, Tick, vars
  <2> QED  BY <1>1, <2>1, <2>2
<1>4. ASSUME NEW r \in Requests, NEW s \in Sns, StartSweep(r, s)
      PROVE  Kept
  BY <1>0, <1>4 DEF StartSweep
<1>5. ASSUME NEW r \in Requests, Done(r), pc[r] # "paired", UNCHANGED tokenVars,
             spent' = spent
      PROVE  Kept
  <2>1. /\ pc'[r] = "idle" /\ \A q \in Requests : q # r => pc'[q] = pc[q] /\ tok'[q] = tok[q]
    BY <1>0, <1>5, DoneIsLocal
  <2> QED  BY <1>5, <2>1
<1>6. ASSUME NEW r \in Requests, SweepOne(r)
      PROVE  Kept
  <2>1. pc[r] = "sweeping" /\ UNCHANGED tokenVars /\ spent' = spent
    BY <1>6 DEF SweepOne
  <2>2. Done(r) \/ UNCHANGED <<pc, tok>>
    BY <1>6 DEF SweepOne
  <2> QED  BY <1>1, <1>5, <2>1, <2>2
<1>7. ASSUME NEW r \in Requests, SweepThrows(r) \/ InsertThrows(r) \/ ReadTokens(r)
      PROVE  Kept
  BY <1>5, <1>7 DEF SweepThrows, InsertThrows, ReadTokens
<1>8. ASSUME NEW r \in Requests, FindTenant(r)
      PROVE  Kept
  <2>1. pc[r] = "claiming" /\ UNCHANGED tokenVars /\ spent' = spent
    BY <1>8 DEF FindTenant
  <2>2. CASE pc' = [pc EXCEPT ![r] = "found"] /\ UNCHANGED tok
    BY <1>0, <2>1, <2>2
  <2> QED  BY <1>5, <1>8, <2>1, <2>2 DEF FindTenant
<1>9. ASSUME NEW r \in Requests, ConsumeToken(r)
      PROVE  Kept
  <2> DEFINE j == tok[r]
  <2>1. /\ pc[r] = "paired" /\ j \in Tokens /\ UNCHANGED <<pairs, spent>> /\ Done(r)
        /\ token' = [token EXCEPT ![j] = StateAfterUse(j)]
    BY <1>0, <1>9 DEF ConsumeToken
  <2>2. token'[j] \in {"consumed", "gone"} /\ (k # j => token'[k] = token[k])
    BY <1>0, <2>1 DEF StateAfterUse
  <2>3. /\ pc'[r] = "idle" /\ \A q \in Requests : q # r => pc'[q] = pc[q] /\ tok'[q] = tok[q]
    BY <1>0, <2>1, DoneIsLocal
  <2>4. LetIn(k)' = LetIn(k) /\ Claiming(k)' \subseteq Claiming(k)
    BY <2>1, <2>3
  <2>5. k # j => Paired(k) \subseteq Paired(k)'
    BY <2>3
  <2> QED  BY <2>1, <2>2, <2>4, <2>5
<1>10. ASSUME NEW r \in Requests, RequestFails(r)
       PROVE  Kept
  <2>1. Done(r) /\ spent' = spent + 1 /\ UNCHANGED tokenVars
    BY <1>10 DEF RequestFails
  <2>2. /\ pc'[r] = "idle" /\ \A q \in Requests : q # r => pc'[q] = pc[q] /\ tok'[q] = tok[q]
    BY <1>0, <2>1, DoneIsLocal
  <2> QED  BY <2>1, <2>2
<1>11. ASSUME AdmsCrash
       PROVE  Kept
  BY <1>11 DEF AdmsCrash
<1>12. Kept
  BY <1>2, <1>3, <1>4, <1>6, <1>7, <1>8, <1>9, <1>10, <1>11 DEF Next, Resolve
<1> QED  BY <1>0, <1>12, CountStays

\* A request that reads k as the only valid token joins those that claim: with the paired
\* ones they are still requests.
LEMMA ReadCounts ==
    ASSUME IsFiniteSet(Requests), IInv, TypeOK', ClaimsAreCounted, NEW k \in Tokens,
           NEW r \in Requests, ReadTokens(r), ~Refused
    PROVE  LetInOf(k)'
<1> USE DEF TypeOK, LetIn, Claiming, Paired
<1>0. TypeOK /\ LetInOf(k)
  BY DEF IInv, ClaimsAreCounted
<1>1. /\ pc[r] = "sweeping" /\ UNCHANGED <<token, pairs, spent>>
      /\ tok' = [tok EXCEPT ![r] = FirstToken] /\ pc' = [pc EXCEPT ![r] = "claiming"]
  BY DEF ReadTokens, tokenVars
<1>2. FirstToken \in Tokens /\ token[FirstToken] = "valid"
  BY <1>0, FirstTokenIsValid
<1>3. LetIn(k)' = LetIn(k) /\ Paired(k)' = Paired(k)
  BY <1>0, <1>1
<1>4. CASE k # FirstToken
  <2>1. Claiming(k)' \subseteq Claiming(k)
    BY <1>0, <1>1, <1>4
  <2> QED  BY <1>0, <1>1, <1>3, <2>1, CountStays
<1>5. CASE k = FirstToken
  <2> DEFINE n == Cardinality(LetIn(k))
             cc == Cardinality(Claiming(k)')
             p == Cardinality(Paired(k))
  <2>1. /\ Claiming(k)' \subseteq Requests /\ Paired(k) \subseteq Requests
        /\ Claiming(k)' \cap Paired(k) = {}
    BY <1>0, <1>1
  <2>2. /\ cc \in Nat /\ p \in Nat /\ cc + p <= Cardinality(Requests)
        /\ Cardinality(Requests) \in Nat
    BY <2>1, RequestsCount
  <2>3. n \in Nat /\ n <= MaxLetIn(spent) + p
    BY <1>0, <1>2, <1>5, FS_CardinalityType DEF LetInOf
  <2>4. MaxLetIn(spent) \in Nat /\ MaxLetIn(spent + 1) = MaxLetIn(spent) + Cardinality(Requests)
    BY <1>0, LetInGrows
  <2> HIDE DEF n, cc, p
  <2>5. n + cc <= MaxLetIn(spent + 1)
    BY <2>2, <2>3, <2>4
  <2>6. /\ IsFiniteSet(LetIn(k)')
        /\ Cardinality(LetIn(k)') + Cardinality(Claiming(k)') <= MaxLetIn(spent' + 1)
        /\ token'[k] \in {"unissued", "valid"} =>
               Cardinality(LetIn(k)') <= MaxLetIn(spent') + Cardinality(Paired(k)')
    <3> HIDE DEF LetIn, Claiming, Paired
    <3> QED  BY <1>0, <1>1, <1>3, <2>3, <2>5 DEF n, cc, p, LetInOf
  <2> QED  BY <2>6 DEF LetInOf, MaxLetIn
<1> QED  BY <1>4, <1>5

\* A request that lets a device in no longer claims, and is paired until it consumes.
LEMMA InsertCounts ==
    ASSUME IsFiniteSet(Requests), IInv, TypeOK', ClaimsAreCounted, NEW k \in Tokens,
           NEW r \in Requests, InsertDevice(r)
    PROVE  LetInOf(k)'
<1> USE DEF TypeOK, LetIn, Claiming, Paired
<1>0. TypeOK /\ LetInOf(k)
  BY DEF IInv, ClaimsAreCounted
<1>1. /\ pc[r] = "found" /\ UNCHANGED <<token, tok, spent>> /\ tok[r] \in Tokens
      /\ pairs' = pairs \cup {<<tok[r], sn[r]>>} /\ pc' = [pc EXCEPT ![r] = "paired"]
  BY <1>0 DEF InsertDevice
<1>2. CASE k # tok[r]
  <2>1. LetIn(k)' = LetIn(k) /\ Claiming(k)' \subseteq Claiming(k) /\ Paired(k) \subseteq Paired(k)'
    BY <1>0, <1>1, <1>2
  <2> QED  BY <1>0, <1>1, <2>1, CountStays
<1>3. CASE k = tok[r]
  <2> DEFINE n == Cardinality(LetIn(k))
             nn == Cardinality(LetIn(k)')
             c == Cardinality(Claiming(k))
             cc == Cardinality(Claiming(k)')
             p == Cardinality(Paired(k))
             pp == Cardinality(Paired(k)')
  <2>1. /\ LetIn(k)' \subseteq LetIn(k) \cup {sn[r]}
        /\ Claiming(k)' = Claiming(k) \ {r} /\ r \in Claiming(k)
        /\ Paired(k)' = Paired(k) \cup {r} /\ r \notin Paired(k)
    BY <1>0, <1>1, <1>3
  <2>2. Claiming(k) \subseteq Requests /\ Paired(k) \subseteq Requests
    OBVIOUS
  <2>3. /\ IsFiniteSet(LetIn(k)) /\ n + c <= MaxLetIn(spent + 1)
        /\ token[k] \in {"unissued", "valid"} => n <= MaxLetIn(spent) + p
    BY <1>0 DEF LetInOf
  <2>4. MaxLetIn(spent) \in Nat /\ MaxLetIn(spent + 1) \in Nat
    BY <1>0, LetInGrows
  <2> HIDE DEF LetIn, Claiming, Paired, n, nn, c, cc, p, pp
  <2>5. /\ IsFiniteSet(LetIn(k)') /\ n \in Nat /\ nn \in Nat /\ nn <= n + 1
    <3>1. /\ IsFiniteSet(LetIn(k) \cup {sn[r]})
          /\ Cardinality(LetIn(k) \cup {sn[r]}) <= n + 1 /\ n \in Nat
      <4>1. n \in Nat
        BY <2>3, FS_CardinalityType DEF n
      <4>2. IsFiniteSet(LetIn(k) \cup {sn[r]})
        BY <2>3, FS_AddElement
      <4>3. Cardinality(LetIn(k) \cup {sn[r]}) \in {n, n + 1}
        BY <2>3, FS_AddElement DEF n
      <4> QED  BY <4>1, <4>2, <4>3
    <3>2. /\ IsFiniteSet(LetIn(k)') /\ nn \in Nat
          /\ nn <= Cardinality(LetIn(k) \cup {sn[r]})
      BY <2>1, <3>1, FS_Subset, FS_CardinalityType DEF nn
    <3>3. Cardinality(LetIn(k) \cup {sn[r]}) \in Nat
      BY <3>1, FS_CardinalityType
    <3> QED  BY <3>1, <3>2, <3>3
  <2>6. c \in Nat /\ cc \in Nat /\ cc = c - 1
    BY <2>1, <2>2, FS_Subset, FS_RemoveElement, FS_CardinalityType
       DEF c, cc
  <2>7. p \in Nat /\ pp \in Nat /\ pp = p + 1
    BY <2>1, <2>2, FS_Subset, FS_AddElement, FS_CardinalityType
       DEF p, pp
  <2>8. nn + cc <= MaxLetIn(spent + 1)
    BY <2>3, <2>4, <2>5, <2>6
  <2>9. token[k] \in {"unissued", "valid"} => nn <= MaxLetIn(spent) + pp
    BY <2>3, <2>4, <2>5, <2>7
  <2>10. /\ IsFiniteSet(LetIn(k)')
         /\ Cardinality(LetIn(k)') + Cardinality(Claiming(k)') <= MaxLetIn(spent' + 1)
         /\ token'[k] \in {"unissued", "valid"} =>
                Cardinality(LetIn(k)') <= MaxLetIn(spent') + Cardinality(Paired(k)')
    BY <1>1, <2>5, <2>8, <2>9 DEF nn, cc, pp
  <2> QED  BY <2>10 DEF LetInOf, MaxLetIn, LetIn, Claiming, Paired
<1> QED  BY <1>2, <1>3

\* router.ts:125-141 as it is, with overlapping requests, crashes and failed statements:
\* the devices one token lets in are at most the requests that may be open at once, and as
\* many again for each crash or failed statement.
THEOREM TokensLetInFew ==
    ASSUME IsFiniteSet(Requests)
    PROVE  Spec => []TokenPairsFew
<1>1. Init => ClaimsAreCounted
  <2> SUFFICES ASSUME Init, NEW k \in Tokens
               PROVE  LetInOf(k)
    BY DEF ClaimsAreCounted
  <2>1. LetIn(k) = {} /\ Claiming(k) = {} /\ Paired(k) = {} /\ spent = 0
    BY DEF Init, LetIn, Claiming, Paired
  <2>2. MaxLetIn(0) \in Nat /\ MaxLetIn(0 + 1) \in Nat
    BY LetInGrows
  <2> QED  BY <2>1, <2>2, FS_EmptySet DEF LetInOf
<1>2. IInv /\ TypeOK' /\ ClaimsAreCounted /\ [Next]_vars => ClaimsAreCounted'
  <2> SUFFICES ASSUME IInv, TypeOK', ClaimsAreCounted, [Next]_vars, NEW k \in Tokens
               PROVE  LetInOf(k)'
    BY DEF ClaimsAreCounted
  <2> QED  BY CountsMostlyStay, ReadCounts, InsertCounts
<1>3. IInv /\ ClaimsAreCounted => TokenPairsFew
  <2> SUFFICES ASSUME IInv, ClaimsAreCounted, NEW k \in Tokens
               PROVE  Cardinality(LetIn(k)) <= MaxLetIn(spent + 1)
    BY DEF TokenPairsFew
  <2> DEFINE n == Cardinality(LetIn(k))
             c == Cardinality(Claiming(k))
  <2>1. IsFiniteSet(LetIn(k)) /\ n + c <= MaxLetIn(spent + 1)
    BY DEF ClaimsAreCounted, LetInOf
  <2>2. n \in Nat /\ c \in Nat
    BY <2>1, RequestsCount, FS_CardinalityType DEF Claiming
  <2>3. MaxLetIn(spent + 1) \in Nat
    BY LetInGrows DEF IInv, TypeOK
  <2> HIDE DEF n, c
  <2>4. n <= MaxLetIn(spent + 1)
    BY <2>1, <2>2, <2>3
  <2> QED  BY <2>4 DEF n
<1>4. IInv => TypeOK
  BY DEF IInv
<1> QED  BY <1>1, <1>2, <1>3, <1>4, Invariance, PTL DEF Spec

-----------------------------------------------------------------------------
(* RecordForms                                                             *)

\* A form that holds a copy holds every field; unless it was emptied, a form holds what
\* its operator means.
DraftsAreMeant ==
    \A t \in Tabs :
        /\ Form.holds # "edits" => draft[t] \in Record
        /\ t \notin blanked => draft[t] = meant[t]

\* A save sends what was meant, an update is of a row, and has read it if it is to.
CallIsSound(c) ==
    /\ c \in SaveCall
    /\ Form.holds # "edits" => c.sent \in Record
    /\ ~IsList => c.op = "update" /\ c.row = Main
    /\ c.op = "update" => c.row \in Rows
    /\ c.stage = "read" => c.before \in Record
    /\ form # "integration" /\ (c.meant # Null \/ ~IsList) => c.sent = c.meant
CallsAreSound == \A t \in Tabs : call[t] # Null => CallIsSound(call[t])

\* A page that shows one record has it, and its form is about nothing else.
OneRecord ==
    ~IsList => store[Main] \in Record /\ blanked = {} /\ \A t \in Tabs : dialog[t] = Main

FormsInv ==
    /\ FormsTypeOK
    /\ DraftsAreMeant
    /\ CallsAreSound
    /\ OneRecord
    /\ TokenIsKept

-----------------------------------------------------------------------------
(* Forms and records                                                       *)

\* How the seven forms differ.
LEMMA FormFacts ==
    ASSUME form \in Forms
    PROVE  /\ Form.holds = "edits" <=> form \in {"member", "tenant"}
           /\ Form.holds = "latest" <=> form = "shift"
           /\ Form.holds \in {"edits", "row", "latest"}
           /\ form = "integration" => Form.fields = {"endpoint", "token"}
           /\ form = "member" => Form.fields = {"name", "card"}
           /\ form \in {"tenant", "integration", "shift", "modalities"} <=> ~ReadsFirst
<1>1. form \in {"member", "tenant", "integration", "shift", "modalities", "group", "location"}
  BY RecordFormsAssumption
<1>2. CASE form = "member"
  <2>1. Form = MemberForm
    BY <1>2 DEF Form
  <2> QED  BY <1>2, <2>1 DEF MemberForm, ReadsFirst
<1>3. CASE form = "tenant"
  <2>1. Form = TenantForm
    BY <1>3 DEF Form
  <2> QED  BY <1>3, <2>1 DEF TenantForm, ReadsFirst
<1>4. CASE form = "integration"
  <2>1. Form = IntegrationForm
    BY <1>4 DEF Form
  <2> QED  BY <1>4, <2>1 DEF IntegrationForm, ReadsFirst
<1>5. CASE form = "shift"
  <2>1. Form = ShiftForm
    BY <1>5 DEF Form
  <2> QED  BY <1>5, <2>1 DEF ShiftForm, ReadsFirst
<1>6. CASE form = "modalities"
  <2>1. Form = ModalitiesForm
    BY <1>6 DEF Form
  <2> QED  BY <1>6, <2>1 DEF ModalitiesForm, ReadsFirst
<1>7. CASE form = "group"
  <2>1. Form = GroupForm
    BY <1>7 DEF Form
  <2> QED  BY <1>7, <2>1 DEF GroupForm, ReadsFirst
<1>8. CASE form = "location"
  <2>1. Form = LocationForm
    BY <1>8 DEF Form
  <2> QED  BY <1>8, <2>1 DEF LocationForm, ReadsFirst
<1> QED  BY <1>1, <1>2, <1>3, <1>4, <1>5, <1>6, <1>7, <1>8

\* A behaviour stays with its form.
LEMMA FormStays ==
    ASSUME form' = form
    PROVE  /\ Form' = Form /\ IsList' = IsList /\ ReadsFirst' = ReadsFirst
           /\ Record' = Record /\ Edits' = Edits /\ SaveCall' = SaveCall
BY DEF Form, IsList, ReadsFirst, Record, Edits, SaveCall

\* What a form holds, of a record or of some of its fields.
LEMMA RecordsAreEdits ==
    /\ Record \subseteq Edits
    /\ Blanks \in Record
    /\ Nothing \in Edits
    /\ \A d \in Edits : DOMAIN d \subseteq Form.fields /\ \A f \in DOMAIN d : d[f] \in Contents
<1>1. Record \subseteq Edits
  BY DEF Record, Edits
<1>2. Blanks \in Record
  BY DEF Blanks, Record, Contents
<1>3. Nothing \in [{} -> Contents]
  BY DEF Nothing
<1>4. Nothing \in Edits
  BY <1>3 DEF Edits
<1>5. \A d \in Edits : DOMAIN d \subseteq Form.fields /\ \A f \in DOMAIN d : d[f] \in Contents
  BY DEF Edits
<1> QED  BY <1>1, <1>2, <1>4, <1>5

\* Edits laid over edits are edits, over a record a record.
LEMMA OverType ==
    ASSUME NEW new \in Edits, NEW old \in Edits
    PROVE  /\ Over(new, old) \in Edits
           /\ old \in Record => Over(new, old) \in Record
           /\ DOMAIN Over(new, old) = DOMAIN new \cup DOMAIN old
           /\ \A f \in DOMAIN new : Over(new, old)[f] = new[f]
           /\ \A f \in DOMAIN old \ DOMAIN new : Over(new, old)[f] = old[f]
<1>1. /\ DOMAIN new \subseteq Form.fields /\ \A f \in DOMAIN new : new[f] \in Contents
      /\ DOMAIN old \subseteq Form.fields /\ \A f \in DOMAIN old : old[f] \in Contents
  BY RecordsAreEdits
<1>2. Over(new, old) \in [DOMAIN new \cup DOMAIN old -> Contents]
  BY <1>1 DEF Over
<1>3. Over(new, old) \in Edits
  BY <1>1, <1>2 DEF Edits
<1>4. old \in Record => Over(new, old) \in Record
  <2>1. old \in Record => DOMAIN new \cup DOMAIN old = Form.fields
    BY <1>1 DEF Record
  <2> QED  BY <1>2, <2>1 DEF Record
<1>5. /\ DOMAIN Over(new, old) = DOMAIN new \cup DOMAIN old
      /\ \A f \in DOMAIN new : Over(new, old)[f] = new[f]
      /\ \A f \in DOMAIN old \ DOMAIN new : Over(new, old)[f] = old[f]
  BY DEF Over
<1> QED  BY <1>3, <1>4, <1>5

\* A record with one field replaced.
LEMMA ReplacedField ==
    ASSUME NEW r \in Record, NEW x \in Contents
    PROVE  [r EXCEPT !.token = x] \in Record /\ [r EXCEPT !.card = x] \in Record
BY DEF Record

\* What a query selects of a record is one.
LEMMA SelectedType ==
    ASSUME NEW r \in Record \cup {Gone}
    PROVE  Selected(r) \in Record \cup {Gone}
BY ReplacedField DEF Selected, getEnrollmentStatus, Contents

\* What fills a form.
LEMMA FilledType ==
    ASSUME form \in Forms, NEW r \in Record
    PROVE  Filled(r) \in Edits /\ (Form.holds # "edits" => Filled(r) \in Record)
BY ReplacedField, RecordsAreEdits DEF Filled, Contents

\* What the handlers make of what they are sent.
LEMMA SentType ==
    ASSUME form \in Forms, NEW t \in Tabs, NEW d \in Edits, Form.holds # "edits" => d \in Record
    PROVE  /\ Sent(t, d) \in Edits
           /\ Form.holds # "edits" => Sent(t, d) \in Record
           /\ form # "integration" => Sent(t, d) = d
BY RecordsAreEdits, FormFacts DEF Sent, submitIntegration, EditsAlone

-----------------------------------------------------------------------------
(* One tab's form, one tab's save                                          *)

\* The form of a tab holds something else.
LEMMA DraftFilled ==
    ASSUME FormsInv, form' = form, NEW t \in Tabs, NEW d \in Edits, NEW m \in Edits,
           draft' = [draft EXCEPT ![t] = d], meant' = [meant EXCEPT ![t] = m],
           Form.holds # "edits" => d \in Record,
           t \in blanked' \/ d = m, blanked \subseteq blanked' \cup {t}
    PROVE  /\ draft' \in [Tabs -> Edits'] /\ meant' \in [Tabs -> Edits']
           /\ DraftsAreMeant'
<1>1. draft \in [Tabs -> Edits] /\ meant \in [Tabs -> Edits]
  BY DEF FormsInv, FormsTypeOK
<1>2. \A u \in Tabs : draft'[u] = (IF u = t THEN d ELSE draft[u])
                      /\ meant'[u] = (IF u = t THEN m ELSE meant[u])
  BY <1>1
<1>3. draft' \in [Tabs -> Edits] /\ meant' \in [Tabs -> Edits]
  BY <1>1
<1>4. DraftsAreMeant'
  BY <1>2, FormStays DEF FormsInv, DraftsAreMeant
<1> QED  BY <1>3, <1>4, FormStays

\* The forms are let alone.
LEMMA DraftsStay ==
    ASSUME FormsInv, form' = form, UNCHANGED <<draft, meant, blanked>>
    PROVE  /\ draft' \in [Tabs -> Edits'] /\ meant' \in [Tabs -> Edits']
           /\ DraftsAreMeant'
<1>1. draft' \in [Tabs -> Edits] /\ meant' \in [Tabs -> Edits]
  BY DEF FormsInv, FormsTypeOK
<1>2. DraftsAreMeant'
  BY FormStays DEF FormsInv, DraftsAreMeant
<1> QED  BY <1>1, <1>2, FormStays

\* A sound save stays so as long as its form is the same.
LEMMA SoundStays ==
    ASSUME form' = form, NEW c, CallIsSound(c)
    PROVE  CallIsSound(c)'
BY FormStays DEF CallIsSound

\* A tab sends a sound save, or has none any more.
LEMMA CallReplaced ==
    ASSUME FormsInv, form' = form, NEW t \in Tabs, NEW c, c = Null \/ CallIsSound(c),
           call' = [call EXCEPT ![t] = c]
    PROVE  call' \in [Tabs -> SaveCall' \cup {Null}] /\ CallsAreSound'
<1>1. call \in [Tabs -> SaveCall \cup {Null}]
  BY DEF FormsInv, FormsTypeOK
<1>2. c \in SaveCall \cup {Null}
  BY DEF CallIsSound
<1>3. call' \in [Tabs -> SaveCall' \cup {Null}]
  <2>1. call' \in [Tabs -> SaveCall \cup {Null}]
    BY <1>1, <1>2
  <2> QED  BY <2>1, FormStays
<1>4. \A u \in Tabs : call'[u] = IF u = t THEN c ELSE call[u]
  BY <1>1
<1>5. \A x : CallIsSound(x) => CallIsSound(x)'
  BY SoundStays
<1>6. \A u \in Tabs : \A x : x = call'[u] /\ x # Null => CallIsSound(x)'
  BY <1>4, <1>5 DEF FormsInv, CallsAreSound
<1>7. CallsAreSound'
  BY <1>6 DEF CallsAreSound, CallIsSound
<1> QED  BY <1>3, <1>7

\* The saves are let alone.
LEMMA CallsStay ==
    ASSUME FormsInv, form' = form, UNCHANGED call
    PROVE  call' \in [Tabs -> SaveCall' \cup {Null}] /\ CallsAreSound'
<1>1. call' \in [Tabs -> SaveCall \cup {Null}]
  BY DEF FormsInv, FormsTypeOK
<1>2. CallsAreSound'
  BY FormStays DEF FormsInv, CallsAreSound, CallIsSound
<1> QED  BY <1>1, <1>2, FormStays

\* A sound save stays so when it is written or fails.
LEMMA Staged ==
    ASSUME NEW c, CallIsSound(c), NEW s \in {"sent", "done", "failed"}
    PROVE  CallIsSound([c EXCEPT !.stage = s])
<1> DEFINE d == [c EXCEPT !.stage = s]
<1>1. d \in SaveCall /\ d.stage = s
  BY DEF CallIsSound, SaveCall
<1>2. d.sent = c.sent /\ d.op = c.op /\ d.row = c.row /\ d.meant = c.meant
  BY DEF CallIsSound, SaveCall
<1> HIDE DEF d
<1>3. CallIsSound(d)
  BY <1>1, <1>2 DEF CallIsSound
<1> QED  BY <1>3 DEF d

\* The records and the rest of the tables.
LEMMA RecordsStay ==
    ASSUME FormsInv, form' = form, UNCHANGED <<store, view>>
    PROVE  /\ store' \in [Rows -> Record' \cup {Gone}]
           /\ view' \in [Tabs -> [Rows -> Record' \cup {Gone}]]
           /\ ~IsList => store'[Main] \in Record'
BY FormStays DEF FormsInv, FormsTypeOK, OneRecord

\* The token stays when the records do.
LEMMA TokenStays ==
    ASSUME FormsInv, UNCHANGED <<form, store, switchedOff>>
    PROVE  TokenIsKept'
BY DEF FormsInv, TokenIsKept

\* The parts of the invariant an action has to keep.
LEMMA Together ==
    ASSUME form' = form, form \in Forms,
           /\ store' \in [Rows -> Record' \cup {Gone}]
           /\ view' \in [Tabs -> [Rows -> Record' \cup {Gone}]],
           due' \subseteq Tabs /\ blanked' \subseteq Tabs /\ lastWriter' \in Tabs \cup {Null},
           dialog' \in [Tabs -> Rows \cup {"add", "closed"}],
           draft' \in [Tabs -> Edits'] /\ meant' \in [Tabs -> Edits'],
           call' \in [Tabs -> SaveCall' \cup {Null}],
           switchedOff' \in BOOLEAN /\ faults' \in 0 .. MaxFaults /\ acts' \in 0 .. MaxActs[form],
           DraftsAreMeant', CallsAreSound', TokenIsKept',
           ~IsList => /\ store'[Main] \in Record' /\ blanked' = {}
                      /\ \A t \in Tabs : dialog'[t] = Main
    PROVE  FormsInv'
<1>1. FormsTypeOK'
  BY DEF FormsTypeOK
<1>2. OneRecord'
  BY FormStays DEF OneRecord
<1> QED  BY <1>1, <1>2 DEF FormsInv

-----------------------------------------------------------------------------
(* Every action keeps the invariant                                        *)

\* The invariant of the forms holds at first.
LEMMA FormsInvInit == FormsInit => FormsInv
<1> SUFFICES ASSUME FormsInit PROVE FormsInv
  OBVIOUS
<1>1. form \in Forms
  BY DEF FormsInit
<1> DEFINE At0(r) == [f \in Form.fields |-> At[r]]
<1>2. \A r \in Rows : At0(r) \in Record
  BY RecordFormsAssumption DEF Record, Contents
<1> HIDE DEF At0
<1>3. /\ store \in [Rows -> Record \cup {Gone}]
      /\ store[Main] = At0(Main) /\ store[Main] \in Record
  <2>1. PICK listed \in SUBSET (Rows \ {Main}) :
          store = [r \in Rows |-> IF r \in {Main} \cup listed THEN At0(r) ELSE Gone]
    BY DEF FormsInit, At0
  <2>2. Main \in Rows
    BY RecordFormsAssumption
  <2> QED  BY <1>2, <2>1, <2>2
<1>4. Queried \in [Rows -> Record \cup {Gone}]
  BY <1>3, SelectedType DEF Queried
<1>5. \A t \in Tabs : draft[t] \in Edits /\ (Form.holds # "edits" => draft[t] \in Record)
  BY <1>1, <1>3, FilledType, RecordsAreEdits DEF FormsInit
<1>6. draft \in [Tabs -> Edits] /\ meant = draft
  BY <1>5 DEF FormsInit
<1>7. /\ dialog \in [Tabs -> Rows \cup {"add", "closed"}]
      /\ ~IsList => \A t \in Tabs : dialog[t] = Main
  BY RecordFormsAssumption DEF FormsInit
<1>8. faults \in 0 .. MaxFaults /\ acts \in 0 .. MaxActs[form]
  BY <1>1, RecordFormsAssumption DEF FormsInit
<1>9. FormsTypeOK
  BY <1>1, <1>3, <1>4, <1>6, <1>7, <1>8 DEF FormsInit, FormsTypeOK
<1>10. DraftsAreMeant /\ CallsAreSound
  BY <1>5, <1>6 DEF FormsInit, DraftsAreMeant, CallsAreSound
<1>11. OneRecord
  BY <1>3, <1>7 DEF FormsInit, OneRecord
<1>12. TokenIsKept
  <2> SUFFICES ASSUME form = "integration" PROVE store[Main].token # Blank
    BY DEF TokenIsKept
  <2>1. "token" \in Form.fields
    BY <1>1, FormFacts
  <2> QED  BY <1>3, <2>1, RecordFormsAssumption DEF At0
<1> QED  BY <1>9, <1>10, <1>11, <1>12 DEF FormsInv

\* What an action that lets the records alone has to keep.
LEMMA RecordsAlone ==
    ASSUME FormsInv, UNCHANGED <<form, store, view, switchedOff>>,
           due' \subseteq Tabs /\ blanked' \subseteq Tabs /\ lastWriter' \in Tabs \cup {Null},
           dialog' \in [Tabs -> Rows \cup {"add", "closed"}],
           draft' \in [Tabs -> Edits'] /\ meant' \in [Tabs -> Edits'],
           call' \in [Tabs -> SaveCall' \cup {Null}],
           faults' \in 0 .. MaxFaults /\ acts' \in 0 .. MaxActs[form],
           DraftsAreMeant', CallsAreSound',
           ~IsList => blanked' = {} /\ \A t \in Tabs : dialog'[t] = Main
    PROVE  FormsInv'
<1>1. /\ store' \in [Rows -> Record' \cup {Gone}]
      /\ view' \in [Tabs -> [Rows -> Record' \cup {Gone}]]
      /\ ~IsList => store'[Main] \in Record'
  BY RecordsStay
<1>2. form \in Forms /\ switchedOff' \in BOOLEAN
  BY DEF FormsInv, FormsTypeOK
<1> QED  BY <1>1, <1>2, TokenStays, Together

\* The parts of the invariant that most actions need.
LEMMA PlainTypes ==
    ASSUME FormsInv
    PROVE  /\ form \in Forms
           /\ due \subseteq Tabs /\ blanked \subseteq Tabs /\ lastWriter \in Tabs \cup {Null}
           /\ dialog \in [Tabs -> Rows \cup {"add", "closed"}]
           /\ switchedOff \in BOOLEAN
           /\ faults \in 0 .. MaxFaults /\ acts \in 0 .. MaxActs[form]
           /\ Act => acts' \in 0 .. MaxActs[form]
           /\ ~IsList => blanked = {} /\ \A t \in Tabs : dialog[t] = Main
<1>1. /\ form \in Forms
      /\ due \subseteq Tabs /\ blanked \subseteq Tabs /\ lastWriter \in Tabs \cup {Null}
      /\ dialog \in [Tabs -> Rows \cup {"add", "closed"}]
      /\ switchedOff \in BOOLEAN
      /\ faults \in 0 .. MaxFaults /\ acts \in 0 .. MaxActs[form]
  BY DEF FormsInv, FormsTypeOK
<1>2. Act => acts' \in 0 .. MaxActs[form]
  BY <1>1, RecordFormsAssumption DEF Act
<1>3. ~IsList => blanked = {} /\ \A t \in Tabs : dialog[t] = Main
  BY DEF FormsInv, OneRecord
<1> QED  BY <1>1, <1>2, <1>3

\* Data arrives.
LEMMA FetchKeeps == ASSUME FormsInv, NEW t \in Tabs, Fetch(t) PROVE FormsInv'
<1> USE PlainTypes
<1>1. form' = form /\ UNCHANGED <<store, dialog, call, blanked, lastWriter, switchedOff, faults, acts>>
  BY DEF Fetch
<1>2. Queried \in [Rows -> Record \cup {Gone}]
  BY SelectedType DEF Queried, FormsInv, FormsTypeOK
<1>3. view' \in [Tabs -> [Rows -> Record' \cup {Gone}]]
  <2>1. view' \in [Tabs -> [Rows -> Record \cup {Gone}]]
    BY <1>2 DEF Fetch, FormsInv, FormsTypeOK
  <2> QED  BY <1>1, <2>1, FormStays
<1>4. /\ store' \in [Rows -> Record' \cup {Gone}]
      /\ ~IsList => store'[Main] \in Record'
  BY <1>1, FormStays DEF FormsInv, FormsTypeOK, OneRecord
<1>5. draft' \in [Tabs -> Edits'] /\ meant' \in [Tabs -> Edits'] /\ DraftsAreMeant'
  <2>1. CASE Form.holds = "latest" /\ Queried # view[t]
    <3>1. form = "shift" /\ ~IsList
      BY <2>1, FormFacts DEF IsList, Lists
    <3>2. Queried[Main] = store[Main] /\ store[Main] \in Record
      BY <3>1, RecordFormsAssumption DEF Queried, Selected, FormsInv, OneRecord
    <3>3. Queried[Main] \in Edits /\ Queried[Main] \in Record
      BY <3>2, RecordsAreEdits
    <3>4. /\ draft' = [draft EXCEPT ![t] = Queried[Main]]
          /\ meant' = [meant EXCEPT ![t] = Queried[Main]]
      BY <2>1 DEF Fetch
    <3> QED  BY <1>1, <3>3, <3>4, DraftFilled
  <2>2. CASE ~(Form.holds = "latest" /\ Queried # view[t])
    BY <1>1, <2>2, DraftsStay DEF Fetch
  <2> QED  BY <2>1, <2>2
<1>6. call' \in [Tabs -> SaveCall' \cup {Null}] /\ CallsAreSound'
  BY <1>1, CallsStay
<1>7. TokenIsKept' /\ due' \subseteq Tabs
  BY <1>1, TokenStays DEF Fetch
<1> QED  BY <1>1, <1>3, <1>4, <1>5, <1>6, <1>7, Together

\* A dialog is opened or closed.
LEMMA DialogKeeps ==
    ASSUME FormsInv, NEW t \in Tabs,
           OpenAdd(t) \/ Close(t) \/ \E r \in Rows : OpenEdit(t, r)
    PROVE  FormsInv'
<1> USE PlainTypes
<1>1. IsList /\ Form.holds # "edits" /\ form # "integration"
  BY FormFacts DEF OpenAdd, Close, OpenEdit, IsList, Lists
<1>2. UNCHANGED <<form, store, view, due, call, lastWriter, switchedOff, faults, acts>>
  BY DEF OpenAdd, Close, OpenEdit, pageVars, formVars, ghostVars
<1>3. call' \in [Tabs -> SaveCall' \cup {Null}] /\ CallsAreSound'
  BY <1>2, CallsStay
<1>4. dialog' \in [Tabs -> Rows \cup {"add", "closed"}] /\ blanked' \subseteq Tabs
  BY DEF OpenAdd, Close, OpenEdit, ghostVars
<1>5. draft' \in [Tabs -> Edits'] /\ meant' \in [Tabs -> Edits'] /\ DraftsAreMeant'
  <2>1. CASE OpenAdd(t)
    BY <1>2, <2>1, DraftsStay DEF OpenAdd, ghostVars
  <2>2. CASE Close(t)
    <3>1. draft[t] \in Record /\ draft \in [Tabs -> Edits]
      BY <1>1 DEF FormsInv, DraftsAreMeant, FormsTypeOK
    <3>2. PICK d \in Record : draft' = [draft EXCEPT ![t] = d]
      <4>1. draft = [draft EXCEPT ![t] = draft[t]]
        BY <3>1
      <4> QED  BY <2>2, <3>1, <4>1, RecordsAreEdits DEF Close
    <3>3. d \in Edits /\ meant' = [meant EXCEPT ![t] = d] /\ blanked' = blanked
      BY <2>2, <3>1, <3>2, RecordsAreEdits DEF Close
    <3> QED  BY <1>2, <3>2, <3>3, DraftFilled
  <2>3. ASSUME NEW r \in Rows, OpenEdit(t, r)
        PROVE  draft' \in [Tabs -> Edits'] /\ meant' \in [Tabs -> Edits'] /\ DraftsAreMeant'
    <3>1. view[t][r] \in Record
      BY <2>3 DEF OpenEdit, FormsInv, FormsTypeOK
    <3>2. Filled(view[t][r]) = view[t][r]
      BY <1>1 DEF Filled
    <3>3. /\ draft' = [draft EXCEPT ![t] = view[t][r]] /\ meant' = [meant EXCEPT ![t] = view[t][r]]
          /\ blanked \subseteq blanked' \cup {t}
      BY <2>3, <3>2 DEF OpenEdit, FillsForm
    <3>4. view[t][r] \in Edits
      BY <3>1, RecordsAreEdits
    <3> QED  BY <1>2, <3>1, <3>3, <3>4, DraftFilled
  <2> QED  BY <2>1, <2>2, <2>3
<1> QED  BY <1>1, <1>2, <1>3, <1>4, <1>5, RecordsAlone

\* Edits are discarded.
LEMMA DiscardKeeps == ASSUME FormsInv, NEW t \in Tabs, Discard(t) PROVE FormsInv'
<1> USE PlainTypes
<1>1. UNCHANGED <<form, store, view, due, dialog, call, blanked, lastWriter, switchedOff, faults, acts>>
  BY DEF Discard, pageVars
<1>2. Form.holds = "edits"
  BY DEF Discard
<1>3. draft' \in [Tabs -> Edits'] /\ meant' \in [Tabs -> Edits'] /\ DraftsAreMeant'
  BY <1>1, <1>2, RecordsAreEdits, DraftFilled DEF Discard
<1>4. call' \in [Tabs -> SaveCall' \cup {Null}] /\ CallsAreSound'
  BY <1>1, CallsStay
<1> QED  BY <1>1, <1>3, <1>4, RecordsAlone

\* What was typed is laid over what the form holds and over what is meant.
LEMMA EnteredKeeps ==
    ASSUME FormsInv, form' = form, UNCHANGED blanked, NEW t \in Tabs, NEW f \in Form.fields,
           NEW v \in Contents, Entered(t, f, v)
    PROVE  /\ draft' \in [Tabs -> Edits'] /\ meant' \in [Tabs -> Edits'] /\ DraftsAreMeant'
           /\ draft'[t] \in Edits /\ (Form.holds # "edits" => draft'[t] \in Record)
           /\ meant'[t] \in Edits /\ (t \notin blanked => draft'[t] = meant'[t])
<1> DEFINE new == [x \in {f} |-> v]
           d == Over(new, draft[t])
           m == Over(new, meant[t])
<1>1. new \in Edits
  <2>1. new \in [{f} -> Contents] /\ {f} \in SUBSET Form.fields
    OBVIOUS
  <2> HIDE DEF new
  <2> QED  BY <2>1 DEF Edits
<1>2. /\ draft[t] \in Edits /\ meant[t] \in Edits
      /\ Form.holds # "edits" => draft[t] \in Record
      /\ t \notin blanked => draft[t] = meant[t]
      /\ draft \in [Tabs -> Edits] /\ meant \in [Tabs -> Edits]
  BY DEF FormsInv, FormsTypeOK, DraftsAreMeant
<1>3. draft' = [draft EXCEPT ![t] = d] /\ meant' = [meant EXCEPT ![t] = m]
  BY DEF Entered
<1> HIDE DEF new
<1>4. d \in Edits /\ m \in Edits /\ (Form.holds # "edits" => d \in Record)
  BY <1>1, <1>2, OverType
<1>5. t \in blanked' \/ d = m
  BY <1>2
<1> HIDE DEF d, m
<1>6. draft'[t] = d /\ meant'[t] = m
  BY <1>2, <1>3
<1>7. draft' \in [Tabs -> Edits'] /\ meant' \in [Tabs -> Edits'] /\ DraftsAreMeant'
  BY <1>3, <1>4, <1>5, DraftFilled
<1> QED  BY <1>4, <1>5, <1>6, <1>7

\* An operator types.
LEMMA TypeKeeps ==
    ASSUME FormsInv, NEW t \in Tabs, NEW f \in Form.fields, NEW v \in Contents, Type(t, f, v)
    PROVE  FormsInv'
<1> USE PlainTypes
<1>1. UNCHANGED <<form, store, view, due, dialog, call, blanked, lastWriter, switchedOff, faults>>
  BY DEF Type, pageVars
<1>2. draft' \in [Tabs -> Edits'] /\ meant' \in [Tabs -> Edits'] /\ DraftsAreMeant'
  BY <1>1, EnteredKeeps DEF Type
<1>3. call' \in [Tabs -> SaveCall' \cup {Null}] /\ CallsAreSound'
  BY <1>1, CallsStay
<1>4. acts' \in 0 .. MaxActs[form]
  BY DEF Type
<1> QED  BY <1>1, <1>2, <1>3, <1>4, RecordsAlone

\* A save that is sent is sound.
LEMMA SubmitKeeps ==
    ASSUME FormsInv, form' = form, NEW t \in Tabs, NEW d \in Edits, dialog[t] # "closed",
           Form.holds # "edits" => d \in Record,
           meant'[t] \in Edits, t \notin blanked => d = meant'[t],
           Submit(t, d)
    PROVE  call' \in [Tabs -> SaveCall' \cup {Null}] /\ CallsAreSound'
<1> DEFINE o == IF dialog[t] = "add" THEN "create" ELSE "update"
           r == IF dialog[t] = "add" THEN Null ELSE dialog[t]
           e == IF t \in blanked THEN Null ELSE meant'[t]
           s == Sent(t, d)
           c == [op |-> o, row |-> r, sent |-> s, before |-> Null, stage |-> "sent",
                 meant |-> e]
<1>1. call' = [call EXCEPT ![t] = c]
  BY DEF Submit
<1>2. s \in Edits /\ (Form.holds # "edits" => s \in Record) /\ (form # "integration" => s = d)
  BY PlainTypes, SentType
<1>3. /\ o \in {"create", "update"} /\ r \in Rows \cup {Null}
      /\ o = "update" => r \in Rows
      /\ ~IsList => o = "update" /\ r = Main
  BY PlainTypes, RecordFormsAssumption
<1>4. /\ e \in Edits \cup {Null}
      /\ form # "integration" /\ (e # Null \/ ~IsList) => s = e
  BY <1>2, PlainTypes
<1> HIDE DEF o, r, e, s
<1>5. c \in SaveCall
  BY <1>2, <1>3, <1>4 DEF SaveCall
<1>6. /\ c.op = o /\ c.row = r /\ c.sent = s /\ c.meant = e /\ c.stage # "read"
  OBVIOUS
<1> HIDE DEF c
<1>7. CallIsSound(c)
  BY <1>2, <1>3, <1>4, <1>5, <1>6 DEF CallIsSound
<1> QED  BY <1>1, <1>7, CallReplaced

\* An operator saves.
LEMMA SaveKeeps == ASSUME FormsInv, NEW t \in Tabs, Save(t) PROVE FormsInv'
<1> USE PlainTypes
<1>1. /\ UNCHANGED <<form, store, view, due, dialog, draft, meant, blanked, lastWriter,
                     switchedOff, faults>>
      /\ dialog[t] # "closed" /\ Act /\ Submit(t, draft[t])
  BY DEF Save, pageVars, formVars, ghostVars
<1>2. /\ draft[t] \in Edits /\ meant'[t] \in Edits
      /\ Form.holds # "edits" => draft[t] \in Record
      /\ t \notin blanked => draft[t] = meant'[t]
  BY <1>1 DEF FormsInv, FormsTypeOK, DraftsAreMeant
<1>3. call' \in [Tabs -> SaveCall' \cup {Null}] /\ CallsAreSound'
  BY <1>1, <1>2, SubmitKeeps
<1>4. draft' \in [Tabs -> Edits'] /\ meant' \in [Tabs -> Edits'] /\ DraftsAreMeant'
  BY <1>1, DraftsStay
<1> QED  BY <1>1, <1>3, <1>4, RecordsAlone

\* An operator turns a switch.
LEMMA ToggleKeeps ==
    ASSUME FormsInv, NEW t \in Tabs, NEW f \in Form.fields, NEW v \in Contents, toggle(t, f, v)
    PROVE  FormsInv'
<1> USE PlainTypes
<1>1. /\ UNCHANGED <<form, store, view, due, dialog, blanked, lastWriter, switchedOff, faults>>
      /\ Act /\ Entered(t, f, v) /\ Submit(t, draft'[t])
  BY DEF toggle, pageVars
<1>2. dialog[t] # "closed"
  BY <1>1 DEF Entered
<1>3. /\ draft' \in [Tabs -> Edits'] /\ meant' \in [Tabs -> Edits'] /\ DraftsAreMeant'
      /\ draft'[t] \in Edits /\ (Form.holds # "edits" => draft'[t] \in Record)
      /\ meant'[t] \in Edits /\ (t \notin blanked => draft'[t] = meant'[t])
  BY <1>1, EnteredKeeps
<1>4. call' \in [Tabs -> SaveCall' \cup {Null}] /\ CallsAreSound'
  BY <1>1, <1>2, <1>3, SubmitKeeps
<1> QED  BY <1>1, <1>3, <1>4, RecordsAlone

\* A row is deleted.
LEMMA DelKeeps == ASSUME FormsInv, NEW t \in Tabs, NEW r \in Rows, del(t, r) PROVE FormsInv'
<1> USE PlainTypes
<1>1. /\ UNCHANGED <<form, view, dialog, draft, call, meant, blanked, switchedOff>>
      /\ IsList /\ Act /\ due' \subseteq Tabs /\ lastWriter' \in Tabs \cup {Null}
      /\ faults' \in 0 .. MaxFaults
  <2>1. due \subseteq Tabs /\ faults \in 0 .. MaxFaults
    BY DEF FormsInv, FormsTypeOK
  <2>2. MaxFaults \in Nat
    BY RecordFormsAssumption DEF RecordFormsAssumption
  <2> QED  BY <2>1, <2>2 DEF del, formVars, Invalidate
<1>2. /\ store' \in [Rows -> Record' \cup {Gone}]
      /\ view' \in [Tabs -> [Rows -> Record' \cup {Gone}]]
  <2>1. store' \in [Rows -> Record \cup {Gone}]
    BY DEF del, FormsInv, FormsTypeOK
  <2>2. view' \in [Tabs -> [Rows -> Record \cup {Gone}]]
    BY <1>1 DEF FormsInv, FormsTypeOK
  <2> QED  BY <1>1, <2>1, <2>2, FormStays
<1>3. draft' \in [Tabs -> Edits'] /\ meant' \in [Tabs -> Edits'] /\ DraftsAreMeant'
  BY <1>1, DraftsStay
<1>4. call' \in [Tabs -> SaveCall' \cup {Null}] /\ CallsAreSound'
  BY <1>1, CallsStay
<1>5. TokenIsKept'
  BY <1>1 DEF IsList, Lists, TokenIsKept
<1> QED  BY <1>1, <1>2, <1>3, <1>4, <1>5, Together

\* A save moves on.
LEMMA StageKeeps ==
    ASSUME FormsInv, form' = form, NEW t \in Tabs, call[t] # Null,
           NEW s \in {"sent", "done", "failed"}, Stage(t, s)
    PROVE  call' \in [Tabs -> SaveCall' \cup {Null}] /\ CallsAreSound'
<1>1. call' = [call EXCEPT ![t] = [call[t] EXCEPT !.stage = s]]
  BY DEF Stage
<1>2. CallIsSound(call[t])
  BY DEF FormsInv, CallsAreSound
<1>3. CallIsSound([call[t] EXCEPT !.stage = s])
  BY <1>2, Staged
<1> QED  BY <1>1, <1>3, CallReplaced

\* A handler reads the row it is to update.
LEMMA SelectKeeps == ASSUME FormsInv, NEW t \in Tabs, SelectBefore(t) PROVE FormsInv'
<1> USE PlainTypes
<1>1. /\ UNCHANGED <<form, store, view, due, dialog, draft, meant, blanked, lastWriter,
                     switchedOff, faults, acts>>
      /\ call[t] # Null /\ call[t].op = "update"
  BY DEF SelectBefore, pageVars, formVars, ghostVars
<1>2. call' \in [Tabs -> SaveCall' \cup {Null}] /\ CallsAreSound'
  <2>1. CASE store[call[t].row] = Gone
    <3>1. Stage(t, "failed")
      BY <2>1 DEF SelectBefore
    <3> QED  BY <1>1, <3>1, StageKeeps
  <2>2. CASE store[call[t].row] # Gone
    <3> DEFINE c == call[t]
               b == store[c.row]
               d == [c EXCEPT !.before = b, !.stage = "read"]
    <3>1. call' = [call EXCEPT ![t] = d]
      BY <2>2 DEF SelectBefore
    <3>2. CallIsSound(c) /\ c.row \in Rows
      BY <1>1 DEF FormsInv, CallsAreSound, CallIsSound
    <3>3. b \in Record
      BY <2>2, <3>2 DEF FormsInv, FormsTypeOK
    <3> HIDE DEF c, b
    <3>4. d \in SaveCall /\ d.stage = "read" /\ d.before = b
      BY <3>2, <3>3 DEF CallIsSound, SaveCall
    <3>5. d.sent = c.sent /\ d.op = c.op /\ d.row = c.row /\ d.meant = c.meant
      BY <3>2 DEF CallIsSound, SaveCall
    <3> HIDE DEF d
    <3>6. CallIsSound(d)
      BY <3>2, <3>3, <3>4, <3>5 DEF CallIsSound
    <3> QED  BY <1>1, <3>1, <3>6, CallReplaced
  <2> QED  BY <2>1, <2>2
<1>3. draft' \in [Tabs -> Edits'] /\ meant' \in [Tabs -> Edits'] /\ DraftsAreMeant'
  BY <1>1, DraftsStay
<1> QED  BY <1>1, <1>2, <1>3, RecordsAlone

\* A statement fails.
LEMMA FailKeeps == ASSUME FormsInv, NEW t \in Tabs, Fail(t) PROVE FormsInv'
<1> USE PlainTypes
<1>1. /\ UNCHANGED <<form, store, view, due, dialog, draft, meant, blanked, lastWriter,
                     switchedOff, acts>>
      /\ call[t] # Null /\ Stage(t, "failed")
  BY DEF Fail, pageVars, formVars, ghostVars
<1>2. faults' \in 0 .. MaxFaults
  BY RecordFormsAssumption DEF Fail
<1>3. call' \in [Tabs -> SaveCall' \cup {Null}] /\ CallsAreSound'
  BY <1>1, StageKeeps
<1>4. draft' \in [Tabs -> Edits'] /\ meant' \in [Tabs -> Edits'] /\ DraftsAreMeant'
  BY <1>1, DraftsStay
<1> QED  BY <1>1, <1>2, <1>3, <1>4, RecordsAlone

\* What a handler writes is a record.
LEMMA UpdatedType ==
    ASSUME FormsInv, NEW c, CallIsSound(c), c.op = "update", store[c.row] # Gone,
           ReadsFirst => c.stage = "read"
    PROVE  /\ Updated(c) \in Record
           /\ form = "tenant" => Updated(c) = Over(c.sent, store[c.row])
           /\ ReadsFirst => Updated(c) = Over(c.sent, c.before)
           /\ form \in {"shift", "modalities"} => Updated(c) = c.sent
           /\ form = "integration" => Updated(c) = setIntegration(store[c.row], c.sent)
<1>1. c.row \in Rows /\ store[c.row] \in Record /\ c.sent \in Edits
  BY DEF CallIsSound, FormsInv, FormsTypeOK, SaveCall
<1>2. Form.holds # "edits" => c.sent \in Record
  BY DEF CallIsSound
<1>3. ReadsFirst => c.before \in Record
  BY DEF CallIsSound
<1>4. store[c.row] \in Edits /\ (ReadsFirst => c.before \in Edits)
  BY <1>1, <1>3, RecordsAreEdits
<1>5. form \in {"tenant", "integration", "shift", "modalities"} <=> ~ReadsFirst
  BY PlainTypes, FormFacts
<1>6. /\ form = "tenant" => Updated(c) = Over(c.sent, store[c.row])
      /\ ReadsFirst => Updated(c) = Over(c.sent, c.before)
      /\ form \in {"shift", "modalities"} => Updated(c) = c.sent
      /\ form = "integration" => Updated(c) = setIntegration(store[c.row], c.sent)
  BY <1>5 DEF Updated, tenantUpdate, rowUpdate, setShiftConfig, updateModalities
<1>7. form = "integration" => setIntegration(store[c.row], c.sent) \in Record
  <2> SUFFICES ASSUME form = "integration"
               PROVE  setIntegration(store[c.row], c.sent) \in Record
    OBVIOUS
  <2>1. "token" \in Form.fields /\ Form.holds # "edits"
    BY PlainTypes, FormFacts
  <2>2. store[c.row]["token"] \in Contents
    BY <1>1, <2>1 DEF Record
  <2> QED  BY <1>2, <2>1, <2>2, ReplacedField, RecordsAreEdits DEF setIntegration
<1>8. CASE form = "tenant"
  <2>1. Over(c.sent, store[c.row]) \in Record
    BY <1>1, <1>4, OverType
  <2> QED  BY <1>5, <1>6, <1>8, <2>1
<1>9. CASE ReadsFirst
  <2>1. Over(c.sent, c.before) \in Record
    BY <1>1, <1>3, <1>4, <1>9, OverType
  <2> QED  BY <1>5, <1>6, <1>9, <2>1
<1>10. CASE form \in {"shift", "modalities"}
  <2>1. Form.holds # "edits"
    BY <1>10, PlainTypes, FormFacts
  <2> QED  BY <1>2, <1>5, <1>6, <1>10, <2>1
<1>11. CASE form = "integration"
  BY <1>5, <1>6, <1>7, <1>11
<1> QED  BY <1>5, <1>8, <1>9, <1>10, <1>11

\* A record written for tab t.
LEMMA WrittenKeeps ==
    ASSUME FormsInv, NEW t \in Tabs, NEW r \in Rows, NEW x \in Record, call[t] # Null,
           UNCHANGED <<form, view, due, dialog, draft, meant, blanked, faults, acts>>,
           Written(t, r, x),
           form = "integration" => r = Main
               /\ (~switchedOff /\ x["endpoint"] # Blank => x["token"] # Blank)
    PROVE  FormsInv'
<1> USE PlainTypes
<1>1. /\ store' = [store EXCEPT ![r] = x] /\ lastWriter' = t /\ Stage(t, "done")
      /\ switchedOff' = (switchedOff \/ (form = "integration" /\ x["endpoint"] = Blank))
  BY DEF Written
<1>2. call' \in [Tabs -> SaveCall' \cup {Null}] /\ CallsAreSound'
  BY <1>1, StageKeeps
<1>3. draft' \in [Tabs -> Edits'] /\ meant' \in [Tabs -> Edits'] /\ DraftsAreMeant'
  BY DraftsStay
<1>4. store \in [Rows -> Record \cup {Gone}]
  BY DEF FormsInv, FormsTypeOK
<1>5. /\ store' \in [Rows -> Record' \cup {Gone}]
      /\ view' \in [Tabs -> [Rows -> Record' \cup {Gone}]]
  <2>1. store' \in [Rows -> Record \cup {Gone}]
    BY <1>1, <1>4
  <2>2. view' \in [Tabs -> [Rows -> Record \cup {Gone}]]
    BY DEF FormsInv, FormsTypeOK
  <2> QED  BY <2>1, <2>2, FormStays
<1>6. ~IsList => store'[Main] \in Record'
  <2>1. ~IsList => store[Main] \in Record
    BY DEF FormsInv, OneRecord
  <2>2. Main \in Rows
    BY RecordFormsAssumption
  <2>3. store'[Main] = IF Main = r THEN x ELSE store[Main]
    BY <1>1, <1>4, <2>2
  <2> QED  BY <2>1, <2>3, FormStays
<1>7. TokenIsKept'
  <2> SUFFICES ASSUME form = "integration", ~switchedOff' PROVE store'[Main]["token"] # Blank
    BY DEF TokenIsKept
  <2>1. store'[Main] = x
    BY <1>1, <1>4
  <2> QED  BY <1>1, <2>1
<1>8. switchedOff' \in BOOLEAN
  BY <1>1
<1> QED  BY <1>1, <1>2, <1>3, <1>5, <1>6, <1>7, <1>8, Together

\* A row is created.
LEMMA CreateKeeps == ASSUME FormsInv, NEW t \in Tabs, create(t) PROVE FormsInv'
<1> USE PlainTypes
<1>1. UNCHANGED <<form, view, due, dialog, draft, meant, blanked, faults, acts>>
  BY DEF create, pageVars, formVars
<1>2. call[t] # Null /\ call[t].op = "create" /\ CallIsSound(call[t])
  BY DEF create, FormsInv, CallsAreSound
<1>3. IsList /\ form # "integration" /\ Form.holds # "edits"
  <2>1. IsList
    BY <1>2 DEF CallIsSound
  <2> QED  BY <2>1, FormFacts DEF IsList, Lists
<1>4. call[t].sent \in Record
  BY <1>2, <1>3 DEF CallIsSound
<1>5. PICK r \in Rows : Written(t, r, call[t].sent)
  BY DEF create
<1> QED  BY <1>1, <1>2, <1>3, <1>4, <1>5, WrittenKeeps

\* A row is updated, or was gone.
LEMMA UpdateKeeps == ASSUME FormsInv, NEW t \in Tabs, update(t) PROVE FormsInv'
<1> USE PlainTypes
<1> DEFINE c == call[t]
<1>1. UNCHANGED <<form, view, due, dialog, draft, meant, blanked, faults, acts>>
  BY DEF update, pageVars, formVars
<1>2. /\ c # Null /\ c.op = "update" /\ CallIsSound(c) /\ c.row \in Rows
      /\ ReadsFirst => c.stage = "read"
  BY DEF update, FormsInv, CallsAreSound, CallIsSound
<1>3. CASE store[c.row] = Gone
  <2>1. Stage(t, "done") /\ UNCHANGED <<store, lastWriter, switchedOff>>
    BY <1>3 DEF update
  <2>2. call' \in [Tabs -> SaveCall' \cup {Null}] /\ CallsAreSound'
    BY <1>1, <1>2, <2>1, StageKeeps
  <2>3. draft' \in [Tabs -> Edits'] /\ meant' \in [Tabs -> Edits'] /\ DraftsAreMeant'
    BY <1>1, DraftsStay
  <2> QED  BY <1>1, <2>1, <2>2, <2>3, RecordsAlone
<1>4. CASE store[c.row] # Gone
  <2> DEFINE x == Updated(c)
  <2>1. Written(t, c.row, x)
    BY <1>4 DEF update
  <2>2. x \in Record /\ (form = "integration" => x = setIntegration(store[c.row], c.sent))
    BY <1>2, <1>4, UpdatedType
  <2> HIDE DEF x
  <2>3. form = "integration" =>
          c.row = Main /\ (~switchedOff /\ x["endpoint"] # Blank => x["token"] # Blank)
    <3> SUFFICES ASSUME form = "integration"
                 PROVE  c.row = Main
                        /\ (~switchedOff /\ x["endpoint"] # Blank => x["token"] # Blank)
      OBVIOUS
    <3>1. c.row = Main
      BY <1>2 DEF CallIsSound, IsList, Lists
    <3>2. ~switchedOff => store[Main]["token"] # Blank
      BY DEF FormsInv, TokenIsKept
    <3>3. /\ Form.holds # "edits" /\ "token" \in Form.fields /\ "endpoint" \in Form.fields
      BY FormFacts
    <3>4. c.sent \in Record
      BY <1>2, <3>3 DEF CallIsSound
    <3>5. CASE c.sent["endpoint"] = Blank
      <4>1. x = Blanks
        BY <2>2, <3>5 DEF setIntegration
      <4>2. Blanks["endpoint"] = Blank
        BY <3>3 DEF Blanks
      <4> QED  BY <3>1, <4>1, <4>2
    <3>6. CASE c.sent["endpoint"] # Blank /\ c.sent["token"] = Blank
      <4>1. x = [c.sent EXCEPT !.token = store[c.row]["token"]]
        BY <2>2, <3>6 DEF setIntegration
      <4>2. x["token"] = store[c.row]["token"]
        BY <3>3, <3>4, <4>1 DEF Record
      <4> QED  BY <3>1, <3>2, <4>2
    <3>7. CASE c.sent["endpoint"] # Blank /\ c.sent["token"] # Blank
      BY <2>2, <3>1, <3>7 DEF setIntegration
    <3> QED  BY <3>1, <3>5, <3>6, <3>7
  <2> HIDE DEF c
  <2>4. call[t] # Null
    BY <1>2 DEF c
  <2> QED  BY <1>1, <1>2, <2>1, <2>2, <2>3, <2>4, WrittenKeeps
<1> QED  BY <1>3, <1>4

\* A save is answered: its tab has none on its way.
LEMMA SuccessKeeps == ASSUME FormsInv, NEW t \in Tabs, onSuccess(t) PROVE FormsInv'
<1> USE PlainTypes
<1>1. UNCHANGED <<form, store, view, lastWriter, switchedOff, faults, acts>>
  BY DEF onSuccess
<1>2. call' = [call EXCEPT ![t] = Null] /\ due' \subseteq Tabs
  BY DEF onSuccess, Invalidate
<1>3. call' \in [Tabs -> SaveCall' \cup {Null}] /\ CallsAreSound'
  BY <1>1, <1>2, CallReplaced
<1>4. draft \in [Tabs -> Edits] /\ meant \in [Tabs -> Edits]
  BY DEF FormsInv, FormsTypeOK
<1> DEFINE Kept == /\ draft' \in [Tabs -> Edits'] /\ meant' \in [Tabs -> Edits']
                   /\ DraftsAreMeant'
                   /\ dialog' \in [Tabs -> Rows \cup {"add", "closed"}]
                   /\ blanked' \subseteq Tabs
                   /\ ~IsList => blanked' = {} /\ \A u \in Tabs : dialog'[u] = Main
<1>5. ASSUME Form.holds = "edits" /\ EditsSaved(t) PROVE Kept
  <2>1. /\ draft' = [draft EXCEPT ![t] = Nothing] /\ meant' = [meant EXCEPT ![t] = Nothing]
        /\ UNCHANGED <<dialog, blanked>>
    BY <1>5 DEF EditsSaved
  <2>2. draft' \in [Tabs -> Edits'] /\ meant' \in [Tabs -> Edits'] /\ DraftsAreMeant'
    BY <1>1, <1>5, <2>1, RecordsAreEdits, DraftFilled
  <2> QED  BY <2>1, <2>2
<1>6. ASSUME form = "integration" /\ TokenSaved(t) PROVE Kept
  <2> DEFINE d == [draft[t] EXCEPT !.token = Blank]
  <2>1. Form.holds # "edits" /\ ~IsList
    BY <1>6, FormFacts DEF IsList, Lists
  <2>2. draft[t] = meant[t] /\ draft[t] \in Record /\ blanked = {}
    BY <2>1 DEF FormsInv, DraftsAreMeant, OneRecord
  <2>3. d \in Record
    BY <2>2, ReplacedField DEF Contents
  <2>4. /\ draft' = [draft EXCEPT ![t] = d] /\ meant' = [meant EXCEPT ![t] = d]
        /\ UNCHANGED <<dialog, blanked>>
    BY <1>6, <2>2 DEF TokenSaved
  <2> HIDE DEF d
  <2>5. d \in Edits
    BY <2>3, RecordsAreEdits
  <2>6. draft' \in [Tabs -> Edits'] /\ meant' \in [Tabs -> Edits'] /\ DraftsAreMeant'
    BY <1>1, <2>3, <2>4, <2>5, DraftFilled
  <2> QED  BY <2>4, <2>6
<1>7. ASSUME UNCHANGED <<dialog, draft, meant, blanked>> PROVE Kept
  <2>1. draft' \in [Tabs -> Edits'] /\ meant' \in [Tabs -> Edits'] /\ DraftsAreMeant'
    BY <1>1, <1>7, DraftsStay
  <2> QED  BY <1>7, <2>1
<1>8. ASSUME IsList /\ RowCreated(t) PROVE Kept
  <2> DEFINE m == IF dialog[t] \in Rows THEN meant[t] ELSE Blanks
  <2>1. Blanks \in Record /\ Blanks \in Edits /\ m \in Edits
    BY <1>4, RecordsAreEdits
  <2>2. /\ draft' = [draft EXCEPT ![t] = Blanks] /\ meant' = [meant EXCEPT ![t] = m]
        /\ t \in blanked' \/ Blanks = m
        /\ blanked \subseteq blanked' \cup {t}
        /\ blanked' \subseteq Tabs
    BY <1>8 DEF RowCreated
  <2>3. dialog' \in [Tabs -> Rows \cup {"add", "closed"}]
    BY <1>8 DEF RowCreated
  <2> HIDE DEF m
  <2>4. draft' \in [Tabs -> Edits'] /\ meant' \in [Tabs -> Edits'] /\ DraftsAreMeant'
    BY <1>1, <2>1, <2>2, DraftFilled
  <2> QED  BY <1>8, <2>2, <2>3, <2>4
<1>9. ASSUME IsList /\ RowUpdated(t) PROVE Kept
  <2>1. UNCHANGED <<draft, meant, blanked>> /\ dialog' \in [Tabs -> Rows \cup {"add", "closed"}]
    BY <1>9 DEF RowUpdated
  <2>2. draft' \in [Tabs -> Edits'] /\ meant' \in [Tabs -> Edits'] /\ DraftsAreMeant'
    BY <1>1, <2>1, DraftsStay
  <2> QED  BY <1>9, <2>1, <2>2
<1>10. Kept
  BY <1>5, <1>6, <1>7, <1>8, <1>9 DEF onSuccess, CardSaved
<1> QED  BY <1>1, <1>2, <1>3, <1>10, RecordsAlone

\* A failure is shown.
LEMMA ErrorKeeps == ASSUME FormsInv, NEW t \in Tabs, onError(t) PROVE FormsInv'
<1> USE PlainTypes
<1>1. /\ UNCHANGED <<form, store, view, due, dialog, draft, meant, blanked, switchedOff, faults,
                     acts>>
      /\ call' = [call EXCEPT ![t] = Null] /\ lastWriter' \in Tabs \cup {Null}
  BY DEF onError, pageVars, formVars
<1>2. call' \in [Tabs -> SaveCall' \cup {Null}] /\ CallsAreSound'
  BY <1>1, CallReplaced
<1>3. draft' \in [Tabs -> Edits'] /\ meant' \in [Tabs -> Edits'] /\ DraftsAreMeant'
  BY <1>1, DraftsStay
<1> QED  BY <1>1, <1>2, <1>3, RecordsAlone

\* Every step keeps the invariant of the forms.
LEMMA FormsInvStep == FormsInv /\ [FormsNext]_formsVars => FormsInv'
<1> SUFFICES ASSUME FormsInv, [FormsNext]_formsVars PROVE FormsInv'
  OBVIOUS
<1>1. ASSUME NEW t \in Tabs, NEW f \in Form.fields, NEW v \in Values,
             Type(t, f, v) \/ toggle(t, f, v)
      PROVE  FormsInv'
  <2>1. v \in Contents
    BY DEF Contents
  <2> QED  BY <1>1, <2>1, TypeKeeps, ToggleKeeps
<1>2. ASSUME NEW t \in Tabs, NEW f \in Form.fields \ Form.required, Type(t, f, Blank)
      PROVE  FormsInv'
  <2>1. Blank \in Contents
    BY DEF Contents
  <2> QED  BY <1>2, <2>1, TypeKeeps
<1>3. CASE UNCHANGED formsVars
  <2>1. UNCHANGED <<form, store, view, due, dialog, draft, call, meant, blanked, lastWriter,
                    switchedOff, faults, acts>>
    BY <1>3 DEF formsVars, pageVars, formVars, ghostVars
  <2>2. call' \in [Tabs -> SaveCall' \cup {Null}] /\ CallsAreSound'
    BY <2>1, CallsStay
  <2>3. draft' \in [Tabs -> Edits'] /\ meant' \in [Tabs -> Edits'] /\ DraftsAreMeant'
    BY <2>1, DraftsStay
  <2> QED  BY <2>1, <2>2, <2>3, RecordsAlone, PlainTypes
<1> QED
  BY <1>1, <1>2, <1>3, FetchKeeps, DialogKeeps, DiscardKeeps, SaveKeeps, DelKeeps, SelectKeeps,
     CreateKeeps, UpdateKeeps, FailKeeps, SuccessKeeps, ErrorKeeps
  DEF FormsNext

\* The invariant of the forms holds in every state that is reached.
THEOREM FormsInvHolds == FormsSpec => []FormsInv
<1>1. FormsInit => FormsInv
  BY FormsInvInit
<1>2. FormsInv /\ [FormsNext]_formsVars => FormsInv'
  BY FormsInvStep
<1> QED  BY <1>1, <1>2, PTL DEF FormsSpec

\* Pages, forms and saves always hold records, or some fields of one.
THEOREM FormsTypeCorrect == FormsSpec => []FormsTypeOK
<1>1. FormsInv => FormsTypeOK
  BY DEF FormsInv
<1> QED  BY <1>1, FormsInvHolds, PTL

\* An integration never loses its token to a form that does not know it.
THEOREM TokensAreKept == FormsSpec => []TokenIsKept
<1>1. FormsInv => TokenIsKept
  BY DEF FormsInv
<1> QED  BY <1>1, FormsInvHolds, PTL

-----------------------------------------------------------------------------
(* What a save changes                                                     *)

\* Only the update of its own call writes a save.
LEMMA OnlyUpdateWrites ==
    ASSUME FormsInv, FormsNext, NEW t \in Tabs, Writes(t)
    PROVE  update(t)
<1>1. /\ call[t] # Null /\ call[t].stage \in {"sent", "read"} /\ call[t].op = "update"
      /\ call'[t] # Null /\ call'[t].stage = "done"
  BY DEF Writes
<1>2. call \in [Tabs -> SaveCall \cup {Null}] /\ call[t] \in SaveCall
  BY <1>1 DEF FormsInv, FormsTypeOK
<1>3. call' # call
  BY <1>1
<1>4. ASSUME NEW u \in Tabs, NEW d, Submit(u, d) PROVE FALSE
  BY <1>1, <1>2, <1>4 DEF Submit
<1>5. ASSUME NEW u \in Tabs, NEW s, Stage(u, s), s # "done" \/ u # t PROVE FALSE
  BY <1>1, <1>2, <1>5 DEF Stage, SaveCall
<1>6. ASSUME NEW u \in Tabs, SelectBefore(u) PROVE FALSE
  <2>1. CASE Stage(u, "failed")
    BY <1>5, <2>1
  <2>2. CASE call' = [call EXCEPT ![u].before = store[call[u].row], ![u].stage = "read"]
    BY <1>1, <1>2, <2>2 DEF SaveCall
  <2> QED  BY <1>6, <2>1, <2>2 DEF SelectBefore
<1>7. ASSUME NEW u \in Tabs, create(u) PROVE FALSE
  <2>1. Stage(u, "done") /\ call[u].op = "create"
    BY <1>7 DEF create, Written
  <2> QED  BY <1>1, <1>5, <2>1
<1>8. ASSUME NEW u \in Tabs, update(u) PROVE u = t
  <2>1. Stage(u, "done")
    BY <1>8 DEF update, Written
  <2> QED  BY <1>5, <2>1
<1>9. ASSUME NEW u \in Tabs, onSuccess(u) \/ onError(u) PROVE FALSE
  <2>1. call' = [call EXCEPT ![u] = Null]
    BY <1>9 DEF onSuccess, onError
  <2> QED  BY <1>1, <1>2, <2>1
<1>10. ASSUME NEW u \in Tabs, Save(u) \/ (\E f \in Form.fields, v \in Values : toggle(u, f, v))
       PROVE  FALSE
  BY <1>4, <1>10 DEF Save, toggle
<1>11. ASSUME NEW u \in Tabs, Fail(u) PROVE FALSE
  BY <1>5, <1>11 DEF Fail
<1>12. ASSUME NEW u \in Tabs,
              \/ Fetch(u) \/ OpenAdd(u) \/ Close(u) \/ Discard(u)
              \/ \E r \in Rows : OpenEdit(u, r) \/ del(u, r)
              \/ \E f \in Form.fields, v \in Values \cup {Blank} : Type(u, f, v)
       PROVE  FALSE
  <2>1. call' = call
    BY <1>12 DEF Fetch, OpenAdd, Close, Discard, OpenEdit, del, Type
  <2> QED  BY <1>3, <2>1
<1> QED
  BY <1>6, <1>7, <1>8, <1>9, <1>10, <1>11, <1>12 DEF FormsNext

\* Its row holds what was sent, and otherwise what it held.
LEMMA UpdateChanges ==
    ASSUME FormsInv, NEW t \in Tabs, update(t), Writes(t), form # "integration",
           call[t].meant # Null \/ ~IsList
    PROVE  ChangesAsMeant(t)
<1> DEFINE c == call[t]
           old == store[c.row]
           new == store'[c.row]
<1>1. /\ c # Null /\ c.op = "update" /\ CallIsSound(c) /\ c.row \in Rows
      /\ ReadsFirst => c.stage = "read" /\ old = c.before
  BY DEF update, Writes, FormsInv, CallsAreSound, CallIsSound
<1>2. c.sent = c.meant /\ c.sent \in Edits
  BY <1>1 DEF CallIsSound, SaveCall
<1>3. SUFFICES ASSUME old # Gone, NEW f \in Form.fields, new[f] # old[f]
               PROVE  f \in DOMAIN c.meant /\ new[f] = c.meant[f]
  BY DEF ChangesAsMeant
<1>4. old \in Record /\ DOMAIN old = Form.fields
  BY <1>1, <1>3 DEF FormsInv, FormsTypeOK, Record
<1>5. new = Updated(c)
  <2>1. Written(t, c.row, Updated(c))
    BY <1>3 DEF update
  <2> QED  BY <1>1, <2>1 DEF Written, FormsInv, FormsTypeOK
<1>6. /\ form = "tenant" => Updated(c) = Over(c.sent, old)
      /\ ReadsFirst => Updated(c) = Over(c.sent, c.before)
      /\ form \in {"shift", "modalities"} => Updated(c) = c.sent
  BY <1>1, <1>3, UpdatedType
<1>7. /\ form \in {"tenant", "integration", "shift", "modalities"} <=> ~ReadsFirst
      /\ form \in {"shift", "modalities"} => Form.holds # "edits"
  BY PlainTypes, FormFacts
<1> HIDE DEF c, old, new
<1>8. CASE form = "tenant" \/ ReadsFirst
  <2>1. new = Over(c.sent, old)
    BY <1>1, <1>5, <1>6, <1>8
  <2>2. old \in Edits
    BY <1>4, RecordsAreEdits
  <2>3. /\ \A g \in DOMAIN c.sent : Over(c.sent, old)[g] = c.sent[g]
        /\ \A g \in DOMAIN old \ DOMAIN c.sent : Over(c.sent, old)[g] = old[g]
    BY <1>2, <2>2, OverType
  <2>4. /\ f \in DOMAIN c.sent => new[f] = c.sent[f]
        /\ f \notin DOMAIN c.sent => new[f] = old[f]
    BY <1>4, <2>1, <2>3
  <2> QED  BY <1>2, <1>3, <2>4
<1>9. CASE form \in {"shift", "modalities"}
  <2>1. c.sent \in Record /\ new = c.sent
    BY <1>1, <1>5, <1>6, <1>7, <1>9 DEF CallIsSound
  <2> QED  BY <1>2, <2>1 DEF Record
<1> QED  BY <1>7, <1>8, <1>9

\* A profile or an identity is changed in the fields its operator typed in and in no other.
THEOREM ProfilesKeepTheRest == FormsSpec => EditsKeepTheRest
<1> DEFINE Kept == Form.holds = "edits" => \A t \in Tabs : Writes(t) => ChangesAsMeant(t)
<1>1. FormsInv /\ [FormsNext]_formsVars => [Kept]_formsVars
  <2> SUFFICES ASSUME FormsInv, FormsNext, Form.holds = "edits", NEW t \in Tabs, Writes(t)
               PROVE  ChangesAsMeant(t)
    OBVIOUS
  <2>1. form # "integration" /\ ~IsList
    BY PlainTypes, FormFacts DEF IsList, Lists
  <2> QED  BY <2>1, OnlyUpdateWrites, UpdateChanges
<1> QED  BY <1>1, FormsInvHolds, PTL DEF FormsSpec, EditsKeepTheRest

\* A form that holds a copy writes into a record only what was meant for that record.
THEOREM CopiesStayWithTheirRow == FormsSpec => CopiesAreOfTheirRow
<1> DEFINE Kept == Form.holds # "edits" /\ form # "integration" =>
                     \A t \in Tabs : Writes(t) /\ call[t].meant # Null => ChangesAsMeant(t)
<1>1. FormsInv /\ [FormsNext]_formsVars => [Kept]_formsVars
  BY OnlyUpdateWrites, UpdateChanges
<1> QED  BY <1>1, FormsInvHolds, PTL DEF FormsSpec, CopiesAreOfTheirRow
=============================================================================
