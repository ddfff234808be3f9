----------------------- MODULE OperatorConsole_proofs -----------------------
(***************************************************************************)
(* TLAPS proofs about OperatorConsole, for any calls, devices, groups,     *)
(* punches, passwords and batch: type correctness and the five safety      *)
(* invariants.  They rest on what each place of a call says of its         *)
(* request (Places), on the moments ghosts being up to date (Current) and  *)
(* on what a call has already established (Earned).                        *)
(***************************************************************************)
EXTENDS OperatorConsole, TLAPS

Commanding == Single \cup Bulk

\* What a call's place says of its request.
Places ==
    \A c \in Calls :
        /\ step[c] = "new" => queued[c] = {} /\ todo[c] = {}
        /\ step[c] # "new" => request[c] \in Requests
        /\ step[c] = "guard" => request[c].kind \in Single
        /\ step[c] \in {"hash", "verify"} => request[c].kind \in Gated
        /\ step[c] = "deny" => request[c].kind \in Denying
        /\ step[c] = "list" => request[c].kind \in Bulk
        /\ step[c] = "queue" => request[c].kind \in Commanding
        /\ step[c] = "effect" => request[c].kind \notin Commanding
        /\ step[c] \notin {"audit", "done", "queue"} => c \notin changed
        /\ step[c] \in {"new", "guard", "hash"} => hash[c] = None
        /\ step[c] # "done" => log[c] = "none"

\* The moments a call has seen include the present one.
Current ==
    \A c \in Calls : Open(c) =>
        /\ Standing(request[c], up, enabled, groupOf) \subseteq ever[c]
        /\ always[c] \subseteq Standing(request[c], up, enabled, groupOf)
        /\ request[c].kind \in Gated => password \in held[c]

\* What a call that is past a check has learned.
Passed(c) == step[c] \in {"list", "queue", "effect", "audit"} /\ request[c].kind \in Gated
Earned ==
    \A c \in Calls :
        /\ \A j \in queued[c] \cup todo[c] : j[1] \in ever[c]
        /\ step[c] \in {"hash", "verify"} /\ request[c].kind \in Single
             => request[c].on \in ever[c]
        /\ step[c] = "verify" => hash[c] \in held[c]
        /\ Passed(c) => Matches(request[c], hash[c]) /\ request[c].offers \in held[c] \ {None}
        /\ c \in changed /\ request[c].kind \in Gated => request[c].offers \in held[c] \ {None}

\* What is done and what is left of a call's work.
Work ==
    \A c \in Calls :
        /\ step[c] \in {"queue", "audit"} /\ request[c].kind \in Bulk
             => always[c] \X {1} \subseteq queued[c] \cup todo[c]
        /\ step[c] \in {"queue", "audit"} /\ request[c].kind \in Single
             => Planned(request[c]) \subseteq queued[c] \cup todo[c]
        /\ step[c] = "audit" /\ request[c].kind \in Commanding => todo[c] = {}
        /\ step[c] = "audit" /\ request[c].kind = "void" => voider[request[c].on] = c

IInv == TypeOK /\ Places /\ Current /\ Earned /\ Work /\ AuditedIsDone /\ TrailIsComplete /\ OneVoids

-----------------------------------------------------------------------------
(* Requests                                                                *)

\* The fields of a request, by kind.
LEMMA RequestFields ==
    ASSUME NEW r \in Requests
    PROVE  /\ r.kind \in Single \cup Bulk \cup Corrections \cup Edits \cup {"rotate", "recover"}
           /\ r.kind \in Single \cup {"pause", "resume", "assign"} => r.on \in Devices
           /\ r.kind \in Bulk \cup {"createGroup", "deleteGroup"} => r.on \in Groups
           /\ r.kind = "void" => r.on \in Punches
           /\ r.kind = "assign" => r.to \in Groups \cup {None}
           /\ r.kind \in {"rotate", "recover"} => r.to \in Passwords
           /\ r.offers \in Passwords \cup {None}
BY DEF Requests, Single, Bulk, Corrections, Edits

LEMMA PlannedJobs ==
    ASSUME NEW r \in Requests, r.kind \in Single
    PROVE  /\ Planned(r) \subseteq Jobs
           /\ \A j \in Planned(r) : j[1] = r.on
           /\ Planned(r) # {}
<1>1. r.on \in Devices
  BY RequestFields
<1>2. 1 \in 1 .. Batch
  BY ConsoleAssumption
<1>3. \E S \in SUBSET (1 .. Batch) : 1 \in S /\ Planned(r) = {r.on} \X S
  BY <1>2 DEF Planned
<1>4. PICK S \in SUBSET (1 .. Batch) : 1 \in S /\ Planned(r) = {r.on} \X S
  BY <1>3
<1>5. <<r.on, 1>> \in Planned(r)
  BY <1>4
<1>6. \A j \in Planned(r) : j[1] = r.on /\ j \in Devices \X (1 .. Batch)
  BY <1>1, <1>4
<1> QED  BY <1>5, <1>6 DEF Jobs

\* Devices a call may command are devices.
LEMMA StandingDevices ==
    ASSUME NEW r, NEW u \in SUBSET Devices, NEW e \in SUBSET Devices, NEW g
    PROVE  Standing(r, u, e, g) \subseteq Devices
BY DEF Standing

-----------------------------------------------------------------------------
(* Type correctness                                                        *)

LEMMA TypeInit == Init => TypeOK
<1> SUFFICES ASSUME Init PROVE TypeOK
  OBVIOUS
<1>1. spent \in 0 .. Budget
  BY ConsoleAssumption DEF Init
<1>2. groupState \in [Groups -> {"unused", "there", "gone"}]
  BY DEF Init
<1>3. groupOf \in [Devices -> Groups \cup {None}]
  BY DEF Init
<1> QED  BY <1>1, <1>2, <1>3 DEF Init, TypeOK, Steps

LEMMA TypeStep == TypeOK /\ Places /\ [Next]_vars => TypeOK'
<1> SUFFICES ASSUME TypeOK, Places, [Next]_vars PROVE TypeOK'
  OBVIOUS
<1> USE DEF TypeOK, Steps, fleetVars, dataVars, localVars, momentVars
<1>1. ASSUME NEW d \in Devices, StatusFlips(d) PROVE TypeOK'
  BY <1>1, StandingDevices DEF StatusFlips, Observe
<1>2. ASSUME NEW c \in Calls, Call(c) PROVE TypeOK'
  BY <1>2, StandingDevices DEF Call
<1>3. ASSUME NEW c \in Calls, AssertDeviceOnline(c) PROVE TypeOK'
  <2>1. request[c] \in Requests /\ request[c].kind \in Single
    BY <1>3 DEF AssertDeviceOnline, Places
  <2> QED  BY <1>3, <2>1, PlannedJobs DEF AssertDeviceOnline
<1>4. ASSUME NEW c \in Calls, ReadHash(c) PROVE TypeOK'
  BY <1>4 DEF ReadHash
<1>5. ASSUME NEW c \in Calls, Verify(c) PROVE TypeOK'
  <2>1. request[c] \in Requests
    BY <1>5 DEF Verify, Places
  <2> QED  BY <1>5, <2>1, PlannedJobs DEF Verify, Single
<1>6. ASSUME NEW c \in Calls, ListGroup(c) PROVE TypeOK'
  BY <1>6, ConsoleAssumption DEF ListGroup, Listed, Jobs
<1>7. ASSUME NEW c \in Calls, NEW j \in Jobs, Queue(c, j) PROVE TypeOK'
  BY <1>7 DEF Queue
<1>8. ASSUME NEW c \in Calls, Void(c) PROVE TypeOK'
  BY <1>8 DEF Void
<1>9. ASSUME NEW c \in Calls, InsertManual(c) PROVE TypeOK'
  BY <1>9 DEF InsertManual
<1>10. ASSUME NEW c \in Calls, Rotate(c) PROVE TypeOK'
  <2>1. request[c].to \in Passwords
    BY <1>10, RequestFields DEF Rotate, Places
  <2> QED  BY <1>10, <2>1 DEF Rotate
<1>11. ASSUME NEW c \in Calls, SetEnabled(c) PROVE TypeOK'
  <2>1. request[c].on \in Devices
    BY <1>11, RequestFields DEF SetEnabled, Places
  <2> QED  BY <1>11, <2>1, StandingDevices DEF SetEnabled, Observe
<1>12. ASSUME NEW c \in Calls, AssignDevice(c) PROVE TypeOK'
  <2>1. request[c].to \in Groups \cup {None}
    BY <1>12, RequestFields DEF AssignDevice, Places
  <2> QED  BY <1>12, <2>1, StandingDevices DEF AssignDevice, Observe
<1>13. ASSUME NEW c \in Calls, CreateGroup(c) PROVE TypeOK'
  BY <1>13 DEF CreateGroup
<1>14. ASSUME NEW c \in Calls, DeleteGroup(c) PROVE TypeOK'
  BY <1>14, StandingDevices DEF DeleteGroup, Observe
<1>15. ASSUME NEW c \in Calls, LogOk(c) \/ LogDenied(c) PROVE TypeOK'
  BY <1>15 DEF LogOk, LogDenied
<1>16. ASSUME NEW c \in Calls, Fail(c) PROVE TypeOK'
  BY <1>16, ConsoleAssumption DEF Fail
<1>17. CASE UNCHANGED vars
  BY <1>17 DEF vars
<1> QED  BY <1>1, <1>2, <1>3, <1>4, <1>5, <1>6, <1>7, <1>8, <1>9, <1>10, <1>11, <1>12,
            <1>13, <1>14, <1>15, <1>16, <1>17 DEF Next

-----------------------------------------------------------------------------
(* Places                                                                  *)

LEMMA PlacesStep == TypeOK /\ Places /\ [Next]_vars => Places'
<1> SUFFICES ASSUME TypeOK, Places, [Next]_vars PROVE Places'
  OBVIOUS
<1> USE DEF TypeOK, Places, Steps, fleetVars, dataVars, localVars, momentVars
<1>1. ASSUME NEW d \in Devices, StatusFlips(d) PROVE Places'
  BY <1>1 DEF StatusFlips
<1>2. ASSUME NEW c \in Calls, Call(c) PROVE Places'
  BY <1>2, RequestFields DEF Call, Single, Bulk, Commanding, Corrections, Edits, Gated
<1>3. ASSUME NEW c \in Calls, AssertDeviceOnline(c) PROVE Places'
  BY <1>3 DEF AssertDeviceOnline, Commanding
<1>4. ASSUME NEW c \in Calls, ReadHash(c) PROVE Places'
  BY <1>4 DEF ReadHash
<1>5. ASSUME NEW c \in Calls, Verify(c) PROVE Places'
  BY <1>5 DEF Verify, Single, Bulk, Commanding, Corrections, Gated, Denying
<1>6. ASSUME NEW c \in Calls, ListGroup(c) PROVE Places'
  BY <1>6 DEF ListGroup, Commanding
<1>7. ASSUME NEW c \in Calls, NEW j \in Jobs, Queue(c, j) PROVE Places'
  BY <1>7 DEF Queue
<1>8. ASSUME NEW c \in Calls, Void(c) \/ InsertManual(c) PROVE Places'
  BY <1>8 DEF Void, InsertManual
<1>9. ASSUME NEW c \in Calls, Rotate(c) PROVE Places'
  BY <1>9 DEF Rotate
<1>10. ASSUME NEW c \in Calls, SetEnabled(c) \/ AssignDevice(c) PROVE Places'
  BY <1>10 DEF SetEnabled, AssignDevice
<1>11. ASSUME NEW c \in Calls, CreateGroup(c) \/ DeleteGroup(c) PROVE Places'
  BY <1>11 DEF CreateGroup, DeleteGroup
<1>12. ASSUME NEW c \in Calls, LogOk(c) \/ LogDenied(c) PROVE Places'
  BY <1>12 DEF LogOk, LogDenied
<1>13. ASSUME NEW c \in Calls, Fail(c) PROVE Places'
  BY <1>13 DEF Fail, Open
<1>14. CASE UNCHANGED vars
  BY <1>14 DEF vars
<1> QED  BY <1>1, <1>2, <1>3, <1>4, <1>5, <1>6, <1>7, <1>8, <1>9, <1>10, <1>11, <1>12,
            <1>13, <1>14 DEF Next

-----------------------------------------------------------------------------
(* Moments                                                                 *)

LEMMA CurrentStep == TypeOK /\ Places /\ Current /\ [Next]_vars => Current'
<1> SUFFICES ASSUME TypeOK, Places, Current, [Next]_vars PROVE Current'
  OBVIOUS
<1> USE DEF TypeOK, Current, Open, Steps, fleetVars, dataVars, localVars, momentVars
<1>1. ASSUME NEW d \in Devices, StatusFlips(d) PROVE Current'
  BY <1>1 DEF StatusFlips, Observe
<1>2. ASSUME NEW c \in Calls, Call(c) PROVE Current'
  BY <1>2 DEF Call
<1>3. ASSUME NEW c \in Calls,
             AssertDeviceOnline(c) \/ ReadHash(c) \/ Verify(c) \/ ListGroup(c)
      PROVE Current'
  BY <1>3 DEF AssertDeviceOnline, ReadHash, Verify, ListGroup
<1>4. ASSUME NEW c \in Calls, NEW j \in Jobs, Queue(c, j) PROVE Current'
  BY <1>4 DEF Queue
<1>5. ASSUME NEW c \in Calls, Void(c) \/ InsertManual(c) PROVE Current'
  BY <1>5 DEF Void, InsertManual
<1>6. ASSUME NEW c \in Calls, Rotate(c) PROVE Current'
  BY <1>6 DEF Rotate
<1>7. ASSUME NEW c \in Calls, SetEnabled(c) PROVE Current'
  BY <1>7 DEF SetEnabled, Observe
<1>8. ASSUME NEW c \in Calls, AssignDevice(c) PROVE Current'
  BY <1>8 DEF AssignDevice, Observe
<1>9. ASSUME NEW c \in Calls, CreateGroup(c) PROVE Current'
  BY <1>9 DEF CreateGroup
<1>10. ASSUME NEW c \in Calls, DeleteGroup(c) PROVE Current'
  BY <1>10 DEF DeleteGroup, Observe
<1>11. ASSUME NEW c \in Calls, LogOk(c) \/ LogDenied(c) \/ Fail(c) PROVE Current'
  BY <1>11 DEF LogOk, LogDenied, Fail
<1>12. CASE UNCHANGED vars
  BY <1>12 DEF vars
<1> QED  BY <1>1, <1>2, <1>3, <1>4, <1>5, <1>6, <1>7, <1>8, <1>9, <1>10, <1>11, <1>12
         DEF Next

-----------------------------------------------------------------------------
(* What a call has learned                                                 *)

LEMMA EarnedStep == TypeOK /\ Places /\ Current /\ Earned /\ [Next]_vars => Earned'
<1> SUFFICES ASSUME TypeOK, Places, Current, Earned, [Next]_vars PROVE Earned'
  OBVIOUS
<1> USE DEF TypeOK, Earned, Passed, Steps, fleetVars, dataVars, localVars, momentVars
<1>1. ASSUME NEW d \in Devices, StatusFlips(d) PROVE Earned'
  BY <1>1 DEF StatusFlips, Observe
<1>2. ASSUME NEW c \in Calls, Call(c) PROVE Earned'
  BY <1>2 DEF Call, Places, Current
<1>3. ASSUME NEW c \in Calls, AssertDeviceOnline(c) PROVE Earned'
  <2>1. request[c] \in Requests /\ request[c].kind \in Single
    BY <1>3 DEF AssertDeviceOnline, Places
  <2>2. request[c].on \in up \cap enabled => request[c].on \in ever[c]
    BY <1>3, <2>1 DEF AssertDeviceOnline, Current, Open, Standing, Single, Bulk
  <2>3. \A j \in Planned(request[c]) : j[1] = request[c].on
    BY <2>1, PlannedJobs
  <2> QED  BY <1>3, <2>1, <2>2, <2>3 DEF AssertDeviceOnline, Places
<1>4. ASSUME NEW c \in Calls, ReadHash(c) PROVE Earned'
  <2>1. request[c].kind \in Gated
    BY <1>4 DEF ReadHash, Places
  <2> QED  BY <1>4, <2>1 DEF ReadHash, Current, Open
<1>5. ASSUME NEW c \in Calls, Verify(c) PROVE Earned'
  <2>1. request[c] \in Requests /\ request[c].kind \in Gated
    BY <1>5 DEF Verify, Places
  <2>2. request[c].kind \in Single => \A j \in Planned(request[c]) : j[1] = request[c].on
    BY <2>1, PlannedJobs
  <2> QED  BY <1>5, <2>1, <2>2 DEF Verify, Matches, Single, Bulk, Denying, Places
<1>6. ASSUME NEW c \in Calls, ListGroup(c) PROVE Earned'
  <2>1. request[c].kind \in Bulk
    BY <1>6 DEF ListGroup, Places
  <2>2. Listed(request[c]) \subseteq ever[c]
    BY <1>6, <2>1 DEF ListGroup, Listed, Standing, Current, Open
  <2>3. \A j \in Listed(request[c]) \X {1} : j[1] \in ever[c]
    BY <2>2
  <2> QED  BY <1>6, <2>3 DEF ListGroup
<1>7. ASSUME NEW c \in Calls, NEW j \in Jobs, Queue(c, j) PROVE Earned'
  BY <1>7 DEF Queue
<1>8. ASSUME NEW c \in Calls, Void(c) \/ InsertManual(c) PROVE Earned'
  BY <1>8 DEF Void, InsertManual
<1>9. ASSUME NEW c \in Calls, Rotate(c) PROVE Earned'
  BY <1>9 DEF Rotate
<1>10. ASSUME NEW c \in Calls, SetEnabled(c) PROVE Earned'
  BY <1>10 DEF SetEnabled, Observe
<1>11. ASSUME NEW c \in Calls, AssignDevice(c) PROVE Earned'
  BY <1>11 DEF AssignDevice, Observe
<1>12. ASSUME NEW c \in Calls, CreateGroup(c) PROVE Earned'
  BY <1>12 DEF CreateGroup
<1>13. ASSUME NEW c \in Calls, DeleteGroup(c) PROVE Earned'
  BY <1>13 DEF DeleteGroup, Observe
<1>14. ASSUME NEW c \in Calls, LogOk(c) \/ LogDenied(c) \/ Fail(c) PROVE Earned'
  BY <1>14 DEF LogOk, LogDenied, Fail
<1>15. CASE UNCHANGED vars
  BY <1>15 DEF vars
<1> QED  BY <1>1, <1>2, <1>3, <1>4, <1>5, <1>6, <1>7, <1>8, <1>9, <1>10, <1>11, <1>12,
            <1>13, <1>14, <1>15 DEF Next

-----------------------------------------------------------------------------
(* What is done and what is left                                           *)

LEMMA WorkStep == TypeOK /\ Places /\ Current /\ Work /\ [Next]_vars => Work'
<1> SUFFICES ASSUME TypeOK, Places, Current, Work, [Next]_vars PROVE Work'
  OBVIOUS
<1> USE DEF TypeOK, Work, Steps, fleetVars, dataVars, localVars, momentVars
<1>1. ASSUME NEW d \in Devices, StatusFlips(d) PROVE Work'
  BY <1>1 DEF StatusFlips, Observe
<1>2. ASSUME NEW c \in Calls, Call(c) PROVE Work'
  BY <1>2 DEF Call
<1>3. ASSUME NEW c \in Calls, AssertDeviceOnline(c) PROVE Work'
  <2>1. request[c].kind \in Single
    BY <1>3 DEF AssertDeviceOnline, Places
  <2> QED  BY <1>3, <2>1 DEF AssertDeviceOnline, Single, Bulk
<1>4. ASSUME NEW c \in Calls, ReadHash(c) PROVE Work'
  BY <1>4 DEF ReadHash
<1>5. ASSUME NEW c \in Calls, Verify(c) PROVE Work'
  BY <1>5 DEF Verify, Single, Bulk
<1>6. ASSUME NEW c \in Calls, ListGroup(c) PROVE Work'
  <2>1. request[c].kind \in Bulk
    BY <1>6 DEF ListGroup, Places
  <2>2. always[c] \subseteq Listed(request[c])
    BY <1>6, <2>1 DEF ListGroup, Listed, Standing, Current, Open
  <2>3. always[c] \X {1} \subseteq Listed(request[c]) \X {1}
    BY <2>2
  <2>4. Listed(request[c]) = {} => Listed(request[c]) \X {1} = {}
    OBVIOUS
  <2> QED  BY <1>6, <2>1, <2>3, <2>4 DEF ListGroup, Single, Bulk
<1>7. ASSUME NEW c \in Calls, NEW j \in Jobs, Queue(c, j) PROVE Work'
  <2>1. queued'[c] \cup todo'[c] = queued[c] \cup todo[c]
    BY <1>7 DEF Queue
  <2>2. step'[c] = "audit" => todo'[c] = {}
    BY <1>7 DEF Queue
  <2>3. request[c].kind \in Commanding
    BY <1>7 DEF Queue, Places
  <2>4. \A k \in Calls \ {c} : /\ step'[k] = step[k] /\ queued'[k] = queued[k]
                               /\ todo'[k] = todo[k]
    BY <1>7 DEF Queue
  <2>5. step[c] = "queue" /\ UNCHANGED <<request, always, voider>>
    BY <1>7 DEF Queue
  <2> QED  BY ONLY <2>1, <2>2, <2>3, <2>4, <2>5, Work DEF Work, Commanding, Single, Bulk
<1>8. ASSUME NEW c \in Calls, Void(c) PROVE Work'
  <2>1. request[c].on \in Punches /\ request[c].kind = "void" /\ step[c] = "effect"
    BY <1>8, RequestFields DEF Void, Places
  <2>2. UNCHANGED <<request, todo, queued, always>>
    BY <1>8 DEF Void
  <2>3. \A k \in Calls \ {c} : step'[k] = step[k]
    BY <1>8 DEF Void
  <2>4. step'[c] = "audit" => voider'[request[c].on] = c
    BY <1>8, <2>1 DEF Void
  <2>5. \A k \in Calls : \A p \in Punches : voider[p] = k => voider'[p] = k
    BY <1>8, <2>1, ConsoleAssumption DEF Void
  <2>6. \A k \in Calls : step'[k] = "audit" /\ request[k].kind = "void"
                        => voider'[request[k].on] = k
    <3> SUFFICES ASSUME NEW k \in Calls, step'[k] = "audit", request[k].kind = "void"
                 PROVE  voider'[request[k].on] = k
      OBVIOUS
    <3>1. CASE k = c  BY <3>1, <2>4
    <3>2. CASE k # c
      <4>1. voider[request[k].on] = k  BY <3>2, <2>3 DEF Work
      <4>2. request[k].on \in Punches  BY <3>2, <2>3, RequestFields DEF Places
      <4> QED  BY <4>1, <4>2, <2>5
    <3> QED  BY <3>1, <3>2
  <2> QED  BY ONLY <2>1, <2>2, <2>3, <2>6, Work DEF Work, Commanding, Single, Bulk
<1>9. ASSUME NEW c \in Calls, InsertManual(c) \/ Rotate(c) PROVE Work'
  BY <1>9 DEF InsertManual, Rotate, Commanding, Single, Bulk
<1>10. ASSUME NEW c \in Calls, SetEnabled(c) PROVE Work'
  BY <1>10 DEF SetEnabled, Observe, Commanding, Single, Bulk
<1>11. ASSUME NEW c \in Calls, AssignDevice(c) PROVE Work'
  BY <1>11 DEF AssignDevice, Observe, Commanding, Single, Bulk
<1>12. ASSUME NEW c \in Calls, CreateGroup(c) PROVE Work'
  BY <1>12 DEF CreateGroup, Commanding, Single, Bulk
<1>13. ASSUME NEW c \in Calls, DeleteGroup(c) PROVE Work'
  BY <1>13 DEF DeleteGroup, Observe, Commanding, Single, Bulk
<1>14. ASSUME NEW c \in Calls, LogOk(c) \/ LogDenied(c) \/ Fail(c) PROVE Work'
  BY <1>14 DEF LogOk, LogDenied, Fail
<1>15. CASE UNCHANGED vars
  BY <1>15 DEF vars
<1> QED  BY <1>1, <1>2, <1>3, <1>4, <1>5, <1>6, <1>7, <1>8, <1>9, <1>10, <1>11, <1>12,
            <1>13, <1>14, <1>15 DEF Next

-----------------------------------------------------------------------------
(* What the audit row says                                                 *)

Told == AuditedIsDone /\ TrailIsComplete /\ OneVoids

LEMMA ToldStep ==
    TypeOK /\ Places /\ Current /\ Earned /\ Work /\ Told /\ [Next]_vars => Told'
<1> SUFFICES ASSUME TypeOK, Places, Current, Earned, Work, Told, [Next]_vars PROVE Told'
  OBVIOUS
<1> USE DEF TypeOK, Told, AuditedIsDone, TrailIsComplete, OneVoids, Steps,
            fleetVars, dataVars, localVars, momentVars
<1>1. ASSUME NEW d \in Devices, StatusFlips(d) PROVE Told'
  BY <1>1 DEF StatusFlips, Observe, Open, Places
<1>2. ASSUME NEW c \in Calls, Call(c) PROVE Told'
  BY <1>2 DEF Call, Places
<1>3. ASSUME NEW c \in Calls, AssertDeviceOnline(c) \/ ReadHash(c) PROVE Told'
  BY <1>3 DEF AssertDeviceOnline, ReadHash, Places
<1>4. ASSUME NEW c \in Calls, Verify(c) PROVE Told'
  BY <1>4 DEF Verify, Places, Denying, Bulk
<1>5. ASSUME NEW c \in Calls, ListGroup(c) PROVE Told'
  BY <1>5 DEF ListGroup, Places
<1>6. ASSUME NEW c \in Calls, NEW j \in Jobs, Queue(c, j) PROVE Told'
  BY <1>6 DEF Queue, Places
<1>7. ASSUME NEW c \in Calls, Void(c) PROVE Told'
  <2>1. request[c].on \in Punches /\ Matches(request[c], hash[c])
    BY <1>7, RequestFields DEF Void, Places, Earned, Passed, Gated, Corrections
  <2>2. c \notin changed /\ log[c] = "none"
    BY <1>7 DEF Void, Places
  <2>3. \A k \in Calls : \A p \in Punches : voider[p] = k => voider'[p] = k
    BY <1>7, <2>1, ConsoleAssumption DEF Void
  <2>4. \A k \in Calls : log[k] = "ok" /\ request[k].kind = "void"
                        => voider'[request[k].on] = k
    <3> SUFFICES ASSUME NEW k \in Calls, log[k] = "ok", request[k].kind = "void"
                 PROVE  voider'[request[k].on] = k
      OBVIOUS
    <3>1. voider[request[k].on] = k /\ k # None  BY ConsoleAssumption
    <3>2. request[k].on \in Punches  BY RequestFields DEF Places
    <3> QED  BY <3>1, <3>2, <2>3
  <2> QED  BY <1>7, <2>1, <2>2, <2>4 DEF Void
<1>8. ASSUME NEW c \in Calls, InsertManual(c) PROVE Told'
  BY <1>8 DEF InsertManual, Places, Denying
<1>9. ASSUME NEW c \in Calls, Rotate(c) PROVE Told'
  BY <1>9 DEF Rotate, Places
<1>10. ASSUME NEW c \in Calls, SetEnabled(c) PROVE Told'
  BY <1>10 DEF SetEnabled, Observe, Places, Open
<1>11. ASSUME NEW c \in Calls, AssignDevice(c) PROVE Told'
  BY <1>11 DEF AssignDevice, Observe, Places, Open, Denying
<1>12. ASSUME NEW c \in Calls, CreateGroup(c) PROVE Told'
  BY <1>12 DEF CreateGroup, Places
<1>13. ASSUME NEW c \in Calls, DeleteGroup(c) PROVE Told'
  BY <1>13 DEF DeleteGroup, Observe, Places, Open
<1>14. ASSUME NEW c \in Calls, LogOk(c) PROVE Told'
  <2>1. request[c].kind \in Single \cup Bulk => todo[c] = {}
    BY <1>14 DEF LogOk, Work, Commanding
  <2>2. request[c].kind \in Denying => Matches(request[c], hash[c])
    BY <1>14 DEF LogOk, Earned, Passed, Denying, Gated, Corrections, Bulk
  <2> QED  BY <1>14, <2>1, <2>2 DEF LogOk, Work, Places
<1>15. ASSUME NEW c \in Calls, LogDenied(c) PROVE Told'
  BY <1>15 DEF LogDenied, Places
<1>16. ASSUME NEW c \in Calls, Fail(c) PROVE Told'
  BY <1>16 DEF Fail, Places, Open
<1>17. CASE UNCHANGED vars
  BY <1>17 DEF vars
<1> QED  BY <1>1, <1>2, <1>3, <1>4, <1>5, <1>6, <1>7, <1>8, <1>9, <1>10, <1>11, <1>12,
            <1>13, <1>14, <1>15, <1>16, <1>17 DEF Next

-----------------------------------------------------------------------------
(* The theorems                                                            *)

LEMMA IInvHolds == Spec => []IInv
<1>1. Init => IInv
  <2> SUFFICES ASSUME Init PROVE IInv
    OBVIOUS
  <2>1. TypeOK
    BY TypeInit
  <2>2. Places /\ Current /\ Earned /\ Work
    BY DEF Init, Places, Current, Open, Earned, Passed, Work
  <2>3. AuditedIsDone /\ TrailIsComplete /\ OneVoids
    BY DEF Init, AuditedIsDone, TrailIsComplete, OneVoids
  <2> QED  BY <2>1, <2>2, <2>3 DEF IInv
<1>2. IInv /\ [Next]_vars => IInv'
  BY TypeStep, PlacesStep, CurrentStep, EarnedStep, WorkStep, ToldStep DEF IInv, Told
<1> QED  BY <1>1, <1>2, PTL DEF Spec

\* Every variable keeps its type.
THEOREM TypeCorrect == Spec => []TypeOK
<1>1. IInv => TypeOK
  BY DEF IInv
<1> QED  BY <1>1, IInvHolds, PTL

\* Commands go to devices that were due at one moment of their call.
THEOREM CommandsGoWhereDue == Spec => []CommandsWereDue
<1>1. IInv => CommandsWereDue
  BY DEF IInv, Earned, CommandsWereDue
<1> QED  BY <1>1, IInvHolds, PTL

\* An audit row "ok" means that every command of its call is in the queue.
THEOREM AuditTellsWhatWasDone == Spec => []AuditedIsDone
<1>1. IInv => AuditedIsDone
  BY DEF IInv
<1> QED  BY <1>1, IInvHolds, PTL

\* A password rotated away before a call opens nothing for it.
THEOREM GateHoldsUnderRotation == Spec => []OldPasswordsOpenNothing
<1>1. IInv => OldPasswordsOpenNothing
  BY DEF IInv, TypeOK, Earned, OldPasswordsOpenNothing
<1> QED  BY <1>1, IInvHolds, PTL

\* Only a failing statement leaves a change or a refusal out of the trail.
THEOREM TrailOmitsFailuresOnly == Spec => []TrailIsComplete
<1>1. IInv => TrailIsComplete
  BY DEF IInv
<1> QED  BY <1>1, IInvHolds, PTL

\* One call is told it voided a punch, and the punch names it.
THEOREM OneCallVoids == Spec => []OneVoids
<1>1. IInv => OneVoids
  BY DEF IInv
<1> QED  BY <1>1, IInvHolds, PTL
=============================================================================
