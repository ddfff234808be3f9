----------------------------- MODULE AtLeastOnce -----------------------------
(***************************************************************************)
(* What the outbound sync promises for one punch, with no worker, batch or *)
(* retry in sight: a punch that is reported as synced has reached an       *)
(* endpoint of its own tenant; a punch may reach it more than once; a      *)
(* punch the sync gave up on can be queued again; synced is final.         *)
(***************************************************************************)

CONSTANTS Punches, Endpoints,
          MayReach(_, _)   \* MayReach(e, p): e belongs to the tenant of p

VARIABLES state,   \* the sync_status the operator sees
          reached  \* pairs <<endpoint, punch>> the outside world holds

Init ==
    /\ state = [p \in Punches |-> "absent"]
    /\ reached = {}

Accept(p) ==
    /\ state[p] = "absent"
    /\ state' = [state EXCEPT ![p] = "pending"]
    /\ UNCHANGED reached

\* A transmission takes effect, whether or not anyone learns of it.
Transmit(e, S) ==
    /\ \A p \in S : state[p] = "pending" /\ MayReach(e, p)
    /\ reached' = reached \cup ({e} \X S)
    /\ UNCHANGED state

Confirm(S) ==
    /\ \A p \in S : state[p] = "pending" /\ \E e \in Endpoints : <<e, p>> \in reached
    /\ state' = [p \in Punches |-> IF p \in S THEN "synced" ELSE state[p]]
    /\ UNCHANGED reached

GiveUp(S) ==
    /\ \A p \in S : state[p] = "pending"
    /\ state' = [p \in Punches |-> IF p \in S THEN "failed" ELSE state[p]]
    /\ UNCHANGED reached

Requeue(S) ==
    /\ \A p \in S : state[p] = "failed"
    /\ state' = [p \in Punches |-> IF p \in S THEN "pending" ELSE state[p]]
    /\ UNCHANGED reached

Next ==
    \/ \E p \in Punches : Accept(p)
    \/ \E e \in Endpoints, S \in SUBSET Punches : Transmit(e, S)
    \/ \E S \in SUBSET Punches : Confirm(S) \/ GiveUp(S) \/ Requeue(S)

Spec == Init /\ [][Next]_<<state, reached>>

=============================================================================
