----------------------------- MODULE TenantQuota -----------------------------
(***************************************************************************)
(* What GovernedQueryGateway promises each tenant database: at most        *)
(* QueueLimit of its requests are inside the gateway and at most           *)
(* ConcurrentLimit of those are past the semaphore, whatever happens to    *)
(* the others; a request that leaves gives its place back.                 *)
(***************************************************************************)
EXTENDS Naturals, FiniteSets

CONSTANTS Requests, Tenants, TenantOf, ConcurrentLimit, QueueLimit

VARIABLES
    inside,      \* requests the gateway has admitted and not yet answered
    running      \* those of them past the semaphore

Inside(t)  == {r \in inside : TenantOf[r] = t}
RunningOf(t) == {r \in running : TenantOf[r] = t}

QInit == inside = {} /\ running = {}

Admit(r) ==
    /\ r \notin inside
    /\ Cardinality(Inside(TenantOf[r])) < QueueLimit
    /\ inside' = inside \cup {r}
    /\ UNCHANGED running

Start(r) ==
    /\ r \in inside \ running
    /\ Cardinality(RunningOf(TenantOf[r])) < ConcurrentLimit
    /\ running' = running \cup {r}
    /\ UNCHANGED inside

AdmitAndStart(r) ==
    /\ r \notin inside
    /\ Cardinality(Inside(TenantOf[r])) < QueueLimit
    /\ Cardinality(RunningOf(TenantOf[r])) < ConcurrentLimit
    /\ inside' = inside \cup {r}
    /\ running' = running \cup {r}

Leave(r) ==
    /\ r \in inside
    /\ inside' = inside \ {r}
    /\ running' = running \ {r}

QNext == \E r \in Requests : Admit(r) \/ Start(r) \/ AdmitAndStart(r) \/ Leave(r)

QSpec == QInit /\ [][QNext]_<<inside, running>>
=============================================================================
