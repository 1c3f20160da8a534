---------------------------- MODULE QueryGateway ----------------------------
(***************************************************************************)
(* GovernedQueryGateway.execute (services/query_gateway.py) and its caller *)
(* Query._execute_governed (routes/sql_query_controller.py).               *)
(*                                                                         *)
(* Every request is a coroutine of one event loop, so the code between two *)
(* awaits is one action.  The awaits that suspend are: the acquisition of  *)
(* the tenant's semaphore, the policy evaluation and the execution of the  *)
(* statement.  _quotas_lock is never contended: no await happens while it  *)
(* is held, so "async with self._quotas_lock" does not suspend.            *)
(*                                                                         *)
(* asyncio.Semaphore and asyncio.wait_for (CPython 3.12) are external; the *)
(* definitions that model them say so.                                     *)
(***************************************************************************)
EXTENDS Integers, Sequences, FiniteSets

CONSTANTS
    Requests,          \* task slots of the event loop, reused after a reply
    Tenants,           \* (org_id, database_id) pairs, the keys of _tenant_quotas
    TenantOf,          \* the tenant each task slot's requests belong to
    ConcurrentLimit,   \* TENANT_CONCURRENT_LIMIT
    QueueLimit         \* TENANT_QUEUE_LIMIT

ASSUME QuotaAssumption ==
    /\ IsFiniteSet(Requests)
    /\ TenantOf \in [Requests -> Tenants]
    /\ ConcurrentLimit \in Nat \ {0}
    /\ QueueLimit \in Nat \ {0}

VARIABLES
    stage,             \* where each request's coroutine is suspended
    interrupt,         \* what was thrown into a task waiting for the semaphore
    semValue,          \* Semaphore._value per tenant
    semWaiters,        \* Semaphore._waiters per tenant, oldest first
    current_queued,    \* TenantQuota.current_queued
    gauge,             \* ACTIVE_TENANT_CONNECTIONS per tenant
    trail,             \* audit events of the slot's latest request, in order
    outcome            \* what the slot's latest request was answered

semVars == <<semValue, semWaiters>>
vars == <<stage, interrupt, semValue, semWaiters, current_queued, gauge,
          trail, outcome>>

-----------------------------------------------------------------------------
(* idle: no coroutine.  pending, granted, cancelled: suspended in acquire, *)
(* by the state of the waiter's future.  policy: awaiting the evaluator.   *)
(* executing: awaiting service.execute_sql_statement.                      *)
Waiting   == {"pending", "granted", "cancelled"}
Running   == {"policy", "executing"}
Stage     == {"idle"} \cup Waiting \cup Running
Interrupt == {"none", "timeout", "cancel"}

Event == {"tenant_resolution_failed", "sql_query_started",
          "query_rejected_overload", "sql_validation_failed",
          "policy_denied", "sql_query"}

(* rows: the masked result.  invalid: ValueError with its own message.     *)
(* db_error: GraphQLError SQL_EXECUTION_ERROR.  failed: the generic        *)
(* exception every other error becomes.  forbidden: PermissionError raised *)
(* before the pipeline.  cancelled: the task was cancelled, no reply.      *)
Outcome == {"none", "rows", "invalid", "db_error", "failed", "forbidden",
            "cancelled"}

InFlight(t) == {r \in Requests : TenantOf[r] = t /\ stage[r] # "idle"}
Active(t)   == {r \in Requests : TenantOf[r] = t /\ stage[r] \in Running}
Pending(t)  == {r \in Requests : TenantOf[r] = t /\ stage[r] = "pending"}
Granted(t)  == {r \in Requests : TenantOf[r] = t /\ stage[r] = "granted"}
(* The requests that hold one of the semaphore's permits. *)
Holders(t)  == {r \in Requests : TenantOf[r] = t
                                   /\ stage[r] \in Running \cup {"granted"}}

Init ==
    /\ stage = [r \in Requests |-> "idle"]
    /\ interrupt = [r \in Requests |-> "none"]
    /\ semValue = [t \in Tenants |-> ConcurrentLimit]
    /\ semWaiters = [t \in Tenants |-> <<>>]
    /\ current_queued = [t \in Tenants |-> 0]
    /\ gauge = [t \in Tenants |-> 0]
    /\ trail = [r \in Requests |-> <<>>]
    /\ outcome = [r \in Requests |-> "none"]

-----------------------------------------------------------------------------
(* asyncio.Semaphore (external).                                           *)

(* locked(): no free permit, or somebody who is not cancelled is queued. *)
Locked(t) == semValue[t] = 0 \/ Pending(t) # {} \/ Granted(t) # {}

Before(t, q, r) ==
    \E i, j \in DOMAIN semWaiters[t] :
        i < j /\ semWaiters[t][i] = q /\ semWaiters[t][j] = r

(* Mutant: nobody is woken. *)
WokenByNobody(t, n) == {{}}

(* Mutant: any pending waiter may be woken. *)
WokenByAnyOrder(t, n) ==
    {G \in SUBSET Pending(t) :
        Cardinality(G) = (IF Pending(t) = {} \/ n = 0 THEN 0 ELSE 1)}

(* The waiters that n calls of _wake_up_next reach: the n oldest pending   *)
(* ones, or all of them when there are no more than n.                     *)
WokenBy(t, n) ==
    {G \in SUBSET Pending(t) :
        /\ Cardinality(G) <= n
        /\ G # Pending(t) => Cardinality(G) = n
        /\ \A q \in G, r \in Pending(t) \ G : Before(t, q, r)}

(* r moves to stage s and gives back `gained' permits; then _wake_up_next  *)
(* is called n times, and hands a permit to each waiter it reaches.        *)
WakeUpNext(r, s, gained, n) ==
    LET t == TenantOf[r] IN
    \E G \in WokenBy(t, n) :
        /\ semValue' = [semValue EXCEPT ![t] = (@ + gained) - Cardinality(G)]
        /\ stage' = [q \in Requests |-> IF q = r THEN s
                                        ELSE IF q \in G THEN "granted"
                                        ELSE stage[q]]

(* self._waiters.remove(fut) *)
LeaveWaiters(r) ==
    LET ws == semWaiters[TenantOf[r]] IN
    \E k \in DOMAIN ws :
        /\ ws[k] = r
        /\ semWaiters' = [semWaiters EXCEPT ![TenantOf[r]] =
                             SubSeq(ws, 1, k - 1) \o SubSeq(ws, k + 1, Len(ws))]

-----------------------------------------------------------------------------
(* Mutant: the finally forgets current_queued. *)
DequeueNothing(r) == UNCHANGED current_queued

(* quota.current_queued = max(0, quota.current_queued - 1), in the finally *)
Dequeue(r) ==
    current_queued' =
        [current_queued EXCEPT ![TenantOf[r]] = IF @ = 0 THEN 0 ELSE @ - 1]

(* The answer, and the audit events written on the way to it. *)
Reply(r, o, events) ==
    /\ trail' = [trail EXCEPT ![r] = @ \o events]
    /\ outcome' = [outcome EXCEPT ![r] = o]

(* An audit call whose sink accepts the event, or raises. *)
Audited(event) == {<<event>>, <<>>}

(* The error replies of _execute_governed.  A ValueError is audited as     *)
(* sql_validation_failed; when that audit raises too, the answer is the    *)
(* audit's exception instead.  Any other exception leaves no event.        *)
ErrorReply(r) ==
    \/ Reply(r, "invalid", <<"sql_validation_failed">>)
    \/ Reply(r, "failed", <<>>)

(* Mutant: no finally around the pipeline, the permit is not released. *)
ReplyWithoutRelease(r) ==
    /\ stage' = [stage EXCEPT ![r] = "idle"]
    /\ Dequeue(r)
    /\ UNCHANGED <<interrupt, semVars, gauge>>

(* The finally of execute for a request that holds a permit. *)
ReleaseAndReply(r) ==
    /\ WakeUpNext(r, "idle", 1, 1)
    /\ gauge' = [gauge EXCEPT ![TenantOf[r]] =
                    ConcurrentLimit - semValue'[TenantOf[r]]]
    /\ Dequeue(r)
    /\ UNCHANGED <<interrupt, semWaiters>>

(* Mutant: off by one. *)
QueueFullOffByOne(t) == current_queued[t] > QueueLimit

(* quota.current_queued >= quota.queue_limit *)
QueueFull(t) == current_queued[t] >= QueueLimit

(* Mutant: the finally releases although semaphore_acquired is False. *)
PermitToReturnAlways(r) == 1

(* The permit an interrupted waiter gives back: acquire undoes a grant,    *)
(* and semaphore_acquired keeps the finally from releasing another one.    *)
PermitToReturn(r) == IF stage[r] = "granted" THEN 1 ELSE 0

-----------------------------------------------------------------------------
(* _request_context and the input checks refuse the request: no principal, *)
(* an unresolved tenant database (audited), an empty or too long statement.*)
RefuseInput(r) ==
    /\ stage[r] = "idle"
    /\ \E o \in {"forbidden", "invalid", "failed"} :
       \E events \in Audited("tenant_resolution_failed") :
           /\ events # <<>> => o = "forbidden"
           /\ trail' = [trail EXCEPT ![r] = events]
           /\ outcome' = [outcome EXCEPT ![r] = o]
    /\ UNCHANGED <<stage, interrupt, semVars, current_queued, gauge>>

(* current_queued has reached queue_limit: audited and refused. *)
RejectOverload(r) ==
    /\ stage[r] = "idle"
    /\ QueueFull(TenantOf[r])
    /\ \E events \in Audited("query_rejected_overload") :
           trail' = [trail EXCEPT ![r] = <<"sql_query_started">> \o events]
    /\ outcome' = [outcome EXCEPT ![r] = "failed"]
    /\ UNCHANGED <<stage, interrupt, semVars, current_queued, gauge>>

(* Admitted, but the semaphore is locked: acquire appends a future.  The   *)
(* gauge of active connections is set to current_queued.                   *)
EnqueueAndWait(r) ==
    LET t == TenantOf[r] IN
    /\ stage[r] = "idle"
    /\ ~QueueFull(t)
    /\ Locked(t)
    /\ current_queued' = [current_queued EXCEPT ![t] = @ + 1]
    /\ gauge' = [gauge EXCEPT ![t] = current_queued[t] + 1]
    /\ semWaiters' = [semWaiters EXCEPT ![t] = Append(@, r)]
    /\ stage' = [stage EXCEPT ![r] = "pending"]
    /\ trail' = [trail EXCEPT ![r] = <<"sql_query_started">>]
    /\ outcome' = [outcome EXCEPT ![r] = "none"]
    /\ UNCHANGED <<interrupt, semValue>>

(* Admitted and acquire returned at once; the statement is valid.          *)
EnqueueAndStart(r) ==
    LET t == TenantOf[r] IN
    /\ stage[r] = "idle"
    /\ ~QueueFull(t)
    /\ ~Locked(t)
    /\ current_queued' = [current_queued EXCEPT ![t] = @ + 1]
    /\ semValue' = [semValue EXCEPT ![t] = @ - 1]
    /\ gauge' = [gauge EXCEPT ![t] = ConcurrentLimit - (semValue[t] - 1)]
    /\ stage' = [stage EXCEPT ![r] = "policy"]
    /\ trail' = [trail EXCEPT ![r] = <<"sql_query_started">>]
    /\ outcome' = [outcome EXCEPT ![r] = "none"]
    /\ UNCHANGED <<interrupt, semWaiters>>

(* Admitted and acquired, and clean_and_validate_sql raised: the finally   *)
(* releases the permit before anything else runs.                          *)
EnqueueInvalid(r) ==
    LET t == TenantOf[r] IN
    /\ stage[r] = "idle"
    /\ ~QueueFull(t)
    /\ ~Locked(t)
    /\ gauge' = [gauge EXCEPT ![t] = ConcurrentLimit - semValue[t]]
    /\ \/ /\ trail' = [trail EXCEPT ![r] =
                          <<"sql_query_started", "sql_validation_failed">>]
          /\ outcome' = [outcome EXCEPT ![r] = "invalid"]
       \/ /\ trail' = [trail EXCEPT ![r] = <<"sql_query_started">>]
          /\ outcome' = [outcome EXCEPT ![r] = "failed"]
    /\ UNCHANGED <<stage, interrupt, semVars, current_queued>>

(* wait_for's timer fires: the task is cancelled.  A future that was       *)
(* granted in the meantime stays granted (external: asyncio.timeouts).     *)
WaitTimeout(r) ==
    /\ stage[r] \in {"pending", "granted"}
    /\ interrupt[r] = "none"
    /\ interrupt' = [interrupt EXCEPT ![r] = "timeout"]
    /\ stage' = [stage EXCEPT ![r] = IF @ = "pending" THEN "cancelled" ELSE @]
    /\ UNCHANGED <<semVars, current_queued, gauge, trail, outcome>>

(* The server cancels a task that waits for the semaphore. *)
CancelWaiting(r) ==
    /\ stage[r] \in Waiting
    /\ interrupt[r] # "cancel"
    /\ interrupt' = [interrupt EXCEPT ![r] = "cancel"]
    /\ stage' = [stage EXCEPT ![r] = IF @ = "pending" THEN "cancelled" ELSE @]
    /\ UNCHANGED <<semVars, current_queued, gauge, trail, outcome>>

(* acquire returns in the granted task, which wakes as many waiters as     *)
(* there are free permits; the statement is valid.                         *)
StartGranted(r) ==
    LET t == TenantOf[r] IN
    /\ stage[r] = "granted"
    /\ interrupt[r] = "none"
    /\ LeaveWaiters(r)
    /\ WakeUpNext(r, "policy", 0, semValue[t])
    /\ gauge' = [gauge EXCEPT ![t] = ConcurrentLimit - semValue'[t]]
    /\ UNCHANGED <<interrupt, current_queued, trail, outcome>>

(* The same, and clean_and_validate_sql raises: the permit is released in  *)
(* the same step.                                                          *)
InvalidGranted(r) ==
    LET t == TenantOf[r] IN
    /\ stage[r] = "granted"
    /\ interrupt[r] = "none"
    /\ LeaveWaiters(r)
    /\ WakeUpNext(r, "idle", 1, semValue[t] + 1)
    /\ gauge' = [gauge EXCEPT ![t] = ConcurrentLimit - semValue'[t]]
    /\ Dequeue(r)
    /\ ErrorReply(r)
    /\ UNCHANGED interrupt

(* A task whose wait was interrupted resumes: acquire gives a granted      *)
(* permit back and passes free permits on; a timeout is audited and        *)
(* refused, a cancellation just leaves.  semaphore_acquired is False, so   *)
(* the finally only decrements current_queued.                             *)
AbandonWait(r) ==
    LET t == TenantOf[r]
        gained == PermitToReturn(r) IN
    /\ stage[r] \in {"granted", "cancelled"}
    /\ interrupt[r] # "none"
    /\ LeaveWaiters(r)
    /\ WakeUpNext(r, "idle", gained, semValue[t] + gained)
    /\ interrupt' = [interrupt EXCEPT ![r] = "none"]
    /\ Dequeue(r)
    /\ \/ /\ interrupt[r] = "timeout"
          /\ \E events \in Audited("query_rejected_overload") :
                 Reply(r, "failed", events)
       \/ /\ interrupt[r] = "cancel"
          /\ Reply(r, "cancelled", <<>>)
    /\ UNCHANGED gauge

(* Mutant: the statement is sent without the audit event. *)
PolicyAllowUnaudited(r) ==
    /\ stage[r] = "policy"
    /\ stage' = [stage EXCEPT ![r] = "executing"]
    /\ UNCHANGED <<interrupt, semVars, current_queued, gauge, trail, outcome>>

(* The evaluator allows the statement: row restrictions and column masks   *)
(* are written into it, the query is audited, and only then it is sent.    *)
PolicyAllow(r) ==
    /\ stage[r] = "policy"
    /\ trail' = [trail EXCEPT ![r] = Append(@, "sql_query")]
    /\ stage' = [stage EXCEPT ![r] = "executing"]
    /\ UNCHANGED <<interrupt, semVars, current_queued, gauge, outcome>>

(* decision.allowed is False: audited and refused. *)
PolicyDeny(r) ==
    /\ stage[r] = "policy"
    /\ \E events \in Audited("policy_denied") : Reply(r, "failed", events)
    /\ ReleaseAndReply(r)

(* The evaluator, apply_row_restrictions, rewrite_masked_columns or the    *)
(* audit of the query raised: nothing was executed.                        *)
PolicyError(r) ==
    /\ stage[r] = "policy"
    /\ ErrorReply(r)
    /\ ReleaseAndReply(r)

(* The repository returned rows; they are masked and returned. *)
ReturnRows(r) ==
    /\ stage[r] = "executing"
    /\ Reply(r, "rows", <<>>)
    /\ ReleaseAndReply(r)

(* The repository raised: a cost or limit guard, a timeout, the database. *)
ExecutionError(r) ==
    /\ stage[r] = "executing"
    /\ ErrorReply(r) \/ Reply(r, "db_error", <<>>)
    /\ ReleaseAndReply(r)

(* The server cancels a task that holds a permit: CancelledError comes out *)
(* of the await, no except clause catches it, the finally runs.            *)
CancelRunning(r) ==
    /\ stage[r] \in Running
    /\ Reply(r, "cancelled", <<>>)
    /\ ReleaseAndReply(r)

-----------------------------------------------------------------------------
Arrive(r) ==
    \/ RefuseInput(r) \/ RejectOverload(r) \/ EnqueueAndWait(r)
    \/ EnqueueAndStart(r) \/ EnqueueInvalid(r)

(* The event loop runs a task whose await has completed. *)
Resume(r) == StartGranted(r) \/ InvalidGranted(r) \/ AbandonWait(r)

(* The evaluator and the repository answer: both are bounded by timeouts.  *)
Answer(r) ==
    \/ PolicyAllow(r) \/ PolicyDeny(r) \/ PolicyError(r)
    \/ ReturnRows(r) \/ ExecutionError(r)

Cancel(r) == CancelWaiting(r) \/ CancelRunning(r)

Next ==
    \E r \in Requests :
        Arrive(r) \/ WaitTimeout(r) \/ Cancel(r) \/ Resume(r) \/ Answer(r)

Spec == Init /\ [][Next]_vars

(* The event loop runs every ready task and every await is answered.  No   *)
(* fairness for the 30 s timer, for cancellation or for clients: progress  *)
(* must not depend on them.                                                *)
Fairness == \A r \in Requests : WF_vars(Resume(r)) /\ WF_vars(Answer(r))

FairSpec == Spec /\ Fairness
-----------------------------------------------------------------------------
(* The variables hold values of their types. *)
TypeOK ==
    /\ stage \in [Requests -> Stage]
    /\ interrupt \in [Requests -> Interrupt]
    /\ semValue \in [Tenants -> Nat]
    /\ semWaiters \in [Tenants -> Seq(Requests)]
    /\ current_queued \in [Tenants -> Nat]
    /\ gauge \in [Tenants -> Int]
    /\ trail \in [Requests -> Seq(Event)]
    /\ outcome \in [Requests -> Outcome]

(* No permit is lost or minted, even when the 30 s timer or a cancellation *)
(* hits a waiter that was handed a permit and has not run yet: the free    *)
(* permits and the holders always add up to the tenant's concurrency limit.*)
PermitsConserved ==
    \A t \in Tenants : semValue[t] + Cardinality(Holders(t)) = ConcurrentLimit

(* TENANT_CONCURRENT_LIMIT: never more statements of one tenant database   *)
(* past the semaphore than configured.                                     *)
ConcurrencyBounded ==
    \A t \in Tenants : Cardinality(Active(t)) <= ConcurrentLimit

(* current_queued counts exactly the requests between admission and the    *)
(* finally, on every path out of execute; the max(0, ...) that would hide  *)
(* a double decrement never bites, and the count stays within queue_limit. *)
QueueCountExact ==
    \A t \in Tenants :
        /\ current_queued[t] = Cardinality(InFlight(t))
        /\ current_queued[t] <= QueueLimit

(* No lost wake-up: while a permit is free and a request waits for one,    *)
(* some granted task is about to run and will pass the permit on.          *)
NoLostWakeup ==
    \A t \in Tenants :
        (semValue[t] > 0 /\ Pending(t) # {}) => Granted(t) # {}

(* Permits are handed out in the order of arrival: no waiter holds one     *)
(* while an older waiter is still pending.                                 *)
GrantsInOrder ==
    \A t \in Tenants : \A q \in Granted(t), r \in Pending(t) : ~Before(t, r, q)

(* The audit trail accounts for what the gateway did: a statement runs,    *)
(* and rows are returned, only after sql_query was audited, and a request  *)
(* that was refused by policy or overload never carries a sql_query event. *)
AuditedBeforeExecution ==
    \A r \in Requests :
        /\ stage[r] = "executing" => trail[r] = <<"sql_query_started", "sql_query">>
        /\ outcome[r] = "rows" => trail[r] = <<"sql_query_started", "sql_query">>
        /\ \A i \in DOMAIN trail[r] :
              trail[r][i] \in {"policy_denied", "query_rejected_overload"} =>
                  /\ outcome[r] = "failed"
                  /\ \A j \in DOMAIN trail[r] : trail[r][j] # "sql_query"

(* The refinement mapping to TenantQuota. *)
AllInFlight == {r \in Requests : stage[r] # "idle"}
AllActive   == {r \in Requests : stage[r] \in Running}

Quota == INSTANCE TenantQuota WITH inside <- AllInFlight, running <- AllActive

(* The gateway implements TenantQuota: admission and the start of a        *)
(* statement respect both limits step by step, per tenant.                 *)
ImplementsTenantQuota == Quota!QSpec

(* Every request the gateway admitted leaves it again, without help from   *)
(* the 30 s timer: a waiter is never forgotten, whoever else times out or  *)
(* is cancelled around it.                                                 *)
EveryRequestLeaves ==
    \A r \in Requests : (stage[r] # "idle") ~> (stage[r] = "idle")
=============================================================================
