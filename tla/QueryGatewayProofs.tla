------------------------- MODULE QueryGatewayProofs -------------------------
(***************************************************************************)
(* Proofs about QueryGateway for every number of requests and tenants and  *)
(* for every limit: type correctness, conservation of the semaphore's      *)
(* permits and of the queue count, the order of grants, the audit trail of *)
(* every request, and the implementation of TenantQuota.                   *)
(***************************************************************************)
EXTENDS QueryGateway, FiniteSetTheorems, SequenceTheorems, TLAPS

(* The sets of requests the gateway's counters stand for are finite. *)
LEMMA SlotSetsFinite ==
    ASSUME NEW S \in SUBSET Requests
    PROVE  IsFiniteSet(S) /\ Cardinality(S) \in Nat
BY QuotaAssumption, FS_Subset, FS_CardinalityType

(* The cardinality of a disjoint union is the sum of the cardinalities. *)
LEMMA DisjointCardinality ==
    ASSUME NEW S \in SUBSET Requests, NEW T \in SUBSET Requests, S \cap T = {}
    PROVE  Cardinality(S \cup T) = Cardinality(S) + Cardinality(T)
<1>1. IsFiniteSet(S) /\ IsFiniteSet(T)
  BY SlotSetsFinite
<1>2. Cardinality(S \cap T) = 0
  BY FS_EmptySet
<1>3. Cardinality(S) \in Nat /\ Cardinality(T) \in Nat
  BY SlotSetsFinite
<1>4. Cardinality(S \cup T)
        = Cardinality(S) + Cardinality(T) - Cardinality(S \cap T)
  BY <1>1, FS_Union
<1> QED BY <1>2, <1>3, <1>4

(* A waiter that is woken was pending. *)
LEMMA WokenArePending ==
    ASSUME NEW t \in Tenants, NEW n \in Nat, NEW G \in WokenBy(t, n)
    PROVE  /\ G \subseteq Pending(t)
           /\ G \subseteq Requests
           /\ Cardinality(G) \in Nat
           /\ Cardinality(G) <= n
<1>1. G \subseteq Pending(t) /\ Cardinality(G) <= n
  BY DEF WokenBy
<1>2. G \in SUBSET Requests
  BY <1>1 DEF Pending
<1> QED BY <1>1, <1>2, SlotSetsFinite

(* _wake_up_next keeps the types when it is called at most once per free   *)
(* permit.                                                                 *)
LEMMA WakeUpTypes ==
    ASSUME TypeOK, NEW r \in Requests, NEW s \in Stage, NEW gained \in {0, 1},
           NEW n \in Nat, n <= semValue[TenantOf[r]] + gained,
           WakeUpNext(r, s, gained, n)
    PROVE  stage' \in [Requests -> Stage] /\ semValue' \in [Tenants -> Nat]
<1> DEFINE t == TenantOf[r]
<1>1. t \in Tenants
  BY QuotaAssumption
<1>2. PICK G \in WokenBy(t, n) :
        /\ semValue' = [semValue EXCEPT ![t] = (@ + gained) - Cardinality(G)]
        /\ stage' = [q \in Requests |-> IF q = r THEN s
                                        ELSE IF q \in G THEN "granted"
                                        ELSE stage[q]]
  BY DEF WakeUpNext
<1>3. Cardinality(G) \in Nat /\ Cardinality(G) <= n
  BY <1>1, WokenArePending
<1>4. stage' \in [Requests -> Stage]
  BY <1>2 DEF TypeOK, Stage, Waiting
<1>5. (semValue[t] + gained) - Cardinality(G) \in Nat
  BY <1>1, <1>3 DEF TypeOK
<1>6. semValue' \in [Tenants -> Nat]
  BY <1>2, <1>5 DEF TypeOK
<1> QED BY <1>4, <1>6

(* The permits of every tenant after a step that calls _wake_up_next:      *)
(* whoever is woken takes a free permit, so the sum of free permits and    *)
(* holders changes only by what r gains and gives up.                      *)
LEMMA WakeUpPermits ==
    ASSUME TypeOK, NEW r \in Requests, NEW s \in Stage, NEW gained \in {0, 1},
           NEW n \in Nat, n <= semValue[TenantOf[r]] + gained,
           stage[r] # "pending", s \in {"idle", "policy"},
           gained + (IF s = "policy" THEN 1 ELSE 0)
               = (IF r \in Holders(TenantOf[r]) THEN 1 ELSE 0),
           WakeUpNext(r, s, gained, n)
    PROVE  \A u \in Tenants : semValue'[u] + Cardinality(Holders(u)')
                                = semValue[u] + Cardinality(Holders(u))
<1> DEFINE t == TenantOf[r]
<1>1. t \in Tenants
  BY QuotaAssumption
<1>2. PICK G \in WokenBy(t, n) :
        /\ semValue' = [semValue EXCEPT ![t] = (@ + gained) - Cardinality(G)]
        /\ stage' = [q \in Requests |-> IF q = r THEN s
                                        ELSE IF q \in G THEN "granted"
                                        ELSE stage[q]]
  BY DEF WakeUpNext
<1>3. /\ G \subseteq Pending(t) /\ G \subseteq Requests
      /\ Cardinality(G) \in Nat /\ Cardinality(G) <= n
  BY <1>1, WokenArePending
<1>4. r \notin G
  BY <1>3 DEF Pending
<1> DEFINE Rest == Holders(t) \ {r}
           Own  == IF s = "policy" THEN {r} ELSE {}
<1>5. Rest \cap G = {} /\ Rest \in SUBSET Requests /\ Holders(t) \in SUBSET Requests
  BY <1>3 DEF Holders, Pending, Running
<1>6. Holders(t)' = (Rest \cup G) \cup Own
  <2>1. Holders(t)' = {q \in Requests : TenantOf[q] = t
                                   /\ stage'[q] \in Running \cup {"granted"}}
    BY DEF Holders
  <2>2. ASSUME NEW q \in Requests
        PROVE  (TenantOf[q] = t /\ stage'[q] \in Running \cup {"granted"})
                   <=> q \in (Rest \cup G) \cup Own
    <3>1. CASE q = r
      BY <1>2, <1>4, <3>1 DEF Running, Holders
    <3>2. CASE q # r /\ q \in G
      BY <1>2, <1>3, <3>2 DEF Running, Holders, Pending
    <3>3. CASE q # r /\ q \notin G
      BY <1>2, <3>3 DEF Running, Holders
    <3> QED BY <3>1, <3>2, <3>3
  <2>3. (Rest \cup G) \cup Own \subseteq Requests
    BY <1>3, <1>5
  <2> HIDE DEF Rest, Own
  <2> QED BY <2>1, <2>2, <2>3
<1>7. Cardinality(Rest \cup G) = Cardinality(Rest) + Cardinality(G)
  BY <1>3, <1>5, DisjointCardinality
<1>8. Cardinality((Rest \cup G) \cup Own)
        = Cardinality(Rest) + Cardinality(G) + (IF s = "policy" THEN 1 ELSE 0)
  <2>1. Cardinality(Rest) \in Nat
    BY <1>5, SlotSetsFinite
  <2>2. r \notin Rest \cup G /\ IsFiniteSet(Rest \cup G)
    BY <1>3, <1>4, <1>5, SlotSetsFinite
  <2>3. CASE s = "policy"
    <3>1. Own = {r}
      BY <2>3
    <3>2. Cardinality((Rest \cup G) \cup {r}) = Cardinality(Rest \cup G) + 1
      BY <2>2, FS_AddElement
    <3> QED BY <2>1, <2>3, <3>1, <3>2, <1>3, <1>7
  <2>4. CASE s # "policy"
    <3>1. (Rest \cup G) \cup Own = Rest \cup G
      BY <2>4
    <3> QED BY <2>1, <2>4, <3>1, <1>3, <1>7
  <2> QED BY <2>3, <2>4
<1>9. /\ Cardinality(Holders(t)) \in Nat
      /\ Cardinality(Rest)
           = Cardinality(Holders(t)) - (IF r \in Holders(t) THEN 1 ELSE 0)
  <2>1. IsFiniteSet(Holders(t)) /\ Cardinality(Holders(t)) \in Nat
    BY <1>5, SlotSetsFinite
  <2>2. Cardinality(Holders(t) \ {r})
          = IF r \in Holders(t) THEN Cardinality(Holders(t)) - 1
                                ELSE Cardinality(Holders(t))
    BY <2>1, FS_RemoveElement
  <2> QED BY <2>1, <2>2
<1>10. semValue'[t] + Cardinality(Holders(t)') = semValue[t] + Cardinality(Holders(t))
  <2>1. semValue'[t] = (semValue[t] + gained) - Cardinality(G)
    BY <1>1, <1>2 DEF TypeOK
  <2>2. semValue[t] \in Nat
    BY <1>1 DEF TypeOK
  <2> HIDE DEF Rest, Own, t
  <2> QED BY <1>3, <1>6, <1>8, <1>9, <2>1, <2>2 DEF t
<1>11. ASSUME NEW u \in Tenants, u # t
       PROVE  semValue'[u] = semValue[u] /\ Holders(u)' = Holders(u)
  <2>1. semValue'[u] = semValue[u]
    BY <1>2, <1>11 DEF TypeOK
  <2>2. \A q \in Requests : TenantOf[q] = u => stage'[q] = stage[q]
    BY <1>2, <1>3, <1>11 DEF Pending
  <2> QED BY <2>1, <2>2 DEF Holders
<1> QED BY <1>10, <1>11
-----------------------------------------------------------------------------
(* Replies and audit events have their types.                              *)
LEMMA ReplyTypes ==
    ASSUME TypeOK, NEW r \in Requests, NEW o \in Outcome,
           NEW events \in Seq(Event), Reply(r, o, events)
    PROVE  trail' \in [Requests -> Seq(Event)] /\ outcome' \in [Requests -> Outcome]
BY DEF TypeOK, Reply

(* The same for the handler of an unexpected exception.                    *)
LEMMA ErrorReplyTypes ==
    ASSUME TypeOK, NEW r \in Requests, ErrorReply(r)
    PROVE  trail' \in [Requests -> Seq(Event)] /\ outcome' \in [Requests -> Outcome]
<1>1. <<>> \in Seq(Event) /\ <<"sql_validation_failed">> \in Seq(Event)
  BY DEF Event
<1>2. "invalid" \in Outcome /\ "failed" \in Outcome
  BY DEF Outcome
<1> QED BY <1>1, <1>2, ReplyTypes DEF ErrorReply

(* An audit call records its event or raises.                              *)
LEMMA AuditedTypes ==
    ASSUME NEW e \in Event, NEW events \in Audited(e)
    PROVE  events \in Seq(Event)
<1>1. <<e>> \in Seq(Event) /\ <<>> \in Seq(Event)
  OBVIOUS
<1> QED BY <1>1 DEF Audited

(* Taking a future out of _waiters leaves a queue.                         *)
LEMMA LeaveWaitersTypes ==
    ASSUME TypeOK, NEW r \in Requests, LeaveWaiters(r)
    PROVE  semWaiters' \in [Tenants -> Seq(Requests)]
<1> DEFINE ws == semWaiters[TenantOf[r]]
<1>1. TenantOf[r] \in Tenants /\ ws \in Seq(Requests)
  BY QuotaAssumption DEF TypeOK
<1>2. PICK k \in DOMAIN ws :
        semWaiters' = [semWaiters EXCEPT ![TenantOf[r]] =
                         SubSeq(ws, 1, k - 1) \o SubSeq(ws, k + 1, Len(ws))]
  BY DEF LeaveWaiters
<1>3. k \in 1..Len(ws) /\ Len(ws) \in Nat
  BY <1>1
<1>4. SubSeq(ws, 1, k - 1) \in Seq(Requests)
  <2>1. \A i \in 1..(k - 1) : ws[i] \in Requests
    BY <1>1, <1>3
  <2> QED BY <1>3, <2>1
<1>5. SubSeq(ws, k + 1, Len(ws)) \in Seq(Requests)
  <2>1. \A i \in (k + 1)..Len(ws) : ws[i] \in Requests
    BY <1>1, <1>3
  <2> QED BY <1>3, <2>1
<1>6. SubSeq(ws, 1, k - 1) \o SubSeq(ws, k + 1, Len(ws)) \in Seq(Requests)
  BY <1>4, <1>5
<1> HIDE DEF ws
<1> QED BY <1>1, <1>2, <1>6 DEF TypeOK

(* current_queued never becomes negative: max(0, ...) in the finally       *)
(* clause.                                                                 *)
LEMMA DequeueTypes ==
    ASSUME TypeOK, NEW r \in Requests, Dequeue(r)
    PROVE  current_queued' \in [Tenants -> Nat]
BY QuotaAssumption DEF TypeOK, Dequeue

(* The finally clause of a request that held a permit.                     *)
LEMMA ReleaseTypes ==
    ASSUME TypeOK, NEW r \in Requests, ReleaseAndReply(r)
    PROVE  /\ stage' \in [Requests -> Stage]
           /\ semValue' \in [Tenants -> Nat]
           /\ gauge' \in [Tenants -> Int]
           /\ current_queued' \in [Tenants -> Nat]
           /\ interrupt' = interrupt /\ semWaiters' = semWaiters
<1>1. TenantOf[r] \in Tenants /\ semValue[TenantOf[r]] \in Nat
  BY QuotaAssumption DEF TypeOK
<1>2. WakeUpNext(r, "idle", 1, 1) /\ "idle" \in Stage
  BY DEF ReleaseAndReply, Stage
<1>3. stage' \in [Requests -> Stage] /\ semValue' \in [Tenants -> Nat]
  BY <1>1, <1>2, WakeUpTypes
<1>4. current_queued' \in [Tenants -> Nat]
  BY DequeueTypes DEF ReleaseAndReply
<1>5. gauge' \in [Tenants -> Int]
  <2>1. ConcurrentLimit - semValue'[TenantOf[r]] \in Int
    BY <1>1, <1>3, QuotaAssumption
  <2> QED BY <2>1 DEF TypeOK, ReleaseAndReply
<1> QED BY <1>3, <1>4, <1>5 DEF ReleaseAndReply
-----------------------------------------------------------------------------
(* Admission keeps the types.                                              *)
LEMMA ArriveTypes ==
    ASSUME TypeOK, NEW r \in Requests, Arrive(r)
    PROVE  TypeOK'
<1> DEFINE t == TenantOf[r]
<1>1. t \in Tenants /\ ConcurrentLimit \in Nat /\ semValue[t] \in Nat
  BY QuotaAssumption DEF TypeOK
<1>2. /\ <<"sql_query_started">> \in Seq(Event)
      /\ <<"sql_query_started", "sql_validation_failed">> \in Seq(Event)
      /\ {"none", "failed", "forbidden", "invalid"} \subseteq Outcome
      /\ {"tenant_resolution_failed", "query_rejected_overload"} \subseteq Event
  BY DEF Event, Outcome
<1>3. CASE RefuseInput(r)
  <2>1. PICK o \in {"forbidden", "invalid", "failed"},
             events \in Audited("tenant_resolution_failed") :
          /\ trail' = [trail EXCEPT ![r] = events]
          /\ outcome' = [outcome EXCEPT ![r] = o]
    BY <1>3 DEF RefuseInput
  <2>2. events \in Seq(Event) /\ o \in Outcome
    BY <1>2, AuditedTypes
  <2> QED BY <1>3, <2>1, <2>2 DEF RefuseInput, TypeOK, semVars
<1>4. CASE RejectOverload(r)
  <2>1. PICK events \in Audited("query_rejected_overload") :
          trail' = [trail EXCEPT ![r] = <<"sql_query_started">> \o events]
    BY <1>4 DEF RejectOverload
  <2>2. <<"sql_query_started">> \o events \in Seq(Event)
    BY <1>2, AuditedTypes
  <2> QED BY <1>2, <1>4, <2>1, <2>2 DEF RejectOverload, TypeOK, semVars
<1>5. CASE EnqueueAndWait(r)
  <2>1. semWaiters[t] \in Seq(Requests) /\ Append(semWaiters[t], r) \in Seq(Requests)
    BY <1>1 DEF TypeOK
  <2>2. semWaiters' \in [Tenants -> Seq(Requests)]
    BY <1>5, <2>1 DEF EnqueueAndWait, TypeOK
  <2>3. "pending" \in Stage
    BY DEF Stage, Waiting
  <2>4. current_queued[t] + 1 \in Nat
    BY <1>1 DEF TypeOK
  <2> QED BY <1>2, <1>5, <2>2, <2>3, <2>4 DEF EnqueueAndWait, TypeOK
<1>6. CASE EnqueueAndStart(r)
  <2>1. "policy" \in Stage
    BY DEF Stage, Running
  <2>2. current_queued[t] + 1 \in Nat /\ semValue[t] - 1 \in Nat
    BY <1>1, <1>6 DEF EnqueueAndStart, Locked, TypeOK
  <2>3. ConcurrentLimit - (semValue[t] - 1) \in Int
    BY <1>1
  <2> QED BY <1>2, <1>6, <2>1, <2>2, <2>3 DEF EnqueueAndStart, TypeOK
<1>7. CASE EnqueueInvalid(r)
  <2>1. ConcurrentLimit - semValue[t] \in Int
    BY <1>1
  <2>2. gauge' \in [Tenants -> Int]
    BY <1>7, <2>1 DEF EnqueueInvalid, TypeOK
  <2>3. trail' \in [Requests -> Seq(Event)] /\ outcome' \in [Requests -> Outcome]
    BY <1>2, <1>7 DEF EnqueueInvalid, TypeOK
  <2> QED BY <1>7, <2>2, <2>3 DEF EnqueueInvalid, TypeOK, semVars
<1> QED BY <1>3, <1>4, <1>5, <1>6, <1>7 DEF Arrive

(* A task that leaves the wait for the semaphore keeps the types.          *)
LEMMA ResumeTypes ==
    ASSUME TypeOK, NEW r \in Requests, Resume(r)
    PROVE  TypeOK'
<1> DEFINE t == TenantOf[r]
<1>1. t \in Tenants /\ ConcurrentLimit \in Nat /\ semValue[t] \in Nat
  BY QuotaAssumption DEF TypeOK
<1>2. {"idle", "policy"} \subseteq Stage
  BY DEF Stage, Running
<1>3. CASE StartGranted(r)
  <2>1. WakeUpNext(r, "policy", 0, semValue[t])
    BY <1>3 DEF StartGranted
  <2>2. stage' \in [Requests -> Stage] /\ semValue' \in [Tenants -> Nat]
    BY <1>1, <1>2, <2>1, WakeUpTypes
  <2>3. semWaiters' \in [Tenants -> Seq(Requests)]
    BY <1>3, LeaveWaitersTypes DEF StartGranted
  <2>4. ConcurrentLimit - semValue'[t] \in Int
    BY <1>1, <2>2
  <2> QED BY <1>3, <2>2, <2>3, <2>4 DEF StartGranted, TypeOK
<1>4. CASE InvalidGranted(r)
  <2>1. WakeUpNext(r, "idle", 1, semValue[t] + 1)
    BY <1>4 DEF InvalidGranted
  <2>2. stage' \in [Requests -> Stage] /\ semValue' \in [Tenants -> Nat]
    BY <1>1, <1>2, <2>1, WakeUpTypes
  <2>3. semWaiters' \in [Tenants -> Seq(Requests)]
    BY <1>4, LeaveWaitersTypes DEF InvalidGranted
  <2>4. ConcurrentLimit - semValue'[t] \in Int
    BY <1>1, <2>2
  <2>5. trail' \in [Requests -> Seq(Event)] /\ outcome' \in [Requests -> Outcome]
    BY <1>4, ErrorReplyTypes DEF InvalidGranted
  <2>6. current_queued' \in [Tenants -> Nat]
    BY <1>4, DequeueTypes DEF InvalidGranted
  <2> QED BY <1>4, <2>2, <2>3, <2>4, <2>5, <2>6 DEF InvalidGranted, TypeOK
<1>5. CASE AbandonWait(r)
  <2> DEFINE gained == PermitToReturn(r)
  <2>1. gained \in {0, 1} /\ WakeUpNext(r, "idle", gained, semValue[t] + gained)
    BY <1>5 DEF AbandonWait, PermitToReturn
  <2>2. stage' \in [Requests -> Stage] /\ semValue' \in [Tenants -> Nat]
    <3> HIDE DEF gained
    <3> QED BY <1>1, <1>2, <2>1, WakeUpTypes
  <2>3. semWaiters' \in [Tenants -> Seq(Requests)]
    BY <1>5, LeaveWaitersTypes DEF AbandonWait
  <2>4. trail' \in [Requests -> Seq(Event)] /\ outcome' \in [Requests -> Outcome]
    <3>1. "failed" \in Outcome /\ "cancelled" \in Outcome /\ <<>> \in Seq(Event)
      BY DEF Outcome
    <3>2. \A events \in Audited("query_rejected_overload") : events \in Seq(Event)
      BY AuditedTypes DEF Event
    <3> QED BY <1>5, <3>1, <3>2, ReplyTypes DEF AbandonWait
  <2>5. current_queued' \in [Tenants -> Nat]
    BY <1>5, DequeueTypes DEF AbandonWait
  <2>6. interrupt' \in [Requests -> Interrupt]
    BY <1>5 DEF AbandonWait, TypeOK, Interrupt
  <2> QED BY <1>5, <2>2, <2>3, <2>4, <2>5, <2>6 DEF AbandonWait, TypeOK
<1> QED BY <1>3, <1>4, <1>5 DEF Resume

(* The evaluator, the repository and a cancellation keep the types.        *)
LEMMA AnswerTypes ==
    ASSUME TypeOK, NEW r \in Requests, Answer(r) \/ CancelRunning(r)
    PROVE  TypeOK'
<1>1. {"rows", "db_error", "failed", "cancelled"} \subseteq Outcome
      /\ <<>> \in Seq(Event)
  BY DEF Outcome
<1>2. CASE PolicyAllow(r)
  <2>1. Append(trail[r], "sql_query") \in Seq(Event)
    BY DEF TypeOK, Event
  <2> QED BY <1>2, <2>1 DEF PolicyAllow, TypeOK, Stage, Running, semVars
<1>3. ASSUME ReleaseAndReply(r), trail' \in [Requests -> Seq(Event)],
             outcome' \in [Requests -> Outcome]
      PROVE  TypeOK'
  BY <1>3, ReleaseTypes DEF TypeOK
<1>4. CASE PolicyDeny(r)
  <2>1. PICK events \in Audited("policy_denied") : Reply(r, "failed", events)
    BY <1>4 DEF PolicyDeny
  <2>2. events \in Seq(Event)
    BY AuditedTypes DEF Event
  <2> QED BY <1>1, <1>3, <1>4, <2>1, <2>2, ReplyTypes DEF PolicyDeny
<1>5. CASE PolicyError(r)
  BY <1>3, <1>5, ErrorReplyTypes DEF PolicyError
<1>6. CASE ReturnRows(r)
  BY <1>1, <1>3, <1>6, ReplyTypes DEF ReturnRows
<1>7. CASE ExecutionError(r)
  BY <1>1, <1>3, <1>7, ErrorReplyTypes, ReplyTypes DEF ExecutionError
<1>8. CASE CancelRunning(r)
  BY <1>1, <1>3, <1>8, ReplyTypes DEF CancelRunning
<1> QED BY <1>2, <1>4, <1>5, <1>6, <1>7, <1>8 DEF Answer

(* Every step of the gateway keeps the types; in particular Semaphore      *)
(* _value never becomes negative, because _wake_up_next is called at most  *)
(* once per free permit.                                                   *)
LEMMA TypeStep ==
    ASSUME TypeOK, [Next]_vars
    PROVE  TypeOK'
<1>1. CASE UNCHANGED vars
  BY <1>1 DEF vars, TypeOK
<1>2. ASSUME NEW r \in Requests,
             Arrive(r) \/ WaitTimeout(r) \/ Cancel(r) \/ Resume(r) \/ Answer(r)
      PROVE  TypeOK'
  <2>1. CASE WaitTimeout(r)
    BY <2>1 DEF WaitTimeout, TypeOK, Stage, Waiting, Interrupt, semVars
  <2>2. CASE CancelWaiting(r)
    BY <2>2 DEF CancelWaiting, TypeOK, Stage, Waiting, Interrupt, semVars
  <2> QED BY <1>2, <2>1, <2>2, ArriveTypes, ResumeTypes, AnswerTypes DEF Cancel
<1> QED BY <1>1, <1>2 DEF Next

(* The gateway is type correct (execute, _execute_governed). *)
THEOREM TypeCorrect == Spec => []TypeOK
<1>1. Init => TypeOK
  BY QuotaAssumption DEF Init, TypeOK, Stage, Interrupt, Outcome
<1>2. TypeOK /\ [Next]_vars => TypeOK'
  BY TypeStep
<1> QED BY <1>1, <1>2, PTL DEF Spec
-----------------------------------------------------------------------------
(* What the steps that release through the finally do to the permits. *)
LEMMA ReleasePermits ==
    ASSUME TypeOK, NEW r \in Requests, stage[r] \in Running, ReleaseAndReply(r)
    PROVE  \A u \in Tenants : semValue'[u] + Cardinality(Holders(u)')
                                = semValue[u] + Cardinality(Holders(u))
<1>1. TenantOf[r] \in Tenants /\ semValue[TenantOf[r]] \in Nat
  BY QuotaAssumption DEF TypeOK
<1>2. WakeUpNext(r, "idle", 1, 1) /\ "idle" \in Stage
  BY DEF ReleaseAndReply, Stage
<1>3. stage[r] # "pending" /\ r \in Holders(TenantOf[r])
  BY DEF Running, Holders
<1> QED BY <1>1, <1>2, <1>3, WakeUpPermits

(* No step of the gateway changes the sum of free permits and holders. *)
LEMMA PermitStep ==
    ASSUME TypeOK, [Next]_vars
    PROVE  \A u \in Tenants : semValue'[u] + Cardinality(Holders(u)')
                                = semValue[u] + Cardinality(Holders(u))
<1> DEFINE Same == \A u \in Tenants : semValue'[u] + Cardinality(Holders(u)')
                                        = semValue[u] + Cardinality(Holders(u))
<1>1. ASSUME semValue' = semValue, \A u \in Tenants : Holders(u)' = Holders(u)
      PROVE  Same
  BY <1>1
<1>2. CASE UNCHANGED vars
  <2>1. \A u \in Tenants : Holders(u)' = Holders(u)
    BY <1>2 DEF vars, Holders
  <2> QED BY <1>1, <1>2, <2>1 DEF vars
<1>3. ASSUME NEW r \in Requests,
             Arrive(r) \/ WaitTimeout(r) \/ Cancel(r) \/ Resume(r) \/ Answer(r)
      PROVE  Same
  <2> DEFINE t == TenantOf[r]
  <2>1. t \in Tenants /\ semValue[t] \in Nat
    BY QuotaAssumption DEF TypeOK
  <2>2. CASE RefuseInput(r) \/ RejectOverload(r) \/ EnqueueInvalid(r)
    <3>1. UNCHANGED <<stage, semValue>>
      BY <2>2 DEF RefuseInput, RejectOverload, EnqueueInvalid, semVars
    <3>2. \A u \in Tenants : Holders(u)' = Holders(u)
      BY <3>1 DEF Holders
    <3> QED BY <1>1, <3>1, <3>2
  <2>3. CASE EnqueueAndWait(r) \/ WaitTimeout(r) \/ CancelWaiting(r) \/ PolicyAllow(r)
    <3>1. semValue' = semValue
      BY <2>3 DEF EnqueueAndWait, WaitTimeout, CancelWaiting, PolicyAllow, semVars
    <3>2. \A q \in Requests : stage'[q] \in Running \cup {"granted"}
                                <=> stage[q] \in Running \cup {"granted"}
      BY <2>3 DEF EnqueueAndWait, WaitTimeout, CancelWaiting, PolicyAllow,
                  TypeOK, Stage, Running, Waiting
    <3>3. \A u \in Tenants : Holders(u)' = Holders(u)
      BY <3>2 DEF Holders
    <3> QED BY <1>1, <3>1, <3>3
  <2>4. CASE EnqueueAndStart(r)
    <3>1. r \notin Holders(t) /\ Holders(t) \in SUBSET Requests
      BY <2>4 DEF EnqueueAndStart, Holders, Running
    <3>2. Holders(t)' = Holders(t) \cup {r}
      BY <2>4 DEF EnqueueAndStart, Holders, Running, TypeOK
    <3>3. IsFiniteSet(Holders(t)) /\ Cardinality(Holders(t)) \in Nat
      BY <3>1, SlotSetsFinite
    <3>4. Cardinality(Holders(t)') = Cardinality(Holders(t)) + 1
      <4>1. Cardinality(Holders(t) \cup {r}) = Cardinality(Holders(t)) + 1
        BY <3>1, <3>3, FS_AddElement
      <4> QED BY <3>2, <4>1
    <3>5. semValue'[t] = semValue[t] - 1
      BY <2>1, <2>4 DEF EnqueueAndStart, TypeOK
    <3>6. ASSUME NEW u \in Tenants, u # t
          PROVE  semValue'[u] = semValue[u] /\ Holders(u)' = Holders(u)
      BY <2>4, <3>6 DEF EnqueueAndStart, Holders, TypeOK
    <3>7. semValue'[t] + Cardinality(Holders(t)') = semValue[t] + Cardinality(Holders(t))
      BY <2>1, <3>3, <3>4, <3>5
    <3> QED BY <3>6, <3>7
  <2>5. "idle" \in Stage /\ "policy" \in Stage
    BY DEF Stage, Running
  <2>6. CASE StartGranted(r)
    <3>1. WakeUpNext(r, "policy", 0, semValue[t]) /\ stage[r] = "granted"
      BY <2>6 DEF StartGranted
    <3>2. r \in Holders(t) /\ stage[r] # "pending"
      BY <3>1 DEF Holders
    <3> QED BY <2>1, <2>5, <3>1, <3>2, WakeUpPermits
  <2>7. CASE InvalidGranted(r)
    <3>1. WakeUpNext(r, "idle", 1, semValue[t] + 1) /\ stage[r] = "granted"
      BY <2>7 DEF InvalidGranted
    <3>2. r \in Holders(t) /\ stage[r] # "pending"
      BY <3>1 DEF Holders
    <3> QED BY <2>1, <2>5, <3>1, <3>2, WakeUpPermits
  <2>8. CASE AbandonWait(r) /\ stage[r] = "granted"
    <3>1. WakeUpNext(r, "idle", 1, semValue[t] + 1)
      BY <2>8 DEF AbandonWait, PermitToReturn
    <3>2. r \in Holders(t) /\ stage[r] # "pending"
      BY <2>8 DEF Holders
    <3> QED BY <2>1, <2>5, <3>1, <3>2, WakeUpPermits
  <2>9. CASE AbandonWait(r) /\ stage[r] = "cancelled"
    <3>1. WakeUpNext(r, "idle", 0, semValue[t])
      BY <2>1, <2>9 DEF AbandonWait, PermitToReturn
    <3>2. r \notin Holders(t) /\ stage[r] # "pending"
      BY <2>9 DEF Holders, Running
    <3> QED BY <2>1, <2>5, <3>1, <3>2, WakeUpPermits
  <2>10. CASE PolicyDeny(r) \/ PolicyError(r) \/ ReturnRows(r) \/ ExecutionError(r)
              \/ CancelRunning(r)
    <3>1. stage[r] \in Running /\ ReleaseAndReply(r)
      BY <2>10 DEF PolicyDeny, PolicyError, ReturnRows, ExecutionError,
                   CancelRunning, Running
    <3> QED BY <3>1, ReleasePermits
  <2> HIDE DEF Same
  <2> QED BY <1>3, <2>2, <2>3, <2>4, <2>6, <2>7, <2>8, <2>9, <2>10
          DEF Arrive, Cancel, Resume, Answer, AbandonWait
<1> QED BY <1>2, <1>3 DEF Next

(* A timeout or cancellation that races a late grant neither loses nor     *)
(* mints a permit of the tenant's semaphore, for any limits.               *)
THEOREM PermitsNeverLeak == Spec => []PermitsConserved
<1>1. Init => PermitsConserved
  <2>1. ASSUME Init, NEW t \in Tenants
        PROVE  semValue[t] + Cardinality(Holders(t)) = ConcurrentLimit
    <3>1. Holders(t) = {}
      BY <2>1 DEF Init, Holders, Running
    <3> QED BY <2>1, <3>1, FS_EmptySet, QuotaAssumption DEF Init
  <2> QED BY <2>1 DEF PermitsConserved
<1>2. TypeOK /\ PermitsConserved /\ [Next]_vars => PermitsConserved'
  BY PermitStep DEF PermitsConserved
<1> QED BY <1>1, <1>2, TypeCorrect, PTL DEF Spec

(* TENANT_CONCURRENT_LIMIT is never exceeded. *)
THEOREM ConcurrencyIsBounded == Spec => []ConcurrencyBounded
<1>1. TypeOK /\ PermitsConserved => ConcurrencyBounded
  <2> SUFFICES ASSUME TypeOK, PermitsConserved, NEW t \in Tenants
               PROVE  Cardinality(Active(t)) <= ConcurrentLimit
    BY DEF ConcurrencyBounded
  <2>1. Active(t) \in SUBSET Holders(t) /\ Holders(t) \in SUBSET Requests
    BY DEF Active, Holders
  <2>2. IsFiniteSet(Holders(t)) /\ Cardinality(Holders(t)) \in Nat
        /\ Cardinality(Active(t)) \in Nat
    BY <2>1, SlotSetsFinite
  <2>3. Cardinality(Active(t)) <= Cardinality(Holders(t))
    BY <2>1, <2>2, FS_Subset
  <2>4. semValue[t] \in Nat /\ semValue[t] + Cardinality(Holders(t)) = ConcurrentLimit
    BY DEF TypeOK, PermitsConserved
  <2> QED BY <2>2, <2>3, <2>4, QuotaAssumption
<1> QED BY <1>1, TypeCorrect, PermitsNeverLeak, PTL

-----------------------------------------------------------------------------
(* _wake_up_next moves waiters only between waiting stages, so it changes  *)
(* the requests in flight and the running ones only by r itself.           *)
LEMMA WakeUpInFlight ==
    ASSUME TypeOK, NEW r \in Requests, NEW s \in Stage, NEW gained \in {0, 1},
           NEW n \in Nat, WakeUpNext(r, s, gained, n)
    PROVE  /\ stage'[r] = s
           /\ \A q \in Requests \ {r} :
                 /\ stage'[q] = "idle" <=> stage[q] = "idle"
                 /\ stage'[q] \in Running <=> stage[q] \in Running
<1> DEFINE t == TenantOf[r]
<1>1. t \in Tenants
  BY QuotaAssumption
<1>2. PICK G \in WokenBy(t, n) :
        stage' = [q \in Requests |-> IF q = r THEN s
                                     ELSE IF q \in G THEN "granted"
                                     ELSE stage[q]]
  BY DEF WakeUpNext
<1>3. \A q \in G : stage[q] = "pending"
  BY <1>1, WokenArePending DEF Pending
<1> QED BY <1>2, <1>3 DEF Running

(* The finally of execute: r leaves, and current_queued is decremented. *)
LEMMA LeaveCount ==
    ASSUME TypeOK, QueueCountExact, NEW r \in Requests, stage[r] # "idle",
           stage'[r] = "idle", Dequeue(r),
           \A q \in Requests \ {r} : stage'[q] = "idle" <=> stage[q] = "idle"
    PROVE  QueueCountExact'
<1> DEFINE t == TenantOf[r]
<1>1. t \in Tenants
  BY QuotaAssumption
<1>2. InFlight(t) \in SUBSET Requests /\ r \in InFlight(t)
  BY DEF InFlight
<1>3. InFlight(t)' = InFlight(t) \ {r}
  <2>1. InFlight(t)' = {q \in Requests : TenantOf[q] = t /\ stage'[q] # "idle"}
    BY DEF InFlight
  <2> QED BY <2>1 DEF InFlight
<1>4. Cardinality(InFlight(t)) \in Nat /\ IsFiniteSet(InFlight(t))
  BY <1>2, SlotSetsFinite
<1>5. Cardinality(InFlight(t) \ {r}) = Cardinality(InFlight(t)) - 1
  BY <1>2, <1>4, FS_RemoveElement
<1>6. Cardinality(InFlight(t)) # 0
  BY <1>2, <1>4, FS_EmptySet
<1>7. current_queued[t] = Cardinality(InFlight(t)) /\ current_queued[t] <= QueueLimit
  BY <1>1 DEF QueueCountExact
<1>8. current_queued'[t] = current_queued[t] - 1
  BY <1>1, <1>6, <1>7 DEF Dequeue, TypeOK
<1>9. ASSUME NEW u \in Tenants, u # t
      PROVE  current_queued'[u] = current_queued[u] /\ InFlight(u)' = InFlight(u)
  <2>1. current_queued'[u] = current_queued[u]
    BY <1>9 DEF Dequeue, TypeOK
  <2>2. InFlight(u)' = {q \in Requests : TenantOf[q] = u /\ stage'[q] # "idle"}
    BY DEF InFlight
  <2> QED BY <1>9, <2>1, <2>2 DEF InFlight
<1>10. current_queued'[t] = Cardinality(InFlight(t)') /\ current_queued'[t] <= QueueLimit
  <2>1. QueueLimit \in Nat
    BY QuotaAssumption
  <2> QED BY <1>3, <1>4, <1>5, <1>6, <1>7, <1>8, <2>1
<1> QED BY <1>9, <1>10 DEF QueueCountExact

(* A tenant that admits is below TENANT_QUEUE_LIMIT.                       *)
LEMMA NotFull ==
    ASSUME TypeOK, NEW t \in Tenants, ~QueueFull(t)
    PROVE  current_queued[t] < QueueLimit
BY QuotaAssumption DEF QueueFull, TypeOK

(* Admission: r enters, and current_queued is incremented below its limit. *)
LEMMA EnterCount ==
    ASSUME TypeOK, QueueCountExact, NEW r \in Requests, stage[r] = "idle",
           NEW s \in {"pending", "policy"}, stage' = [stage EXCEPT ![r] = s],
           current_queued[TenantOf[r]] < QueueLimit,
           current_queued' = [current_queued EXCEPT ![TenantOf[r]] = @ + 1]
    PROVE  QueueCountExact'
<1> DEFINE t == TenantOf[r]
<1>1. t \in Tenants
  BY QuotaAssumption
<1>2. InFlight(t) \in SUBSET Requests /\ r \notin InFlight(t)
  BY DEF InFlight
<1>3. InFlight(t)' = InFlight(t) \cup {r}
  BY DEF InFlight, TypeOK
<1>4. Cardinality(InFlight(t)) \in Nat /\ IsFiniteSet(InFlight(t))
  BY <1>2, SlotSetsFinite
<1>5. Cardinality(InFlight(t) \cup {r}) = Cardinality(InFlight(t)) + 1
  BY <1>2, <1>4, FS_AddElement
<1>6. current_queued[t] = Cardinality(InFlight(t)) /\ current_queued'[t] = current_queued[t] + 1
  BY <1>1 DEF QueueCountExact, TypeOK
<1>7. current_queued'[t] = Cardinality(InFlight(t)') /\ current_queued'[t] <= QueueLimit
  <2>1. QueueLimit \in Nat
    BY QuotaAssumption
  <2> QED BY <1>3, <1>4, <1>5, <1>6, <2>1
<1>8. ASSUME NEW u \in Tenants, u # t
      PROVE  current_queued'[u] = current_queued[u] /\ InFlight(u)' = InFlight(u)
  BY <1>8 DEF InFlight, TypeOK
<1> QED BY <1>7, <1>8 DEF QueueCountExact

(* Every step keeps current_queued equal to the requests in flight. *)
LEMMA QueueStep ==
    ASSUME TypeOK, QueueCountExact, [Next]_vars
    PROVE  QueueCountExact'
<1>1. ASSUME UNCHANGED current_queued,
             \A q \in Requests : stage'[q] = "idle" <=> stage[q] = "idle"
      PROVE  QueueCountExact'
  <2>1. \A u \in Tenants : InFlight(u)' = InFlight(u)
    BY <1>1 DEF InFlight
  <2> QED BY <1>1, <2>1 DEF QueueCountExact
<1>2. CASE UNCHANGED vars
  BY <1>1, <1>2 DEF vars
<1>3. ASSUME NEW r \in Requests,
             Arrive(r) \/ WaitTimeout(r) \/ Cancel(r) \/ Resume(r) \/ Answer(r)
      PROVE  QueueCountExact'
  <2>1. TenantOf[r] \in Tenants /\ semValue[TenantOf[r]] \in Nat
        /\ "idle" \in Stage /\ "policy" \in Stage
    BY QuotaAssumption DEF TypeOK, Stage, Running
  <2>2. CASE RefuseInput(r) \/ RejectOverload(r) \/ EnqueueInvalid(r)
    BY <1>1, <2>2 DEF RefuseInput, RejectOverload, EnqueueInvalid
  <2>3. CASE WaitTimeout(r) \/ CancelWaiting(r) \/ PolicyAllow(r)
    BY <1>1, <2>3 DEF WaitTimeout, CancelWaiting, PolicyAllow, TypeOK, Waiting
  <2>4. CASE EnqueueAndWait(r)
    BY <2>1, <2>4, EnterCount, NotFull DEF EnqueueAndWait
  <2>5. CASE EnqueueAndStart(r)
    BY <2>1, <2>5, EnterCount, NotFull DEF EnqueueAndStart
  <2>6. CASE StartGranted(r)
    <3>1. WakeUpNext(r, "policy", 0, semValue[TenantOf[r]])
      BY <2>6 DEF StartGranted
    <3>2. stage'[r] = "policy" /\ \A q \in Requests \ {r} :
                                    stage'[q] = "idle" <=> stage[q] = "idle"
      BY <2>1, <3>1, WakeUpInFlight
    <3> QED BY <1>1, <2>6, <3>2 DEF StartGranted
  <2>7. CASE InvalidGranted(r)
    <3>1. WakeUpNext(r, "idle", 1, semValue[TenantOf[r]] + 1) /\ Dequeue(r)
          /\ stage[r] # "idle"
      BY <2>7 DEF InvalidGranted
    <3>2. stage'[r] = "idle" /\ \A q \in Requests \ {r} :
                                    stage'[q] = "idle" <=> stage[q] = "idle"
      BY <2>1, <3>1, WakeUpInFlight
    <3> QED BY <3>1, <3>2, LeaveCount
  <2>8. CASE AbandonWait(r)
    <3>1. PICK gained \in {0, 1} :
             WakeUpNext(r, "idle", gained, semValue[TenantOf[r]] + gained)
      BY <2>8 DEF AbandonWait, PermitToReturn
    <3>2. Dequeue(r) /\ stage[r] # "idle"
      BY <2>8 DEF AbandonWait
    <3>3. stage'[r] = "idle" /\ \A q \in Requests \ {r} :
                                    stage'[q] = "idle" <=> stage[q] = "idle"
      BY <2>1, <3>1, WakeUpInFlight
    <3> QED BY <3>2, <3>3, LeaveCount
  <2>9. CASE PolicyDeny(r) \/ PolicyError(r) \/ ReturnRows(r) \/ ExecutionError(r)
              \/ CancelRunning(r)
    <3>1. stage[r] # "idle" /\ WakeUpNext(r, "idle", 1, 1) /\ Dequeue(r)
      BY <2>9 DEF PolicyDeny, PolicyError, ReturnRows, ExecutionError,
                  CancelRunning, Running, ReleaseAndReply
    <3>2. stage'[r] = "idle" /\ \A q \in Requests \ {r} :
                                    stage'[q] = "idle" <=> stage[q] = "idle"
      BY <2>1, <3>1, WakeUpInFlight
    <3> QED BY <3>1, <3>2, LeaveCount
  <2> QED BY <1>3, <2>2, <2>3, <2>4, <2>5, <2>6, <2>7, <2>8, <2>9
          DEF Arrive, Cancel, Resume, Answer
<1> QED BY <1>2, <1>3 DEF Next

(* current_queued is exact on every path out of execute, and admission     *)
(* keeps it within TENANT_QUEUE_LIMIT.                                     *)
THEOREM QueueCountIsExact == Spec => []QueueCountExact
<1>1. Init => QueueCountExact
  <2>1. ASSUME Init, NEW t \in Tenants
        PROVE  current_queued[t] = Cardinality(InFlight(t)) /\ current_queued[t] <= QueueLimit
    <3>1. InFlight(t) = {}
      BY <2>1 DEF Init, InFlight
    <3> QED BY <2>1, <3>1, FS_EmptySet, QuotaAssumption DEF Init
  <2> QED BY <2>1 DEF QueueCountExact
<1>2. TypeOK /\ QueueCountExact /\ [Next]_vars => QueueCountExact'
  BY QueueStep
<1> QED BY <1>1, <1>2, TypeCorrect, PTL DEF Spec
-----------------------------------------------------------------------------
(* A step that wakes one waiter for each free permit leaves no permit that *)
(* a pending waiter could use; one that wakes a single waiter leaves it    *)
(* granted.                                                                *)
LEMMA WakeUpServes ==
    ASSUME TypeOK, NoLostWakeup, NEW r \in Requests, NEW s \in {"idle", "policy"},
           NEW gained \in {0, 1}, NEW n \in Nat, stage[r] # "pending",
           n = semValue[TenantOf[r]] + gained \/ n = 1,
           WakeUpNext(r, s, gained, n)
    PROVE  NoLostWakeup'
<1> DEFINE t == TenantOf[r]
<1>1. t \in Tenants /\ semValue[t] \in Nat
  BY QuotaAssumption DEF TypeOK
<1>2. PICK G \in WokenBy(t, n) :
        /\ semValue' = [semValue EXCEPT ![t] = (@ + gained) - Cardinality(G)]
        /\ stage' = [q \in Requests |-> IF q = r THEN s
                                        ELSE IF q \in G THEN "granted"
                                        ELSE stage[q]]
  BY DEF WakeUpNext
<1>3. G \subseteq Pending(t) /\ G \subseteq Requests /\ Cardinality(G) \in Nat
  BY <1>1, WokenArePending
<1>4. G = Pending(t) \/ Cardinality(G) = n
  BY DEF WokenBy
<1>5. semValue'[t] = (semValue[t] + gained) - Cardinality(G)
  BY <1>1, <1>2 DEF TypeOK
<1>6. (semValue'[t] > 0 /\ Pending(t)' # {}) => Granted(t)' # {}
  <2>1. CASE G = Pending(t)
    <3>1. Pending(t)' = {}
      BY <1>2, <2>1 DEF Pending
    <3> QED BY <3>1
  <2>2. CASE Cardinality(G) = n /\ n = semValue[t] + gained
    BY <1>1, <1>5, <2>2
  <2>3. CASE Cardinality(G) = n /\ n = 1
    <3>1. G # {}
      BY <2>3, FS_EmptySet
    <3>2. PICK q \in G : q # r
      BY <1>3, <3>1 DEF Pending
    <3> QED BY <1>2, <1>3, <3>2 DEF Granted, Pending
  <2> QED BY <1>4, <2>1, <2>2, <2>3
<1>7. ASSUME NEW u \in Tenants, u # t
      PROVE  semValue'[u] = semValue[u] /\ Pending(u)' = Pending(u)
             /\ Granted(u)' = Granted(u)
  <2>1. semValue'[u] = semValue[u]
    BY <1>2, <1>7 DEF TypeOK
  <2>2. \A q \in Requests : TenantOf[q] = u => stage'[q] = stage[q]
    BY <1>2, <1>3, <1>7 DEF Pending
  <2> QED BY <2>1, <2>2 DEF Pending, Granted
<1> QED BY <1>6, <1>7 DEF NoLostWakeup

(* Whoever frees a permit or leaves the queue wakes the next waiter.       *)
LEMMA WakeupStep ==
    ASSUME TypeOK, NoLostWakeup, [Next]_vars
    PROVE  NoLostWakeup'
<1>1. CASE UNCHANGED vars
  BY <1>1 DEF vars, NoLostWakeup, Pending, Granted
<1>2. ASSUME NEW r \in Requests,
             Arrive(r) \/ WaitTimeout(r) \/ Cancel(r) \/ Resume(r) \/ Answer(r)
      PROVE  NoLostWakeup'
  <2> DEFINE t == TenantOf[r]
  <2>1. t \in Tenants /\ semValue[t] \in Nat
    BY QuotaAssumption DEF TypeOK
  <2>2. CASE RefuseInput(r) \/ RejectOverload(r) \/ EnqueueInvalid(r)
    BY <2>2 DEF RefuseInput, RejectOverload, EnqueueInvalid, semVars,
                NoLostWakeup, Pending, Granted
  <2>3. CASE EnqueueAndWait(r)
    <3>1. semValue' = semValue /\ stage' = [stage EXCEPT ![r] = "pending"]
          /\ stage[r] = "idle" /\ Locked(t)
      BY <2>3 DEF EnqueueAndWait
    <3>2. \A u \in Tenants : Granted(u)' = Granted(u)
      BY <3>1 DEF Granted, TypeOK
    <3>3. semValue[t] > 0 => Granted(t) # {}
      BY <2>1, <3>1 DEF Locked, NoLostWakeup
    <3>4. \A u \in Tenants : u # t => Pending(u)' = Pending(u)
      BY <3>1 DEF Pending, TypeOK
    <3> QED BY <3>1, <3>2, <3>3, <3>4 DEF NoLostWakeup
  <2>4. CASE EnqueueAndStart(r)
    <3>1. Pending(t) = {} /\ stage' = [stage EXCEPT ![r] = "policy"]
          /\ semValue' = [semValue EXCEPT ![t] = @ - 1] /\ stage[r] = "idle"
      BY <2>4 DEF EnqueueAndStart, Locked
    <3>2. \A u \in Tenants : Granted(u)' = Granted(u) /\ Pending(u)' = Pending(u)
      BY <3>1 DEF Granted, Pending, TypeOK
    <3>3. \A u \in Tenants : u # t => semValue'[u] = semValue[u]
      BY <3>1 DEF TypeOK
    <3> QED BY <3>1, <3>2, <3>3 DEF NoLostWakeup
  <2>5. CASE WaitTimeout(r) \/ CancelWaiting(r) \/ PolicyAllow(r)
    <3>1. semValue' = semValue
      BY <2>5 DEF WaitTimeout, CancelWaiting, PolicyAllow, semVars
    <3>2. \A u \in Tenants : Granted(u)' = Granted(u) /\ Pending(u)' \subseteq Pending(u)
      BY <2>5 DEF WaitTimeout, CancelWaiting, PolicyAllow, Granted, Pending, TypeOK
    <3> QED BY <3>1, <3>2 DEF NoLostWakeup
  <2>6. CASE StartGranted(r)
    <3>1. WakeUpNext(r, "policy", 0, semValue[t]) /\ stage[r] # "pending"
      BY <2>6 DEF StartGranted
    <3> QED BY <2>1, <3>1, WakeUpServes
  <2>7. CASE InvalidGranted(r)
    <3>1. WakeUpNext(r, "idle", 1, semValue[t] + 1) /\ stage[r] # "pending"
      BY <2>7 DEF InvalidGranted
    <3> QED BY <2>1, <3>1, WakeUpServes
  <2>8. CASE AbandonWait(r)
    <3>1. PICK gained \in {0, 1} : WakeUpNext(r, "idle", gained, semValue[t] + gained)
      BY <2>8 DEF AbandonWait, PermitToReturn
    <3>2. stage[r] # "pending"
      BY <2>8 DEF AbandonWait
    <3> QED BY <2>1, <3>1, <3>2, WakeUpServes
  <2>9. CASE PolicyDeny(r) \/ PolicyError(r) \/ ReturnRows(r) \/ ExecutionError(r)
              \/ CancelRunning(r)
    <3>1. WakeUpNext(r, "idle", 1, 1) /\ stage[r] # "pending"
      BY <2>9 DEF PolicyDeny, PolicyError, ReturnRows, ExecutionError,
                  CancelRunning, Running, ReleaseAndReply
    <3> QED BY <3>1, WakeUpServes
  <2> QED BY <1>2, <2>2, <2>3, <2>4, <2>5, <2>6, <2>7, <2>8, <2>9
          DEF Arrive, Cancel, Resume, Answer
<1> QED BY <1>1, <1>2 DEF Next

(* No free permit is ever overlooked while somebody waits for it, whatever *)
(* the timing of timeouts, cancellations and late grants.                  *)
THEOREM WakeupsAreNotLost == Spec => []NoLostWakeup
<1>1. Init => NoLostWakeup
  BY DEF Init, NoLostWakeup, Pending
<1>2. TypeOK /\ NoLostWakeup /\ [Next]_vars => NoLostWakeup'
  BY WakeupStep
<1> QED BY <1>1, <1>2, TypeCorrect, PTL DEF Spec
-----------------------------------------------------------------------------
(* The order of grants.  It rests on what Semaphore._waiters holds: waiting *)
(* requests of the tenant, each of them once.                              *)
QueuesSound ==
    \A t \in Tenants :
        /\ \A i \in DOMAIN semWaiters[t] :
              TenantOf[semWaiters[t][i]] = t /\ stage[semWaiters[t][i]] \in Waiting
        /\ \A i, j \in DOMAIN semWaiters[t] :
              semWaiters[t][i] = semWaiters[t][j] => i = j

(* Positions in a queue are numbers, which its order needs.                *)
LEMMA IndicesAreNat ==
    ASSUME TypeOK, NEW t \in Tenants
    PROVE  DOMAIN semWaiters[t] \subseteq Nat
<1>1. semWaiters[t] \in Seq(Requests)
  BY DEF TypeOK
<1> QED BY <1>1

(* Taking one entry out of a queue keeps the others in their order. *)
LEMMA Removal ==
    ASSUME NEW ws \in Seq(Requests), NEW k \in DOMAIN ws
    PROVE  LET new == SubSeq(ws, 1, k - 1) \o SubSeq(ws, k + 1, Len(ws))
           IN  /\ new \in Seq(Requests)
               /\ Len(new) = Len(ws) - 1
               /\ \A i \in DOMAIN new :
                     /\ i < k => i \in DOMAIN ws /\ new[i] = ws[i]
                     /\ i >= k => i + 1 \in DOMAIN ws /\ new[i] = ws[i + 1]
<1> DEFINE a == SubSeq(ws, 1, k - 1)
           b == SubSeq(ws, k + 1, Len(ws))
           new == a \o b
<1>1. k \in 1..Len(ws) /\ Len(ws) \in Nat
  OBVIOUS
<1>2. /\ a \in Seq(Requests) /\ Len(a) = k - 1
      /\ \A i \in 1..(k - 1) : a[i] = ws[i]
  <2>1. \A i \in 1..(k - 1) : ws[i] \in Requests
    BY <1>1
  <2> QED BY <1>1, <2>1, SubSeqProperties
<1>3. /\ b \in Seq(Requests) /\ Len(b) = Len(ws) - k
      /\ \A i \in 1..(Len(ws) - k) : b[i] = ws[k + i]
  <2>1. \A i \in (k + 1)..Len(ws) : ws[i] \in Requests
    BY <1>1
  <2>2. b \in Seq(Requests)
        /\ Len(b) = IF k + 1 <= Len(ws) THEN Len(ws) - (k + 1) + 1 ELSE 0
    BY <1>1, <2>1, SubSeqProperties
  <2>3. \A i \in 1..(Len(ws) - (k + 1) + 1) : b[i] = ws[(k + 1) + i - 1]
    BY <1>1, <2>1, SubSeqProperties
  <2> QED BY <1>1, <2>2, <2>3
<1> HIDE DEF a, b
<1>4. /\ new \in Seq(Requests) /\ Len(new) = Len(ws) - 1
      /\ \A i \in 1..(Len(ws) - 1) :
            new[i] = IF i <= k - 1 THEN a[i] ELSE b[i - (k - 1)]
  <2>1. Len(a) + Len(b) = Len(ws) - 1
    BY <1>1, <1>2, <1>3
  <2>2. /\ a \o b \in Seq(Requests) /\ Len(a \o b) = Len(a) + Len(b)
        /\ \A i \in 1..(Len(a) + Len(b)) :
              (a \o b)[i] = IF i <= Len(a) THEN a[i] ELSE b[i - Len(a)]
    BY <1>2, <1>3, ConcatProperties
  <2> QED BY <1>2, <2>1, <2>2
<1> HIDE DEF new
<1>5. DOMAIN new = 1..(Len(ws) - 1)
  BY <1>1, <1>4
<1>6. ASSUME NEW i \in 1..(Len(ws) - 1)
      PROVE  /\ i < k => i \in DOMAIN ws /\ new[i] = ws[i]
             /\ i >= k => i + 1 \in DOMAIN ws /\ new[i] = ws[i + 1]
  <2>1. CASE i < k
    BY <1>1, <1>2, <1>4, <2>1
  <2>2. CASE i >= k
    <3>1. i - (k - 1) \in 1..(Len(ws) - k)
      BY <1>1, <2>2
    <3>2. b[i - (k - 1)] = ws[k + (i - (k - 1))]
      BY <1>3, <3>1
    <3>3. k + (i - (k - 1)) = i + 1
      BY <1>1
    <3> QED BY <1>1, <1>4, <2>2, <3>2, <3>3
  <2> QED BY <1>1, <2>1, <2>2
<1> QED BY <1>4, <1>5, <1>6 DEF new, a, b

(* r's future leaves the queue: r is gone and nobody overtakes anybody. *)
LEMMA LeaveInOrder ==
    ASSUME TypeOK, QueuesSound, NEW r \in Requests, LeaveWaiters(r)
    PROVE  /\ \A t \in Tenants : \A i, j \in DOMAIN semWaiters'[t] : i < j =>
                 \E k, l \in DOMAIN semWaiters[t] :
                    /\ k < l
                    /\ semWaiters[t][k] = semWaiters'[t][i]
                    /\ semWaiters[t][l] = semWaiters'[t][j]
           /\ \A t \in Tenants : \A i \in DOMAIN semWaiters'[t] :
                 /\ semWaiters'[t][i] # r
                 /\ \E k \in DOMAIN semWaiters[t] : semWaiters[t][k] = semWaiters'[t][i]
<1> DEFINE u == TenantOf[r]
<1>1. u \in Tenants /\ semWaiters[u] \in Seq(Requests)
  BY QuotaAssumption DEF TypeOK
<1>2. PICK ws \in Seq(Requests) : ws = semWaiters[u]
  BY <1>1
<1>3. PICK k \in DOMAIN ws :
        /\ ws[k] = r
        /\ semWaiters' = [semWaiters EXCEPT ![u] =
                             SubSeq(ws, 1, k - 1) \o SubSeq(ws, k + 1, Len(ws))]
  BY <1>2 DEF LeaveWaiters
<1>4. PICK new \in Seq(Requests) :
        /\ new = SubSeq(ws, 1, k - 1) \o SubSeq(ws, k + 1, Len(ws))
        /\ \A i \in DOMAIN new :
              /\ i < k => i \in DOMAIN ws /\ new[i] = ws[i]
              /\ i >= k => i + 1 \in DOMAIN ws /\ new[i] = ws[i + 1]
  BY Removal
<1>5. semWaiters'[u] = new /\ \A t \in Tenants : t # u => semWaiters'[t] = semWaiters[t]
  BY <1>1, <1>3, <1>4 DEF TypeOK
<1>6. DOMAIN new \subseteq Nat /\ DOMAIN ws \subseteq Nat /\ k \in Nat
  OBVIOUS
<1>7. ASSUME NEW i \in DOMAIN new
      PROVE  \E l \in DOMAIN ws : /\ l = (IF i < k THEN i ELSE i + 1)
                                  /\ ws[l] = new[i] /\ l # k
  <2>1. i \in Nat
    BY <1>6
  <2>2. CASE i < k
    BY <1>4, <1>6, <2>1, <2>2
  <2>3. CASE ~(i < k)
    <3>1. i >= k
      BY <1>6, <2>1, <2>3
    <3>2. i + 1 \in DOMAIN ws /\ new[i] = ws[i + 1]
      BY <1>4, <3>1
    <3>3. i + 1 # k
      BY <1>6, <2>1, <3>1
    <3> QED BY <2>3, <3>2, <3>3
  <2> QED BY <2>2, <2>3
<1>8. \A i, j \in DOMAIN ws : ws[i] = ws[j] => i = j
  BY <1>1, <1>2 DEF QueuesSound
<1>9. \A i \in DOMAIN new : new[i] # r
  BY <1>3, <1>7, <1>8
<1>10. ASSUME NEW i \in DOMAIN new, NEW j \in DOMAIN new, i < j
       PROVE  \E l, m \in DOMAIN ws : l < m /\ ws[l] = new[i] /\ ws[m] = new[j]
  <2>1. PICK l \in DOMAIN ws : l = (IF i < k THEN i ELSE i + 1) /\ ws[l] = new[i]
    BY <1>7
  <2>2. PICK m \in DOMAIN ws : m = (IF j < k THEN j ELSE j + 1) /\ ws[m] = new[j]
    BY <1>7
  <2>3. l < m
    BY <1>6, <1>10, <2>1, <2>2
  <2> QED BY <2>1, <2>2, <2>3
<1>11. ASSUME NEW t \in Tenants, t # u, NEW i \in DOMAIN semWaiters[t]
       PROVE  semWaiters[t][i] # r
  BY <1>11 DEF QueuesSound
<1>12. ASSUME NEW t \in Tenants
       PROVE  /\ \A i, j \in DOMAIN semWaiters'[t] : i < j =>
                    \E l, m \in DOMAIN semWaiters[t] :
                       /\ l < m
                       /\ semWaiters[t][l] = semWaiters'[t][i]
                       /\ semWaiters[t][m] = semWaiters'[t][j]
              /\ \A i \in DOMAIN semWaiters'[t] :
                    /\ semWaiters'[t][i] # r
                    /\ \E l \in DOMAIN semWaiters[t] :
                          semWaiters[t][l] = semWaiters'[t][i]
  <2>1. CASE t = u
    <3>1. \A i \in DOMAIN new : \E l \in DOMAIN ws : ws[l] = new[i]
      BY <1>7
    <3>2. semWaiters'[t] = new /\ semWaiters[t] = ws
      BY <1>2, <1>5, <2>1
    <3> QED BY <1>9, <1>10, <3>1, <3>2
  <2>2. CASE t # u
    BY <1>5, <1>11, <2>2
  <2> QED BY <2>1, <2>2
<1> QED BY <1>12

(* Only r may leave the waiting stages, and then it has left the queue; an *)
(* entry of a queue was there before, in the same order.                   *)
LEMMA QueuesKept ==
    ASSUME TypeOK, TypeOK', QueuesSound, NEW r \in Requests,
           \A t \in Tenants : \A i, j \in DOMAIN semWaiters'[t] : i < j =>
               \E k, l \in DOMAIN semWaiters[t] :
                  /\ k < l
                  /\ semWaiters[t][k] = semWaiters'[t][i]
                  /\ semWaiters[t][l] = semWaiters'[t][j],
           \A t \in Tenants : \A i \in DOMAIN semWaiters'[t] :
               /\ semWaiters'[t][i] = r => stage'[r] \in Waiting
               /\ \E k \in DOMAIN semWaiters[t] : semWaiters[t][k] = semWaiters'[t][i],
           \A q \in Requests \ {r} : stage[q] \in Waiting => stage'[q] \in Waiting
    PROVE  QueuesSound'
<1>1. ASSUME NEW t \in Tenants, NEW i \in DOMAIN semWaiters'[t]
      PROVE  TenantOf[semWaiters'[t][i]] = t /\ stage'[semWaiters'[t][i]] \in Waiting
  <2>1. PICK k \in DOMAIN semWaiters[t] : semWaiters[t][k] = semWaiters'[t][i]
    OBVIOUS
  <2>2. semWaiters[t][k] \in Requests
    BY DEF TypeOK
  <2> QED BY <2>1, <2>2 DEF QueuesSound
<1>2. ASSUME NEW t \in Tenants, NEW i \in DOMAIN semWaiters'[t],
             NEW j \in DOMAIN semWaiters'[t], semWaiters'[t][i] = semWaiters'[t][j]
      PROVE  i = j
  <2>1. i \in Nat /\ j \in Nat
    <3>1. semWaiters'[t] \in Seq(Requests)
      BY DEF TypeOK
    <3> QED BY <3>1
  <2>2. DOMAIN semWaiters[t] \subseteq Nat
    BY IndicesAreNat
  <2>3. ASSUME NEW x \in DOMAIN semWaiters'[t], NEW y \in DOMAIN semWaiters'[t],
               x < y, semWaiters'[t][x] = semWaiters'[t][y]
        PROVE  FALSE
    <3>1. PICK k \in DOMAIN semWaiters[t], l \in DOMAIN semWaiters[t] :
            /\ k < l
            /\ semWaiters[t][k] = semWaiters'[t][x]
            /\ semWaiters[t][l] = semWaiters'[t][y]
      BY <2>3
    <3>2. k = l
      BY <2>3, <3>1 DEF QueuesSound
    <3> QED BY <2>2, <3>1, <3>2
  <2>4. ~(i < j) /\ ~(j < i)
    BY <1>2, <2>3
  <2> QED BY <2>1, <2>4
<1> QED BY <1>1, <1>2 DEF QueuesSound

(* With the same queues kept in order, grants stay in order when nobody    *)
(* but the oldest pending waiters is granted and nobody becomes pending.   *)
LEMMA GrantsKept ==
    ASSUME TypeOK, QueuesSound, GrantsInOrder,
           \A t \in Tenants : \A i, j \in DOMAIN semWaiters'[t] : i < j =>
               \E k, l \in DOMAIN semWaiters[t] :
                  /\ k < l
                  /\ semWaiters[t][k] = semWaiters'[t][i]
                  /\ semWaiters[t][l] = semWaiters'[t][j],
           \A t \in Tenants : Pending(t)' \subseteq Pending(t),
           \A t \in Tenants : \A q \in Granted(t)' :
               \/ q \in Granted(t)
               \/ \A r \in Pending(t)' : Before(t, q, r)
    PROVE  GrantsInOrder'
<1> SUFFICES ASSUME NEW t \in Tenants, NEW q \in Granted(t)', NEW r \in Pending(t)',
                    Before(t, r, q)'
             PROVE  FALSE
  BY DEF GrantsInOrder
<1>1. PICK i \in DOMAIN semWaiters'[t], j \in DOMAIN semWaiters'[t] :
        i < j /\ semWaiters'[t][i] = r /\ semWaiters'[t][j] = q
  BY DEF Before
<1>2. PICK k \in DOMAIN semWaiters[t], l \in DOMAIN semWaiters[t] :
        k < l /\ semWaiters[t][k] = r /\ semWaiters[t][l] = q
  BY <1>1
<1>3. Before(t, r, q)
  BY <1>2 DEF Before
<1>4. CASE q \in Granted(t)
  BY <1>3, <1>4 DEF GrantsInOrder
<1>5. CASE Before(t, q, r)
  <2>1. PICK m \in DOMAIN semWaiters[t], n \in DOMAIN semWaiters[t] :
          m < n /\ semWaiters[t][m] = q /\ semWaiters[t][n] = r
    BY <1>5 DEF Before
  <2>2. m = l /\ n = k
    BY <1>2, <2>1 DEF QueuesSound
  <2>3. DOMAIN semWaiters[t] \subseteq Nat
    BY IndicesAreNat
  <2> QED BY <1>2, <2>1, <2>2, <2>3
<1> QED BY <1>4, <1>5

(* _wake_up_next grants the oldest pending waiters. *)
LEMMA WakeUpInOrder ==
    ASSUME TypeOK, NEW r \in Requests, NEW s \in {"idle", "policy"},
           NEW gained \in {0, 1}, NEW n \in Nat, stage[r] # "pending",
           WakeUpNext(r, s, gained, n)
    PROVE  /\ \A t \in Tenants : Pending(t)' \subseteq Pending(t)
           /\ \A t \in Tenants : \A q \in Granted(t)' :
                 q \in Granted(t) \/ \A p \in Pending(t)' : Before(t, q, p)
           /\ \A q \in Requests \ {r} : stage[q] \in Waiting => stage'[q] \in Waiting
<1> DEFINE u == TenantOf[r]
<1>1. u \in Tenants
  BY QuotaAssumption
<1>2. PICK G \in WokenBy(u, n) :
        stage' = [q \in Requests |-> IF q = r THEN s
                                     ELSE IF q \in G THEN "granted"
                                     ELSE stage[q]]
  BY DEF WakeUpNext
<1>3. G \subseteq Pending(u) /\ \A q \in G, p \in Pending(u) \ G : Before(u, q, p)
  BY DEF WokenBy
<1>4. \A t \in Tenants : Pending(t)' \subseteq Pending(t) \ G
  BY <1>2 DEF Pending
<1>5. \A t \in Tenants : \A q \in Granted(t)' : q \in Granted(t) \/ (q \in G /\ t = u)
  BY <1>2, <1>3 DEF Granted, Pending
<1>6. \A q \in Requests \ {r} : stage[q] \in Waiting => stage'[q] \in Waiting
  BY <1>2 DEF Waiting
<1> QED BY <1>3, <1>4, <1>5, <1>6

(* The steps that touch no queue and make nobody pending or granted. *)
LEMMA QueuesAside ==
    ASSUME TypeOK, TypeOK', QueuesSound, GrantsInOrder, NEW r \in Requests,
           semWaiters' = semWaiters,
           \A q \in Requests \ {r} : stage'[q] = stage[q],
           stage'[r] \notin {"pending", "granted"} \/ stage'[r] = stage[r],
           stage[r] \in Waiting => stage'[r] \in Waiting
    PROVE  QueuesSound' /\ GrantsInOrder'
<1>1. \A t \in Tenants : Pending(t)' \subseteq Pending(t) /\ Granted(t)' \subseteq Granted(t)
  BY DEF Pending, Granted
<1>2. QueuesSound'
  <2>1. \A t \in Tenants : \A i \in DOMAIN semWaiters[t] : semWaiters[t][i] \in Requests
    BY DEF TypeOK
  <2> QED BY <2>1 DEF QueuesSound
<1>3. GrantsInOrder'
  BY <1>1 DEF GrantsInOrder, Before
<1> QED BY <1>2, <1>3

(* No step grants out of turn. *)
LEMMA OrderStep ==
    ASSUME TypeOK, TypeOK', QueuesSound, GrantsInOrder, [Next]_vars
    PROVE  QueuesSound' /\ GrantsInOrder'
<1>1. CASE UNCHANGED vars
  BY <1>1 DEF vars, QueuesSound, GrantsInOrder, Before, Pending, Granted
<1>2. ASSUME NEW r \in Requests,
             Arrive(r) \/ WaitTimeout(r) \/ Cancel(r) \/ Resume(r) \/ Answer(r)
      PROVE  QueuesSound' /\ GrantsInOrder'
  <2> DEFINE u == TenantOf[r]
  <2>1. u \in Tenants /\ semValue[u] \in Nat
    BY QuotaAssumption DEF TypeOK
  <2>2. CASE RefuseInput(r) \/ RejectOverload(r) \/ EnqueueInvalid(r)
    BY <2>2, QueuesAside DEF RefuseInput, RejectOverload, EnqueueInvalid, semVars
  <2>3. CASE EnqueueAndStart(r) \/ PolicyAllow(r)
    <3>1. semWaiters' = semWaiters /\ stage[r] \notin Waiting
          /\ stage'[r] \in {"policy", "executing"}
          /\ \A q \in Requests \ {r} : stage'[q] = stage[q]
      BY <2>3 DEF EnqueueAndStart, PolicyAllow, semVars, Waiting, TypeOK
    <3> QED BY <3>1, QueuesAside
  <2>4. CASE WaitTimeout(r) \/ CancelWaiting(r)
    <3>1. semWaiters' = semWaiters
          /\ stage'[r] = (IF stage[r] = "pending" THEN "cancelled" ELSE stage[r])
          /\ \A q \in Requests \ {r} : stage'[q] = stage[q]
      BY <2>4 DEF WaitTimeout, CancelWaiting, semVars, TypeOK
    <3>2. stage[r] \in Waiting => stage'[r] \in Waiting
      BY <3>1 DEF Waiting
    <3> QED BY <3>1, <3>2, QueuesAside
  <2>5. CASE EnqueueAndWait(r)
    <3>1. /\ stage[r] = "idle" /\ stage' = [stage EXCEPT ![r] = "pending"]
          /\ semWaiters' = [semWaiters EXCEPT ![u] = Append(semWaiters[u], r)]
      BY <2>5 DEF EnqueueAndWait
    <3>2. PICK ws \in Seq(Requests) : ws = semWaiters[u]
      BY <2>1 DEF TypeOK
    <3>3. PICK new \in Seq(Requests) : new = Append(ws, r)
      <4>1. Append(ws, r) \in Seq(Requests)
        OBVIOUS
      <4> QED BY <4>1
    <3>4. /\ DOMAIN new = DOMAIN ws \cup {Len(ws) + 1} /\ new[Len(ws) + 1] = r
          /\ \A i \in DOMAIN ws : new[i] = ws[i] /\ i \in Nat /\ i <= Len(ws)
          /\ Len(ws) \in Nat
      BY <3>3
    <3>5. semWaiters'[u] = new /\ \A t \in Tenants : t # u => semWaiters'[t] = semWaiters[t]
      BY <2>1, <3>1, <3>2, <3>3 DEF TypeOK
    <3>6. stage'[r] = "pending" /\ \A q \in Requests \ {r} : stage'[q] = stage[q]
      BY <3>1 DEF TypeOK
    <3>7. \A i \in DOMAIN ws : ws[i] \in Requests \ {r} /\ TenantOf[ws[i]] = u
                               /\ stage[ws[i]] \in Waiting
      BY <2>1, <3>1, <3>2 DEF QueuesSound, Waiting
    <3>8. \A i \in DOMAIN new : TenantOf[new[i]] = u /\ stage'[new[i]] \in Waiting
      <4>1. "pending" \in Waiting
        BY DEF Waiting
      <4> QED BY <3>4, <3>6, <3>7, <4>1
    <3>9. \A i, j \in DOMAIN new : new[i] = new[j] => i = j
      <4>1. \A i, j \in DOMAIN ws : ws[i] = ws[j] => i = j
        BY <2>1, <3>2 DEF QueuesSound
      <4> QED BY <3>4, <3>7, <4>1
    <3>10. QueuesSound'
      <4>1. ASSUME NEW t \in Tenants, t # u
            PROVE  \A i \in DOMAIN semWaiters[t] : semWaiters[t][i] \in Requests \ {r}
        BY <4>1, SMTT(30) DEF QueuesSound, TypeOK
      <4>2. ASSUME NEW t \in Tenants
            PROVE  /\ \A i \in DOMAIN semWaiters'[t] :
                        TenantOf[semWaiters'[t][i]] = t /\ stage'[semWaiters'[t][i]] \in Waiting
                   /\ \A i, j \in DOMAIN semWaiters'[t] :
                        semWaiters'[t][i] = semWaiters'[t][j] => i = j
        <5>1. CASE t = u
          BY <3>5, <3>8, <3>9, <5>1
        <5>2. CASE t # u
          BY <3>5, <3>6, <4>1, <5>2 DEF QueuesSound
        <5> QED BY <5>1, <5>2
      <4> QED BY <4>2 DEF QueuesSound
    <3>11. ASSUME NEW t \in Tenants, NEW q \in Granted(t)', NEW p \in Pending(t)',
                  Before(t, p, q)'
           PROVE  FALSE
      <4>1. q \in Granted(t) /\ q # r /\ (p = r \/ p \in Pending(t))
        BY <3>6 DEF Granted, Pending
      <4>2. PICK i \in DOMAIN semWaiters'[t], j \in DOMAIN semWaiters'[t] :
              i < j /\ semWaiters'[t][i] = p /\ semWaiters'[t][j] = q
        BY <3>11 DEF Before
      <4>3. CASE t # u
        <5>1. p # r
          BY <4>3 DEF Pending
        <5> QED BY <3>5, <4>1, <4>2, <4>3, <5>1 DEF GrantsInOrder, Before
      <4>4. CASE t = u
        <5>1. i \in DOMAIN new /\ j \in DOMAIN new /\ new[i] = p /\ new[j] = q
          BY <3>5, <4>2, <4>4
        <5>2. j \in DOMAIN ws /\ j <= Len(ws)
          BY <3>4, <4>1, <5>1
        <5>3. i \in DOMAIN ws
          BY <3>4, <4>2, <5>1, <5>2
        <5>4. ws[i] = p /\ ws[j] = q /\ p # r
          BY <3>4, <3>7, <5>1, <5>2, <5>3
        <5>5. Before(t, p, q)
          BY <3>2, <4>2, <4>4, <5>2, <5>3, <5>4 DEF Before
        <5> QED BY <4>1, <5>4, <5>5 DEF GrantsInOrder
      <4> QED BY <4>3, <4>4
    <3>12. GrantsInOrder'
      BY <3>11 DEF GrantsInOrder
    <3> QED BY <3>10, <3>12
  <2>6. ASSUME NEW s \in {"idle", "policy"}, NEW gained \in {0, 1}, NEW n \in Nat,
               WakeUpNext(r, s, gained, n), stage[r] # "pending",
               LeaveWaiters(r) \/ (semWaiters' = semWaiters /\ stage[r] \in Running)
        PROVE  QueuesSound' /\ GrantsInOrder'
    <3>1. /\ \A t \in Tenants : Pending(t)' \subseteq Pending(t)
          /\ \A t \in Tenants : \A q \in Granted(t)' :
                q \in Granted(t) \/ \A p \in Pending(t)' : Before(t, q, p)
          /\ \A q \in Requests \ {r} : stage[q] \in Waiting => stage'[q] \in Waiting
      BY <2>6, WakeUpInOrder
    <3>2. /\ \A t \in Tenants : \A i, j \in DOMAIN semWaiters'[t] : i < j =>
                 \E k, l \in DOMAIN semWaiters[t] :
                    /\ k < l
                    /\ semWaiters[t][k] = semWaiters'[t][i]
                    /\ semWaiters[t][l] = semWaiters'[t][j]
          /\ \A t \in Tenants : \A i \in DOMAIN semWaiters'[t] :
                 /\ semWaiters'[t][i] # r
                 /\ \E k \in DOMAIN semWaiters[t] : semWaiters[t][k] = semWaiters'[t][i]
      <4>1. CASE LeaveWaiters(r)
        BY <4>1, LeaveInOrder
      <4>2. CASE semWaiters' = semWaiters /\ stage[r] \in Running
        BY <4>2 DEF QueuesSound, Running, Waiting
      <4> QED BY <2>6, <4>1, <4>2
    <3>3. QueuesSound'
      BY <3>1, <3>2, QueuesKept
    <3>4. GrantsInOrder'
      BY <3>1, <3>2, GrantsKept
    <3> QED BY <3>3, <3>4
  <2>7. CASE StartGranted(r)
    BY <2>1, <2>6, <2>7 DEF StartGranted
  <2>8. CASE InvalidGranted(r)
    <3>1. WakeUpNext(r, "idle", 1, semValue[u] + 1) /\ semValue[u] + 1 \in Nat
          /\ LeaveWaiters(r) /\ stage[r] = "granted"
      BY <2>1, <2>8 DEF InvalidGranted
    <3> QED BY <2>6, <3>1
  <2>9. CASE AbandonWait(r)
    <3>1. PICK gained \in {0, 1} : WakeUpNext(r, "idle", gained, semValue[u] + gained)
      BY <2>9 DEF AbandonWait, PermitToReturn
    <3>2. LeaveWaiters(r) /\ stage[r] # "pending" /\ semValue[u] + gained \in Nat
      BY <2>1, <2>9 DEF AbandonWait
    <3> QED BY <2>6, <3>1, <3>2
  <2>10. CASE PolicyDeny(r) \/ PolicyError(r) \/ ReturnRows(r) \/ ExecutionError(r)
              \/ CancelRunning(r)
    <3>1. WakeUpNext(r, "idle", 1, 1) /\ stage[r] \in Running /\ semWaiters' = semWaiters
      BY <2>10 DEF PolicyDeny, PolicyError, ReturnRows, ExecutionError,
                   CancelRunning, Running, ReleaseAndReply
    <3>2. stage[r] # "pending"
      BY <3>1 DEF Running
    <3> QED BY <2>6, <3>1, <3>2
  <2> QED BY <1>2, <2>2, <2>3, <2>4, <2>5, <2>7, <2>8, <2>9, <2>10
          DEF Arrive, Cancel, Resume, Answer
<1> QED BY <1>1, <1>2 DEF Next

(* asyncio.Semaphore as the gateway uses it is fair: no waiter of a tenant *)
(* holds a permit while an older one is still pending, whatever timeouts   *)
(* and cancellations take out of the middle of the queue.                  *)
THEOREM PermitsInOrder == Spec => []GrantsInOrder
<1>1. Init => QueuesSound /\ GrantsInOrder
  BY DEF Init, QueuesSound, GrantsInOrder, Pending
<1>2. TypeOK /\ TypeOK' /\ (QueuesSound /\ GrantsInOrder) /\ [Next]_vars
        => (QueuesSound /\ GrantsInOrder)'
  BY OrderStep
<1> QED BY <1>1, <1>2, TypeCorrect, PTL DEF Spec
-----------------------------------------------------------------------------
(* The audit trail.  The property is not inductive: what a request may     *)
(* still write depends on what it has written, so the invariant fixes the  *)
(* trail of every request in flight.                                       *)
STARTED  == <<"sql_query_started">>
QUERIED  == <<"sql_query_started", "sql_query">>
Refusals == {"policy_denied", "query_rejected_overload"}

(* A refusal is answered as a failure and stands beside no sql_query. *)
RefusedCleanly(tr, o) ==
    \A i \in DOMAIN tr :
        tr[i] \in Refusals =>
            o = "failed" /\ \A j \in DOMAIN tr : tr[j] # "sql_query"

(* A request's stage s, trail tr and outcome o agree. *)
TrailAgrees(s, tr, o) ==
    /\ s \in Waiting \cup {"policy"} => tr = STARTED /\ o = "none"
    /\ s = "executing" => tr = QUERIED /\ o = "none"
    /\ o = "rows" => tr = QUERIED
    /\ RefusedCleanly(tr, o)

TrailsAgree == \A r \in Requests : TrailAgrees(stage[r], trail[r], outcome[r])

(* The two trails a request can have while it is in flight.                *)
LEMMA FixedTrails ==
    /\ STARTED \in Seq(Event) /\ QUERIED \in Seq(Event) /\ <<>> \in Seq(Event)
    /\ \A o : RefusedCleanly(STARTED, o) /\ RefusedCleanly(QUERIED, o)
    /\ \A o : RefusedCleanly(<<>>, o)
    /\ Append(STARTED, "sql_query") = QUERIED
    /\ \A i \in DOMAIN STARTED : STARTED[i] = "sql_query_started"
    /\ \A i \in DOMAIN QUERIED : QUERIED[i] \in {"sql_query_started", "sql_query"}
<1>1. STARTED \in Seq(Event) /\ QUERIED \in Seq(Event) /\ <<>> \in Seq(Event)
  BY DEF STARTED, QUERIED, Event
<1>2. \A i \in DOMAIN STARTED : STARTED[i] = "sql_query_started"
  BY DEF STARTED
<1>3. \A i \in DOMAIN QUERIED : QUERIED[i] \in {"sql_query_started", "sql_query"}
  BY DEF QUERIED
<1>4. Append(STARTED, "sql_query") = QUERIED
  <2> DEFINE a == Append(STARTED, "sql_query")
  <2>1. "sql_query" \in Event
    BY DEF Event
  <2>2. a \in Seq(Event) /\ Len(a) = 2 /\ a[1] = "sql_query_started" /\ a[2] = "sql_query"
    BY <1>1, <2>1 DEF STARTED
  <2>3. Len(QUERIED) = 2 /\ QUERIED[1] = "sql_query_started" /\ QUERIED[2] = "sql_query"
    BY DEF QUERIED
  <2> HIDE DEF a
  <2>4. \A i \in 1..Len(a) : a[i] = QUERIED[i]
    BY <2>2, <2>3
  <2>5. a = QUERIED
    BY <1>1, <2>2, <2>3, <2>4, SeqEqual
  <2> QED BY <2>5 DEF a
<1>5. ASSUME NEW o
      PROVE  RefusedCleanly(STARTED, o) /\ RefusedCleanly(QUERIED, o) /\ RefusedCleanly(<<>>, o)
  BY <1>2, <1>3 DEF RefusedCleanly, Refusals
<1> QED BY <1>1, <1>2, <1>3, <1>4, <1>5

(* Writing one more event: a refusal must be the answer, and the first. *)
LEMMA OneMoreEvent ==
    ASSUME NEW tr \in {STARTED, QUERIED}, NEW e \in Event, NEW o,
           e \in Refusals => tr = STARTED /\ o = "failed"
    PROVE  RefusedCleanly(tr \o <<e>>, o) /\ RefusedCleanly(tr \o <<>>, o)
           /\ tr \o <<>> = tr
<1>1. tr \in Seq(Event)
  BY FixedTrails
<1>2. tr \o <<e>> = Append(tr, e) /\ tr \o <<>> = tr
  BY <1>1
<1>3. \A i \in DOMAIN Append(tr, e) :
        Append(tr, e)[i] = e \/ (i \in DOMAIN tr /\ Append(tr, e)[i] = tr[i])
  BY <1>1
<1>4. RefusedCleanly(Append(tr, e), o)
  <2>1. \A i \in DOMAIN tr : tr[i] \notin Refusals
    BY FixedTrails DEF Refusals
  <2>2. tr = STARTED => \A i \in DOMAIN tr : tr[i] # "sql_query"
    BY FixedTrails
  <2> QED BY <1>3, <2>1, <2>2 DEF RefusedCleanly, Refusals
<1>5. RefusedCleanly(tr, o)
  BY FixedTrails
<1> QED BY <1>2, <1>4, <1>5

(* A request's answer: what it adds to a trail in flight agrees with it. *)
LEMMA AnswerAgrees ==
    ASSUME TypeOK, NEW r \in Requests, trail[r] \in {STARTED, QUERIED},
           \/ ErrorReply(r) \/ Reply(r, "cancelled", <<>>) \/ Reply(r, "db_error", <<>>)
           \/ (trail[r] = QUERIED /\ Reply(r, "rows", <<>>))
           \/ (trail[r] = STARTED /\ \E e \in Refusals : \E events \in Audited(e) :
                                         Reply(r, "failed", events))
    PROVE  /\ TrailAgrees("idle", trail'[r], outcome'[r])
           /\ \A q \in Requests \ {r} : trail'[q] = trail[q] /\ outcome'[q] = outcome[q]
<1>1. "sql_validation_failed" \in Event /\ Refusals \subseteq Event
      /\ "sql_validation_failed" \notin Refusals
  BY DEF Event, Refusals
<1>2. \A o, events : Reply(r, o, events) =>
        /\ trail'[r] = trail[r] \o events /\ outcome'[r] = o
        /\ \A q \in Requests \ {r} : trail'[q] = trail[q] /\ outcome'[q] = outcome[q]
  BY DEF Reply, TypeOK
<1>3. "idle" \notin Waiting \cup {"policy", "executing"}
  BY DEF Waiting
<1>4. ASSUME Reply(r, "invalid", <<"sql_validation_failed">>)
      PROVE  TrailAgrees("idle", trail'[r], outcome'[r])
  <2>1. RefusedCleanly(trail[r] \o <<"sql_validation_failed">>, "invalid")
    BY <1>1, OneMoreEvent
  <2>2. trail'[r] = trail[r] \o <<"sql_validation_failed">> /\ outcome'[r] = "invalid"
    BY <1>2, <1>4
  <2>3. "invalid" # "rows"
    OBVIOUS
  <2> QED BY <1>3, <2>1, <2>2, <2>3 DEF TrailAgrees
<1>5. ASSUME NEW o \in {"failed", "cancelled", "db_error", "rows"}, Reply(r, o, <<>>),
             o = "rows" => trail[r] = QUERIED
      PROVE  TrailAgrees("idle", trail'[r], outcome'[r])
  <2>1. RefusedCleanly(trail[r] \o <<>>, o) /\ trail[r] \o <<>> = trail[r]
    BY <1>1, OneMoreEvent
  <2> QED BY <1>2, <1>3, <1>5, <2>1 DEF TrailAgrees
<1>6. ASSUME trail[r] = STARTED, NEW e \in Refusals, NEW events \in Audited(e),
             Reply(r, "failed", events)
      PROVE  TrailAgrees("idle", trail'[r], outcome'[r])
  <2>1. RefusedCleanly(trail[r] \o <<e>>, "failed") /\ RefusedCleanly(trail[r] \o <<>>, "failed")
    BY <1>1, <1>6, OneMoreEvent
  <2>2. RefusedCleanly(trail[r] \o events, "failed")
    BY <2>1 DEF Audited
  <2>3. trail'[r] = trail[r] \o events /\ outcome'[r] = "failed"
    BY <1>2, <1>6
  <2> QED BY <1>3, <2>2, <2>3 DEF TrailAgrees
<1>7. TrailAgrees("idle", trail'[r], outcome'[r])
  BY <1>4, <1>5, <1>6 DEF ErrorReply
<1>8. \A q \in Requests \ {r} : trail'[q] = trail[q] /\ outcome'[q] = outcome[q]
  BY <1>2 DEF ErrorReply
<1> QED BY <1>7, <1>8

(* The requests _wake_up_next reaches wait on with the same trail. *)
LEMMA WokenWaitOn ==
    ASSUME TypeOK, NEW r \in Requests, NEW s \in Stage, NEW gained \in {0, 1},
           NEW n \in Nat, WakeUpNext(r, s, gained, n)
    PROVE  /\ stage'[r] = s
           /\ \A q \in Requests \ {r} :
                 \/ stage'[q] = stage[q]
                 \/ stage[q] = "pending" /\ stage'[q] = "granted"
<1> DEFINE t == TenantOf[r]
<1>1. t \in Tenants
  BY QuotaAssumption
<1>2. PICK G \in WokenBy(t, n) :
        stage' = [q \in Requests |-> IF q = r THEN s
                                     ELSE IF q \in G THEN "granted"
                                     ELSE stage[q]]
  BY DEF WakeUpNext
<1>3. \A q \in G : stage[q] = "pending"
  BY <1>1, WokenArePending DEF Pending
<1> QED BY <1>2, <1>3

(* If r agrees after the step and nobody else does more than be woken, all *)
(* agree.                                                                  *)
LEMMA OthersAgree ==
    ASSUME TrailsAgree, NEW r \in Requests,
           TrailAgrees(stage'[r], trail'[r], outcome'[r]),
           \A q \in Requests \ {r} :
               /\ trail'[q] = trail[q] /\ outcome'[q] = outcome[q]
               /\ \/ stage'[q] = stage[q]
                  \/ stage[q] = "pending" /\ stage'[q] = "granted"
    PROVE  TrailsAgree'
<1>1. \A q \in Requests \ {r} : TrailAgrees(stage'[q], trail'[q], outcome'[q])
  BY DEF TrailsAgree, TrailAgrees, Waiting
<1> QED BY <1>1 DEF TrailsAgree

(* No step of the gateway breaks the agreement of stage, trail and answer. *)
LEMMA TrailStep ==
    ASSUME TypeOK, TrailsAgree, [Next]_vars
    PROVE  TrailsAgree'
<1>1. CASE UNCHANGED vars
  BY <1>1 DEF vars, TrailsAgree
<1>2. ASSUME NEW r \in Requests,
             Arrive(r) \/ WaitTimeout(r) \/ Cancel(r) \/ Resume(r) \/ Answer(r)
      PROVE  TrailsAgree'
  <2>1. TrailAgrees(stage[r], trail[r], outcome[r])
    BY DEF TrailsAgree
  <2>2. /\ TenantOf[r] \in Tenants /\ semValue[TenantOf[r]] \in Nat
        /\ "idle" \in Stage /\ "policy" \in Stage
        /\ "idle" \notin Waiting /\ "policy" \notin Waiting /\ "executing" \notin Waiting
        /\ "pending" \in Waiting /\ "granted" \in Waiting /\ "cancelled" \in Waiting
    BY QuotaAssumption DEF TypeOK, Stage, Running, Waiting
  <2>3. CASE RefuseInput(r)
    <3>1. PICK o \in {"forbidden", "invalid", "failed"},
               events \in Audited("tenant_resolution_failed") :
            trail' = [trail EXCEPT ![r] = events] /\ outcome' = [outcome EXCEPT ![r] = o]
      BY <2>3 DEF RefuseInput
    <3>2. stage[r] = "idle" /\ stage' = stage
      BY <2>3 DEF RefuseInput
    <3>3. RefusedCleanly(events, o)
      <4>1. events = <<>> \/ events = <<"tenant_resolution_failed">>
        BY DEF Audited
      <4>2. \A i \in DOMAIN events : events[i] = "tenant_resolution_failed"
        BY <4>1
      <4> QED BY <4>2 DEF RefusedCleanly, Refusals
    <3>4. TrailAgrees(stage'[r], trail'[r], outcome'[r])
      BY <2>2, <3>1, <3>2, <3>3 DEF TrailAgrees, TypeOK
    <3> QED BY <3>1, <3>2, <3>4, OthersAgree DEF TypeOK
  <2>4. CASE RejectOverload(r)
    <3>1. PICK events \in Audited("query_rejected_overload") :
            trail' = [trail EXCEPT ![r] = STARTED \o events]
      BY <2>4 DEF RejectOverload, STARTED
    <3>2. stage[r] = "idle" /\ stage' = stage /\ outcome' = [outcome EXCEPT ![r] = "failed"]
      BY <2>4 DEF RejectOverload
    <3>3. RefusedCleanly(STARTED \o events, "failed")
      <4>1. "query_rejected_overload" \in Event
        BY DEF Event
      <4>2. RefusedCleanly(STARTED \o <<"query_rejected_overload">>, "failed")
            /\ RefusedCleanly(STARTED \o <<>>, "failed")
        BY <4>1, OneMoreEvent
      <4> QED BY <4>2 DEF Audited
    <3>4. TrailAgrees(stage'[r], trail'[r], outcome'[r])
      BY <2>2, <3>1, <3>2, <3>3 DEF TrailAgrees, TypeOK
    <3> QED BY <3>1, <3>2, <3>4, OthersAgree DEF TypeOK
  <2>5. CASE EnqueueAndWait(r) \/ EnqueueAndStart(r)
    <3>1. PICK s \in {"pending", "policy"} : stage' = [stage EXCEPT ![r] = s]
      BY <2>5 DEF EnqueueAndWait, EnqueueAndStart
    <3>2. trail' = [trail EXCEPT ![r] = STARTED] /\ outcome' = [outcome EXCEPT ![r] = "none"]
      BY <2>5 DEF EnqueueAndWait, EnqueueAndStart, STARTED
    <3>3. TrailAgrees(stage'[r], trail'[r], outcome'[r])
      BY <2>2, <3>1, <3>2, FixedTrails DEF TrailAgrees, TypeOK
    <3> QED BY <3>1, <3>2, <3>3, OthersAgree DEF TypeOK
  <2>6. CASE EnqueueInvalid(r)
    <3>1. stage[r] = "idle" /\ stage' = stage
      BY <2>6 DEF EnqueueInvalid
    <3>2. PICK tr \in {STARTED, <<"sql_query_started", "sql_validation_failed">>},
               o \in {"invalid", "failed"} :
            trail' = [trail EXCEPT ![r] = tr] /\ outcome' = [outcome EXCEPT ![r] = o]
      BY <2>6 DEF EnqueueInvalid, STARTED
    <3>3. RefusedCleanly(tr, o)
      <4>1. CASE tr = <<"sql_query_started", "sql_validation_failed">>
        <5>1. \A i \in DOMAIN tr : tr[i] \in {"sql_query_started", "sql_validation_failed"}
          BY <4>1
        <5> QED BY <5>1 DEF RefusedCleanly, Refusals
      <4> QED BY <4>1, FixedTrails
    <3>4. TrailAgrees(stage'[r], trail'[r], outcome'[r])
      BY <2>2, <3>1, <3>2, <3>3 DEF TrailAgrees, TypeOK
    <3> QED BY <3>1, <3>2, <3>4, OthersAgree DEF TypeOK
  <2>7. CASE WaitTimeout(r) \/ CancelWaiting(r)
    <3>1. stage[r] \in Waiting /\ stage'[r] \in Waiting
      BY <2>7 DEF WaitTimeout, CancelWaiting, Waiting, TypeOK
    <3>2. trail' = trail /\ outcome' = outcome
          /\ \A q \in Requests \ {r} : stage'[q] = stage[q]
      BY <2>7 DEF WaitTimeout, CancelWaiting, TypeOK
    <3>3. TrailAgrees(stage'[r], trail'[r], outcome'[r])
      BY <2>1, <2>2, <3>1, <3>2 DEF TrailAgrees
    <3> QED BY <3>2, <3>3, OthersAgree
  <2>8. CASE StartGranted(r)
    <3>1. stage[r] = "granted" /\ trail' = trail /\ outcome' = outcome
          /\ WakeUpNext(r, "policy", 0, semValue[TenantOf[r]])
      BY <2>8 DEF StartGranted
    <3>2. stage'[r] = "policy" /\ \A q \in Requests \ {r} :
            stage'[q] = stage[q] \/ (stage[q] = "pending" /\ stage'[q] = "granted")
      BY <2>2, <3>1, WokenWaitOn
    <3>3. TrailAgrees(stage'[r], trail'[r], outcome'[r])
      BY <2>1, <2>2, <3>1, <3>2 DEF TrailAgrees
    <3> QED BY <3>1, <3>2, <3>3, OthersAgree
  <2>9. CASE PolicyAllow(r)
    <3>1. /\ stage[r] = "policy" /\ stage' = [stage EXCEPT ![r] = "executing"]
          /\ trail' = [trail EXCEPT ![r] = Append(trail[r], "sql_query")]
          /\ outcome' = outcome
      BY <2>9 DEF PolicyAllow
    <3>2. trail[r] = STARTED /\ outcome[r] = "none"
      BY <2>1, <3>1 DEF TrailAgrees
    <3>3. stage'[r] = "executing" /\ trail'[r] = QUERIED /\ outcome'[r] = "none"
      BY <3>1, <3>2, FixedTrails DEF TypeOK
    <3>4. TrailAgrees(stage'[r], trail'[r], outcome'[r])
      BY <2>2, <3>3, FixedTrails DEF TrailAgrees
    <3> QED BY <3>1, <3>4, OthersAgree DEF TypeOK
  <2>10. ASSUME NEW gained \in {0, 1}, NEW n \in Nat, WakeUpNext(r, "idle", gained, n),
                TrailAgrees("idle", trail'[r], outcome'[r]),
                \A q \in Requests \ {r} : trail'[q] = trail[q] /\ outcome'[q] = outcome[q]
         PROVE  TrailsAgree'
    <3>1. stage'[r] = "idle" /\ \A q \in Requests \ {r} :
            stage'[q] = stage[q] \/ (stage[q] = "pending" /\ stage'[q] = "granted")
      BY <2>2, <2>10, WokenWaitOn
    <3> QED BY <2>10, <3>1, OthersAgree
  <2>11. CASE InvalidGranted(r)
    <3>1. stage[r] = "granted" /\ ErrorReply(r)
          /\ WakeUpNext(r, "idle", 1, semValue[TenantOf[r]] + 1)
      BY <2>11 DEF InvalidGranted
    <3>2. trail[r] = STARTED
      BY <2>1, <2>2, <3>1 DEF TrailAgrees
    <3> QED BY <2>2, <2>10, <3>1, <3>2, AnswerAgrees
  <2>12. CASE AbandonWait(r)
    <3>1. PICK gained \in {0, 1} :
            WakeUpNext(r, "idle", gained, semValue[TenantOf[r]] + gained)
      BY <2>12 DEF AbandonWait, PermitToReturn
    <3>2. trail[r] = STARTED
      BY <2>1, <2>2, <2>12 DEF TrailAgrees, AbandonWait
    <3>3. \/ Reply(r, "cancelled", <<>>)
          \/ \E e \in Refusals : \E events \in Audited(e) : Reply(r, "failed", events)
      BY <2>12 DEF AbandonWait, Refusals
    <3> QED BY <2>2, <2>10, <3>1, <3>2, <3>3, AnswerAgrees
  <2>13. CASE PolicyDeny(r) \/ PolicyError(r)
    <3>1. WakeUpNext(r, "idle", 1, 1) /\ stage[r] = "policy"
      BY <2>13 DEF PolicyDeny, PolicyError, ReleaseAndReply
    <3>2. trail[r] = STARTED
      BY <2>1, <3>1 DEF TrailAgrees
    <3>3. \/ ErrorReply(r)
          \/ \E e \in Refusals : \E events \in Audited(e) : Reply(r, "failed", events)
      BY <2>13 DEF PolicyDeny, PolicyError, Refusals
    <3> QED BY <2>10, <3>1, <3>2, <3>3, AnswerAgrees
  <2>14. CASE ReturnRows(r) \/ ExecutionError(r)
    <3>1. WakeUpNext(r, "idle", 1, 1) /\ stage[r] = "executing"
      BY <2>14 DEF ReturnRows, ExecutionError, ReleaseAndReply
    <3>2. trail[r] = QUERIED
      BY <2>1, <3>1 DEF TrailAgrees
    <3>3. ErrorReply(r) \/ Reply(r, "db_error", <<>>) \/ Reply(r, "rows", <<>>)
      BY <2>14 DEF ReturnRows, ExecutionError
    <3> QED BY <2>10, <3>1, <3>2, <3>3, AnswerAgrees
  <2>15. CASE CancelRunning(r)
    <3>1. WakeUpNext(r, "idle", 1, 1) /\ stage[r] \in {"policy", "executing"}
          /\ Reply(r, "cancelled", <<>>)
      BY <2>15 DEF CancelRunning, ReleaseAndReply, Running
    <3>2. trail[r] \in {STARTED, QUERIED}
      BY <2>1, <3>1 DEF TrailAgrees
    <3> QED BY <2>10, <3>1, <3>2, AnswerAgrees
  <2> QED BY <1>2, <2>3, <2>4, <2>5, <2>6, <2>7, <2>8, <2>9, <2>11, <2>12, <2>13,
             <2>14, <2>15 DEF Arrive, Cancel, Resume, Answer
<1> QED BY <1>1, <1>2 DEF Next

(* A statement runs, and rows are returned, only after sql_query was       *)
(* audited, and a request refused by policy or overload carries no         *)
(* sql_query event, on every path through execute and its finally.         *)
THEOREM NothingRunsUnaudited == Spec => []AuditedBeforeExecution
<1>1. Init => TrailsAgree
  BY DEF Init, TrailsAgree, TrailAgrees, RefusedCleanly, Waiting
<1>2. TypeOK /\ TrailsAgree /\ [Next]_vars => TrailsAgree'
  BY TrailStep
<1>3. TrailsAgree => AuditedBeforeExecution
  BY DEF TrailsAgree, TrailAgrees, RefusedCleanly, Refusals, QUERIED,
         AuditedBeforeExecution
<1> QED BY <1>1, <1>2, <1>3, TypeCorrect, PTL DEF Spec
-----------------------------------------------------------------------------
(* The counters the limits are checked against are TenantQuota's sets. *)
LEMMA QuotaSets ==
    ASSUME NEW t \in Tenants
    PROVE  Quota!Inside(t) = InFlight(t) /\ Quota!RunningOf(t) = Active(t)
BY DEF Quota!Inside, Quota!RunningOf, InFlight, Active, AllInFlight, AllActive

(* TenantQuota counts with the same Cardinality. *)
LEMMA QuotaCardinality ==
    ASSUME NEW S
    PROVE  Quota!Cardinality(S) = Cardinality(S)
BY DEF Quota!Cardinality, Cardinality

(* A request that holds a permit and does not run yet finds a free place. *)
LEMMA RoomForHolder ==
    ASSUME TypeOK, PermitsConserved, NEW r \in Requests, stage[r] = "granted"
    PROVE  Cardinality(Active(TenantOf[r])) < ConcurrentLimit
<1> DEFINE t == TenantOf[r]
<1>1. t \in Tenants
  BY QuotaAssumption
<1>2. /\ Active(t) \in SUBSET Holders(t) /\ Holders(t) \in SUBSET Requests
      /\ r \in Holders(t) /\ r \notin Active(t)
  BY DEF Active, Holders, Running
<1>3. IsFiniteSet(Holders(t)) /\ Cardinality(Holders(t)) \in Nat
      /\ Cardinality(Active(t)) \in Nat
  BY <1>2, SlotSetsFinite
<1>4. Cardinality(Active(t)) <= Cardinality(Holders(t))
      /\ Cardinality(Holders(t)) # Cardinality(Active(t))
  BY <1>2, <1>3, FS_Subset
<1>5. semValue[t] \in Nat /\ semValue[t] + Cardinality(Holders(t)) = ConcurrentLimit
  BY <1>1 DEF TypeOK, PermitsConserved
<1> QED BY <1>3, <1>4, <1>5, QuotaAssumption

(* A free permit means that fewer than ConcurrentLimit requests run. *)
LEMMA RoomForFreePermit ==
    ASSUME TypeOK, PermitsConserved, NEW t \in Tenants, semValue[t] # 0
    PROVE  Cardinality(Active(t)) < ConcurrentLimit
<1>1. Active(t) \in SUBSET Holders(t) /\ Holders(t) \in SUBSET Requests
  BY DEF Active, Holders
<1>2. IsFiniteSet(Holders(t)) /\ Cardinality(Holders(t)) \in Nat
      /\ Cardinality(Active(t)) \in Nat
  BY <1>1, SlotSetsFinite
<1>3. Cardinality(Active(t)) <= Cardinality(Holders(t))
  BY <1>1, <1>2, FS_Subset
<1>4. semValue[t] \in Nat /\ semValue[t] + Cardinality(Holders(t)) = ConcurrentLimit
  BY DEF TypeOK, PermitsConserved
<1> QED BY <1>2, <1>3, <1>4, QuotaAssumption

(* A request that leaves through any finally is a Leave of TenantQuota. *)
LEMMA LeaveRefines ==
    ASSUME TypeOK, NEW r \in Requests, stage[r] # "idle", NEW gained \in {0, 1},
           NEW n \in Nat, WakeUpNext(r, "idle", gained, n)
    PROVE  Quota!QNext
<1>1. "idle" \in Stage /\ "idle" \notin Running
  BY DEF Stage, Running
<1>2. /\ stage'[r] = "idle"
      /\ \A q \in Requests \ {r} : /\ stage'[q] = "idle" <=> stage[q] = "idle"
                                   /\ stage'[q] \in Running <=> stage[q] \in Running
  BY <1>1, WakeUpInFlight
<1>3. r \in AllInFlight
  BY DEF AllInFlight
<1>4. AllInFlight' = AllInFlight \ {r}
  BY <1>2 DEF AllInFlight
<1>5. AllActive' = AllActive \ {r}
  BY <1>1, <1>2 DEF AllActive
<1>6. Quota!Leave(r)
  BY <1>3, <1>4, <1>5 DEF Quota!Leave
<1> QED BY <1>6 DEF Quota!QNext

(* Every step of the gateway is a step of TenantQuota or leaves its        *)
(* variables unchanged.                                                    *)
LEMMA QuotaStep ==
    ASSUME TypeOK, PermitsConserved, QueueCountExact, [Next]_vars
    PROVE  Quota!QNext \/ UNCHANGED <<AllInFlight, AllActive>>
<1>1. CASE UNCHANGED vars
  BY <1>1 DEF vars, AllInFlight, AllActive
<1>2. ASSUME NEW r \in Requests,
             Arrive(r) \/ WaitTimeout(r) \/ Cancel(r) \/ Resume(r) \/ Answer(r)
      PROVE  Quota!QNext \/ UNCHANGED <<AllInFlight, AllActive>>
  <2> DEFINE t == TenantOf[r]
  <2>1. t \in Tenants /\ semValue[t] \in Nat
    BY QuotaAssumption DEF TypeOK
  <2>2. Quota!Inside(t) = InFlight(t) /\ Quota!RunningOf(t) = Active(t)
        /\ current_queued[t] = Cardinality(InFlight(t))
    BY <2>1, QuotaSets DEF QueueCountExact
  <2>3. CASE RefuseInput(r) \/ RejectOverload(r) \/ EnqueueInvalid(r)
    BY <2>3 DEF RefuseInput, RejectOverload, EnqueueInvalid, AllInFlight, AllActive
  <2>4. CASE WaitTimeout(r) \/ CancelWaiting(r) \/ PolicyAllow(r)
    <3>1. \A q \in Requests : /\ stage'[q] = "idle" <=> stage[q] = "idle"
                              /\ stage'[q] \in Running <=> stage[q] \in Running
      BY <2>4 DEF WaitTimeout, CancelWaiting, PolicyAllow, TypeOK, Running, Waiting
    <3> QED BY <3>1 DEF AllInFlight, AllActive
  <2>5. CASE EnqueueAndWait(r)
    <3>1. r \notin AllInFlight /\ AllInFlight' = AllInFlight \cup {r}
      BY <2>5 DEF EnqueueAndWait, AllInFlight, TypeOK
    <3>2. UNCHANGED AllActive
      BY <2>5 DEF EnqueueAndWait, AllActive, TypeOK, Running
    <3>3. Quota!Admit(r)
      BY <2>1, <2>2, <2>5, <3>1, <3>2,
         NotFull, QuotaCardinality DEF Quota!Admit, EnqueueAndWait
    <3> QED BY <3>3 DEF Quota!QNext
  <2>6. CASE EnqueueAndStart(r)
    <3>1. r \notin AllInFlight /\ AllInFlight' = AllInFlight \cup {r}
      BY <2>6 DEF EnqueueAndStart, AllInFlight, TypeOK
    <3>2. AllActive' = AllActive \cup {r}
      BY <2>6 DEF EnqueueAndStart, AllActive, TypeOK, Running
    <3>3. Cardinality(Active(t)) < ConcurrentLimit
      BY <2>1, <2>6, RoomForFreePermit DEF EnqueueAndStart, Locked
    <3>4. Quota!AdmitAndStart(r)
      BY <2>1, <2>2, <2>6, <3>1, <3>2, <3>3,
         NotFull, QuotaCardinality DEF Quota!AdmitAndStart, EnqueueAndStart
    <3> QED BY <3>4 DEF Quota!QNext
  <2>7. CASE StartGranted(r)
    <3>1. WakeUpNext(r, "policy", 0, semValue[t]) /\ stage[r] = "granted"
          /\ "policy" \in Stage /\ "policy" \in Running /\ "granted" \notin Running
      BY <2>7 DEF StartGranted, Stage, Running
    <3>2. /\ stage'[r] = "policy"
          /\ \A q \in Requests \ {r} :
                /\ stage'[q] = "idle" <=> stage[q] = "idle"
                /\ stage'[q] \in Running <=> stage[q] \in Running
      BY <2>1, <3>1, WakeUpInFlight
    <3>3. r \in AllInFlight \ AllActive /\ AllInFlight' = AllInFlight
      BY <3>1, <3>2 DEF AllInFlight, AllActive
    <3>4. AllActive' = AllActive \cup {r}
      BY <3>1, <3>2 DEF AllActive
    <3>5. Cardinality(Active(t)) < ConcurrentLimit
      BY <3>1, RoomForHolder
    <3>6. Quota!Start(r)
      BY <2>2, <3>3, <3>4, <3>5, QuotaCardinality DEF Quota!Start
    <3> QED BY <3>6 DEF Quota!QNext
  <2>8. CASE InvalidGranted(r)
    <3>1. WakeUpNext(r, "idle", 1, semValue[t] + 1) /\ stage[r] # "idle"
      BY <2>8 DEF InvalidGranted
    <3> QED BY <2>1, <3>1, LeaveRefines
  <2>9. CASE AbandonWait(r)
    <3>1. PICK gained \in {0, 1} : WakeUpNext(r, "idle", gained, semValue[t] + gained)
      BY <2>9 DEF AbandonWait, PermitToReturn
    <3>2. stage[r] # "idle"
      BY <2>9 DEF AbandonWait
    <3> QED BY <2>1, <3>1, <3>2, LeaveRefines
  <2>10. CASE PolicyDeny(r) \/ PolicyError(r) \/ ReturnRows(r) \/ ExecutionError(r)
              \/ CancelRunning(r)
    <3>1. WakeUpNext(r, "idle", 1, 1) /\ stage[r] # "idle"
      BY <2>10 DEF PolicyDeny, PolicyError, ReturnRows, ExecutionError,
                   CancelRunning, Running, ReleaseAndReply
    <3> QED BY <3>1, LeaveRefines
  <2> QED BY <1>2, <2>3, <2>4, <2>5, <2>6, <2>7, <2>8, <2>9, <2>10
          DEF Arrive, Cancel, Resume, Answer
<1> QED BY <1>1, <1>2 DEF Next

(* The gateway implements the per-tenant quota specification. *)
THEOREM GatewayImplementsQuota == Spec => ImplementsTenantQuota
<1>1. Init => Quota!QInit
  BY DEF Init, Quota!QInit, AllInFlight, AllActive, Running
<1>2. TypeOK /\ PermitsConserved /\ QueueCountExact /\ [Next]_vars
        => [Quota!QNext]_<<AllInFlight, AllActive>>
  BY QuotaStep
<1> QED BY <1>1, <1>2, TypeCorrect, PermitsNeverLeak, QueueCountIsExact, PTL
        DEF Spec, ImplementsTenantQuota, Quota!QSpec
=============================================================================
