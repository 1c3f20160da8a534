---------------------------- MODULE RateLimiter -----------------------------
(***************************************************************************)
(* RateLimitMiddleware (middlewares/rate_limit_middleware.py): one sliding *)
(* window per dimension and key, kept as a deque of timestamps.            *)
(*                                                                         *)
(* RBACMiddleware runs first and answers requests without a valid token,   *)
(* so every caller here has a principal with a user and an organisation.   *)
(* _lock is never contended: nothing suspends while it is held, and a      *)
(* request is one action.                                                  *)
(***************************************************************************)
EXTENDS Integers, Sequences, FiniteSetsExt

CONSTANTS
    Callers,       \* who sends requests: [ip, principal, tenant, database]
    Keys,          \* the keys of the dictionaries, all dimensions
    NoKey,         \* None
    Settings,      \* the maxima per dimension a deployment may configure
    WindowSeconds, \* RATE_LIMIT_WINDOW_SECONDS
    MaxTime,       \* bound: the clock
    MaxRequests    \* bound: requests

Layers     == {"ip", "principal", "tenant", "database"}
Dimensions == Layers \cup {"legacy"}

(* The order of the checks in _allow_request; legacy mode has one check.   *)
Position == [ip |-> 1, principal |-> 2, tenant |-> 3, database |-> 4, legacy |-> 1]

ASSUME RateAssumption ==
    /\ Settings \subseteq [Dimensions -> Int]
    /\ WindowSeconds \in Nat \ {0}
    /\ MaxTime \in Nat
    /\ NoKey \notin Keys
    /\ Callers \subseteq [ip : Keys, principal : Keys, tenant : Keys, database : Keys]

VARIABLES
    limit,     \* the maxima in force, read from the environment at start
    now,       \* time.monotonic, in units of the smallest distinction made
    log,       \* the deques of timestamps, per dimension and key
    history    \* every request so far: when, by whom, and the dimension
               \* that refused it, "" if it was let through

rateVars == <<limit, now, log, history>>

RateInit ==
    /\ limit \in Settings
    /\ now = 0
    /\ log = [d \in Dimensions |-> [k \in Keys |-> <<>>]]
    /\ history = <<>>

-----------------------------------------------------------------------------
(* _layered_mode *)
LayeredMode == limit["legacy"] = 0 /\ \E d \in Layers : limit[d] > 0

(* _get_rate_limit_keys, _get_rate_limit_key.  _extract_database_id always *)
(* returns None.                                                           *)
KeyOf(caller, d) ==
    CASE d = "ip" -> caller.ip
      [] d = "tenant" -> caller.tenant
      [] d = "database" -> NoKey
      [] OTHER -> caller.principal

(* Mutant: a window one unit too short. *)
EvictedEarly(s, cutoff) ==
    LET live == {i \in DOMAIN s : s[i] > cutoff + 1} IN
    IF live = {} THEN <<>> ELSE SubSeq(s, Min(live), Len(s))

(* while requests and requests[0] <= cutoff: requests.popleft() *)
Evicted(s, cutoff) ==
    LET live == {i \in DOMAIN s : s[i] > cutoff} IN
    IF live = {} THEN <<>> ELSE SubSeq(s, Min(live), Len(s))

(* The deque of key k after eviction. *)
Window(d, k) == Evicted(log[d][k], now - WindowSeconds)

(* len(requests) >= max_requests *)
Full(d, k) == Len(Window(d, k)) >= limit[d]

(* The dimensions _allow_request checks: those that have a key and a       *)
(* positive maximum; in legacy mode its one deque, whatever the maximum.   *)
Checked(caller) ==
    IF LayeredMode THEN {d \in Layers : KeyOf(caller, d) # NoKey /\ limit[d] > 0}
    ELSE {"legacy"}

(* The dimension that refuses the request, the first one that is full; ""  *)
(* when none does.                                                         *)
RefusedBy(caller) ==
    LET full == {d \in Checked(caller) : Full(d, KeyOf(caller, d))} IN
    IF full = {} THEN ""
    ELSE CHOOSE d \in full : \A e \in full : Position[d] <= Position[e]

(* The check of d was made: none refused before it. *)
Reached(d, stop) == stop = "" \/ Position[d] <= Position[stop]

(* Mutant: a refused request is charged to the dimension that refuses it.  *)
ChargedToRefuser(d, stop) == Reached(d, stop)

(* requests.append(now) happens in every dimension checked before the one  *)
(* that refuses.                                                           *)
Charged(d, stop) == stop = "" \/ Position[d] < Position[stop]

(* _check_limit leaves the deque it looks at evicted, and charged unless   *)
(* it refuses.                                                             *)
AfterCheck(d, k, stop) ==
    IF Charged(d, stop) THEN Append(Window(d, k), now) ELSE Window(d, k)

(* __call__ for one GraphQL request: let through, or answered 429 by the   *)
(* first dimension whose window is full.                                   *)
Request(caller) ==
    LET stop == RefusedBy(caller) IN
    /\ Len(history) < MaxRequests
    /\ log' = [d \in Dimensions |->
                  IF d \in Checked(caller) /\ Reached(d, stop)
                  THEN [log[d] EXCEPT ![KeyOf(caller, d)] =
                           AfterCheck(d, KeyOf(caller, d), stop)]
                  ELSE log[d]]
    /\ history' = Append(history, [at |-> now, by |-> caller, refusedBy |-> stop])
    /\ UNCHANGED <<limit, now>>

(* The clock advances. *)
Tick ==
    /\ now < MaxTime
    /\ now' = now + 1
    /\ UNCHANGED <<limit, log, history>>

RateNext == Tick \/ \E caller \in Callers : Request(caller)

RateSpec == RateInit /\ [][RateNext]_rateVars
-----------------------------------------------------------------------------
(* The requests before number i that a window ending at time t covers.     *)
InWindow(i, t) ==
    {j \in 1 .. (i - 1) : history[j].at > t - WindowSeconds /\ history[j].at <= t}

(* Those with key k in dimension d. *)
OfKey(S, d, k) == {j \in S : KeyOf(history[j].by, d) = k}

Admitted(S) == {j \in S : history[j].refusedBy = ""}

(* Request j passed the check of d when it was let through or refused by a *)
(* later dimension.                                                        *)
Passed(S, d) ==
    {j \in S : \/ history[j].refusedBy = ""
              \/ Position[history[j].refusedBy] > Position[d]}

(* The dimensions that have a limit in the mode the service runs in. *)
LimitedDimensions ==
    IF LayeredMode THEN {d \in Layers : limit[d] > 0} ELSE {"legacy"}

(* A maximum below zero, which int accepts, lets as much through as zero.  *)
Allowed(d) == IF limit[d] > 0 THEN limit[d] ELSE 0

(* The variables hold values of their types; no deque outgrows its limit.  *)
RateTypeOK ==
    /\ limit \in Settings
    /\ now \in 0 .. MaxTime
    /\ \A d \in Dimensions : \A k \in Keys :
          /\ log[d][k] \in Seq(0 .. now)
          /\ Len(log[d][k]) <= Allowed(d)
    /\ history \in Seq([at : 0 .. now, by : Callers, refusedBy : Dimensions \cup {""}])

(* The deques implement a sliding window: whatever the order and timing of *)
(* requests, no window of WindowSeconds contains more admitted requests of *)
(* one key than the dimension allows.                                      *)
WindowNeverExceeded ==
    \A d \in LimitedDimensions : \A k \in Keys : \A t \in 0 .. now :
        Cardinality(OfKey(Admitted(InWindow(Len(history) + 1, t)), d, k)) <= Allowed(d)

(* Nobody is refused for less: a request refused by a dimension found the  *)
(* full number of requests that had passed that dimension's check in the   *)
(* window, and its own refusal did not count.                              *)
RefusedOnlyWhenSpent ==
    \A i \in DOMAIN history :
        LET r == history[i]
            d == r.refusedBy IN
        d # "" => Cardinality(OfKey(Passed(InWindow(i, r.at), d), d, KeyOf(r.by, d)))
                      = Allowed(d)

(* rate_limit_middleware.py, _check_limit: the deques hold what a sliding  *)
(* window holds, never more than the limit of their dimension, and admit   *)
(* no more than it allows.                                                 *)
SlidingWindow == RateTypeOK /\ WindowNeverExceeded
=============================================================================
