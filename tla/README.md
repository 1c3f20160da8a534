# TLA+ verification of the secure database access gateway

This directory holds the specifications of the gateway's core, the TLC runs
that check them on small instances, and the TLAPS proofs. Paths below are
relative to the repository (`src/` in `PROJECT.json`). `PROJECT.json` maps every
definition to the lines it models.

## 1. The system

Browser (`web-app`) → nginx → `auth0_api` (login, sessions, csrf, text-to-SQL,
GraphQL proxy) → `sql_query_api` (authentication, rate limits, policy, quotas,
audit, execution) → one PostgreSQL database per tenant. OPA decides policy,
Redis keeps sessions and incident flags, Auth0 issues tokens.

| Component | State it keeps | Operations | What is hard |
|---|---|---|---|
| Governed query gateway (`services/query_gateway.py`), called by `routes/sql_query_controller.py` | per tenant: semaphore, `current_queued`, gauge | `execute`: admit, wait ≤ 30 s for a permit, evaluate policy, audit, execute, mask, release | timer and cancellation racing a granted permit; eight ways out that must all give back permit and place |
| Audit log (`config/app_logger.py`) | hash chain per context, sink, S3 buffer, flush thread | `log_audit_event`, sink `write/flush/close`, `set_audit_sink` | writers, flush thread and reconfiguration on one buffer; back ends that raise; exit |
| Rate limiter (`middlewares/rate_limit_middleware.py`) | a deque of timestamps per dimension and key | one check per request | boundaries of the window; charging order of several dimensions |
| Policy engines (`services/policy_engine.py`, `services/opa_policy_engine.py`, `opa/policies/gateway.rego`) | policy documents | `evaluate`, `effective_access` | two implementations in two languages; merging of documents; OPA not answering |
| Sessions (`auth0_api/app/auth`, `routes/auth_routes.py`, `security/csrf.py`) | session store; two cookies in the browser | login, callback, logout, session reads | handlers suspended between store calls; responses that overwrite each other's cookie; expiry; failures |
| Text-to-SQL (`services/text_to_sql_service.py`) | none beyond a request | generate, execute, correct, retry | bounded retry that depends on error text |
| Startup and readiness (`app_factory.py`, `routes/health_routes.py`, `shared_secrets`) | configuration | select evaluator and tenants, `/readyz` | combinations of settings |
| Tenant resolution, containers, credential rotation | containers cached per tenant; password in three places | `resolve`, `rotate_tenant` | stale engine after rotation; crash between two steps |
| Statement execution (`repositories/sql_query_repository.py`) | connection pool | cost guard, execute with two timeouts | timeout races, connection hygiene |
| SQL safety checker | none | a pipeline of checks on syntax trees | the BFF's pre-check and the API's checks must fit together |
| Result presentation (`services/result_presentation_service.py`) | none beyond a request | `decide`: ask a model how to show the rows, accept its plan or not | nested retries under one deadline; a plan that does not fit the rows |
| Web application (`web-app/src/components`, `services`) | editors, results, error, status; sign-in flag and profile in localStorage | run, generate, clear, switch mode, log in and out | answers applied out of order; handlers of an old render; a 401 among other answers |
| Others: JWT/RBAC, correlation/logging/body size, incident response, metrics, encryption, CLI, scripts, nginx | see `PROJECT.json` | | |

Interaction: a GraphQL request passes body size → correlation → RBAC (principal)
→ rate limit → controller → gateway → policy evaluator → audit → repository; the
gateway awaits the semaphore, the evaluator and the repository, and calls the
audit log synchronously. `auth0_api` calls `sql_query_api` with the access token
kept in the server-side session.

Properties that make the parts correct: permits and queue places are conserved
and nobody waits for ever (gateway); nothing runs unaudited; no audit event is
duplicated or lost without a cause; a sliding window is really one; the two
policy evaluators agree on the documents both read alike and nothing runs that no
document grants; a dead session is never used and a live one gets lost for known
causes only; a connection carries one query at a time and results are those of the
statement up to the cap; the correction loop stops and repeats only what
was rejected; credential files, roles and cached engines agree or the reason is
known; the content shown about a result comes from the result; the page tells the
truth about what runs.

## 2. Modules

| Module | Models | Composition |
|---|---|---|
| `QueryGateway` | `GovernedQueryGateway.execute` and `Query._execute_governed`; asyncio's semaphore and `wait_for` (external) | instantiates `TenantQuota` |
| `TenantQuota` | abstract specification: what quotas promise, without semaphore, queue or timer | refined by `QueryGateway` |
| `AuditLog` | `log_audit_event` and the sinks | |
| `RateLimiter` | `RateLimitMiddleware` | |
| `PolicyEngine` | both evaluators, the Rego rules, and the gateway's use of a decision | |
| `SessionFlow` | login, callback, logout, session use, cookies and store | |
| `SqlSafety` | `clean_sql`, the safety rules and the AST checks, as operators | extended by the next two |
| `StatementExecution` | `sql_query_repository.py` on a pool of connections | extends `SqlSafety` |
| `TextToSql` | one request of the text-to-SQL route | extends `SqlSafety` |
| `TenantConfig` | the tenant document as its three readers understand it, as operators | extended by the next |
| `TenantCredentials` | rotation sidecar, query API and operator around the databases | extends `TenantConfig` |
| `ResultPresentation` | `execute_sql_statement_with_presentation` and `decide` | |
| `Workspace` | the dashboard, its editors, the API client and the pages around it | |
| `QueryGatewayProofs`, `AuditLogProofs`, `SessionFlowProofs`, `StatementExecutionProofs`, `TextToSqlProofs`, `TenantCredentialsProofs` | inductive invariants, lemmas and theorems (section 4) | each extends the module it is named after |
| `RequestChecksProofs` | the same for the two checks that let a request in | extends `PolicyEngine` and `RateLimiter` |
| `DisplayProofs` | the same for what a user is shown | extends `Workspace` and `ResultPresentation` |
| `MC*` | constants, callers, documents, statements and symmetry of the TLC instances | |

**QueryGateway.** A request slot is a coroutine; the code between two awaits is
one action. `stage` is the await it is suspended in (`pending`, `granted`,
`cancelled` are the states of the semaphore waiter's future). `semValue` and
`semWaiters` are `Semaphore._value` and `_waiters` of CPython 3.12, `trail` the
audit events of the request, `outcome` its reply. `WaitTimeout` and `Cancel*`
throw into a waiting or running task at any moment; `AbandonWait` is the clean-up
of a waiter that is interrupted, including the hand-over of a permit it had
already been granted. Every action ends with what the code does in its `except`
and `finally` clauses.

**AuditLog.** `Emit` reads the sink and the chain of its context; `WriteNext`
writes to the next sink of the composite; `FlushLoop` is the daemon thread;
`SetAuditSink` and `CloseNext` replace a sink; `Exit` ends the process without
closing it, as the lifespan hook does. `_buffer_lock` covers an append or a flush
with its `put_object`, so each is one action, which may raise. The application
itself never calls `configure_audit_sink`, so a deployment writes to stdout
unless it does; the other sinks are checked as the module's interface offers
them. Timestamps are left out.

**RateLimiter.** A request is one action (nothing suspends inside). `limit` is
chosen at start from `Settings`, so one run covers layered and legacy mode. Only
authenticated requests arrive: RBAC runs first. `int()` accepts negative maxima,
which `Allowed` counts as none. `RefusedBy` is the first full dimension in the
order of the checks (`Position`); the dimensions before it are charged and evicted,
it is evicted, those after it are not looked at. `history` records who was
admitted or refused, when, and by which dimension; the properties compare the
deques' verdicts with it.

**PolicyEngine.** `Evaluate` and `EffectiveAccess` exist twice, from the Python
and from the Rego text; `Publish` adds a document. A document is the JSON object as
it is written: a field may be `Absent`, `Null`, empty or in upper case, and some have
a second name. `FromDict` is how Python normalises it (`or`, `lower`, defaults);
`FieldMatches`, `RolesMatch` and the `Rego*` operators read it as `gateway.rego` does, and the two give
many documents different meanings (section 5). `sod_constraints` and the column `"*"`
are left out; statements, principals and roles come normalised from elsewhere.

**SessionFlow.** A login attempt stands for its state, verifier, nonce, code,
session and tokens, all fresh random values. `sess[r]` is `request.session` of a
request in flight, `jar` and `csrf` the browser's cookies; `Deliver` applies a
response's `Set-Cookie`. Starlette's middleware (external, locked at 1.7) writes
the session cookie only when the handler modified it. Every Redis call is a step
of its own and may raise before or after taking effect; the 500 is then produced
outside the session middleware and sets no cookie. The same answer ends a callback
whose profile has no email or name: `UserResponse` raises after the session was
created (a disjunct of `Create`). `sent` remembers which session a request was sent with, so
that a property can say which response took a session away. `Environments` says whether
requests overlap and whether things fail. Cookies written by releases before the
server-side store (`user` in the cookie) and undecodable JSON in Redis are left
out.

**StatementExecution.** A call is a coroutine of one of the five operations; the
code between two awaits is one action. `Slots` are the connections of the pool.
The session settings are taken back by the rollback when a connection is closed,
which is why they are sent again for every call. A task cancelled inside
`conn.execute` (by `wait_for`, by its client) has its connection invalidated while
the server may go on with the query: an orphan, which only `statement_timeout`
ends. A statement is what the checks can tell apart of its text (`SqlSafety`),
with its limits and cost features. `_ensure_limit` adds a `LIMIT` to it or rewrites
the one it finds, in a subquery if that is the only one; `selected` keeps, as history,
what the statement as typed would have selected. The pre-ping, the `SET`s, the
introspection queries and the rollback are awaited outside `wait_for` with no client
timeout: `AwaitsServer` names these waits and a server may leave them unanswered.

**TextToSql.** Four nested loops (correction, pre-check, provider retry and, inside
each try, the resends of the OpenAI client, which `ai_service.py` leaves at their
default of two, `DEFAULT_MAX_RETRIES`, external) with their counters; `sent` records every statement sent for execution and its answer,
`inflight` those the query API still works on after the BFF's HTTP timeout.
`exposed` says whether the query API lets the database's message through, on
which the whole correction rests.

**TenantCredentials.** Three processes that share only files and roles. `rot` is
the position of the sidecar in `rotate_tenant`; because its caller tests the
result, `errexit` is off inside and a failing `psql`, `cat`, `chgrp`, `chmod` or `mv`
is passed over (after a failed `chgrp` or `chmod` the API cannot read the file). A
credential file is named by tenant and role joined with `_` (`FileName`), so the names of
two tenants may coincide, and an engine connects as the user, to the host and database
that stand in the file.
The API parses the document once, caches one service per (org, database) for ever
and reads a credential file when it builds one. `Plans` are whole deployments; the
operator moves between the documents of one. The shell splits the ids `jq` prints
at blanks, so the sidecar never finds an entry whose id has blanks around it, while
the resolver takes it. Each file remembers (`suspect`) the
faults its last rotation met, so that properties can say why a file is wrong.

**ResultPresentation.** Rows, cells and replies are records of what validation can
tell apart. A clock with the request timeout, the backoff and the overall deadline
drives the retries; every reply may be transient, failed, malformed or a plan. A plan
has its content, whose integers a guard compares with the sample, and a `reason` and
labels, whose wording no guard looks at; `ReasonShown` says when `ResultRenderer.tsx`
puts the reason on a badge.

**Workspace.** One action per handler, timer, answer and navigation. `calls` are
the executions of the page with their phase and, as history, how each was
started, whether it overlapped another and whether it was cleared. `runQuery` is
what Cmd+Enter runs: `handleMount` registers the action once, with the handler of
the editor's first render, and the Monaco component (external) never registers it
again, so the text of the mount stays. Once a 401 has set the location, only
answers that still arrive are considered.

## 3. Runs

| Run | Instance | Shows |
|---|---|---|
| `gateway_safety` | 4 slots, 1 tenant, 2 permits, 3 places, symmetry; 31 497 states | `PermitsConserved`, `QueueCountExact`, `NoLostWakeup`, `GrantsInOrder`, `AuditedBeforeExecution`, and `ImplementsTenantQuota` |
| `gateway_liveness` | 3 slots, 2 permits, 3 places, fair | `EveryRequestLeaves` |
| `audit_log` | 2 contexts, 3 events, batch of 2, CloudWatch and S3 replaced by stdout, fair; 402 330 states | `EventsAccounted` (`EachEventOnce`, `LossHasCause`), `PredecessorBeforeEvent`, `BufferIsFlushed` |
| `rate_limit_windows` | 5 requests, 3 callers, clock 0..4, window 2, five settings (layered, legacy, all off, negative maxima in each mode); 317 455 states | `SlidingWindow` (`WindowNeverExceeded`), `RefusedOnlyWhenSpent` |
| `policy_decisions` | any 2 of 69 documents, 29 of them with null, empty, misspelled or renamed fields; 3 principals, 2 databases, 2 tables, 2 columns; 4 831 states | `EvaluatorsAgree`, `RunsOnlyIfGranted`, `SchemaMirrorsQueries` (`TablesMirrored`, `ColumnsMirroredAlone`), `PublishNeverWeakens` |
| `session_safety` | 2 logins, 1 logout, 1 call, lifetime 1, clock 0..1, symmetry; 2.9 M states | `LoginStateSound` (`UsedSessionWasValid`, `VerifierAndNonceTogether`), `OrphansHaveACause`, `CsrfMirrorsSession`, `LogoutRevokesTokenFirst` |
| `statement_execution` | 2 calls of any operation, 1 connection, 2 dialects, fair; 403 391 states | `ConnectionsAccounted` (`SlotsAccounted`, `OneQueryPerConnection`), `SessionSetUp`, `ReportsTrue` (`OutcomeHonest`, `RefusalForeseeable`), `DeliveredUpToTheCap`, `HangsOnlyUntimed` (`CallsEndOrAwaitServer`, `OrphansEnd`) |
| `text_to_sql` | 1 request, 10 statements, 2 provider tries with 2 resends each, fair; 36 618 states | `LoopsBounded` (`EffortBounded`), `SendJustified` (`ResentOnlyAfterRejection`, `NoCorrectionWithoutDetail`, `PrecheckedIsCleanable`), `QuotesLastStatement` (`FeedbackFresh`, `AnswerAboutLastStatement`), `RequestAnswered` |
| `tenant_credentials` | 13 deployments, 1 fault, 1 edit, fair; 259 206 states | `FilesFollowRoles` (`MismatchExplained`), `ServicesBound` (`BoundUnlessFileShared`, `RefusalExplained`), `ReadersAgree` (`FailsClosed`, `ReadinessTracksDocument`, `ValidatedServes`), `RotationRepairs` |
| `result_presentation` | 7 results, about 100 replies, 5 configurations, fair; 19 586 states | `PlanSound` (`GroundedInResult`, `PlanFitsResult`, `UnguardedWordingIsOfAPlan`, `TruncationDeclared`, `MissingPlanExplained`), `RetriesBounded` (`WithinBudget`, `AskedAgainOnlyIfTransient`), `RowsDelivered` |
| `workspace` | 2 statements, 2 executions per page, fair; 289 726 states | `BusyTruthful` (`FeedbackTruthful`), `MixUpsHaveCause` (`StaleOnlyByOverlap`, `ButtonAloneSerial`, `ButtonRunsWhatIsShown`), `VerdictShown`, `PageSettles` (`FeedbackEnds`, `UnauthorizedLeaves`) |
| `tenant_binding_doc` | violation | a tenant's service may be connected to another of its databases |

Where parentheses follow a property, it is the conjunction of the ones in them and
of the module's type invariant where its definition says so. `TypeOK` and
`ConcurrencyBounded` of the gateway are in no run: section 4 proves them.

Why the bounds are enough to see the hard cases:

- Gateway: four requests fill two permits and one waiting place and leave one to
  be refused; with two waiters, a release, a timeout of a granted waiter and a
  new arrival can meet. The proofs remove the bound, and cover several tenants.
- Audit: with a batch of two, three events give a full batch, a partial buffer
  and a flush between two writes; two contexts give concurrent writers and forked
  chains; two configurations give one replacement.
- Rate limits: a window of two in a clock of five has requests inside, on and
  outside its edge; three callers share an address, a user and a tenant in pairs.
- Policy: decisions merge documents pairwise (deny over allow, whitelists, masks,
  row scopes), so two documents in either order meet every rule; the odd documents
  have each field in each reading the two languages tell apart.
- Sessions: two attempts are needed for rotation and overwritten verifiers, one
  logout and one call race with both. A lifetime of one tick expires a session at
  any step.
- Statements: two calls on one connection contend for the pool, meet each other's
  orphans and inherit each other's sessions; rows, limits and sizes are on, below
  and above each bound, with `DefaultLimit` below `MaxRowLimit` below `MaxSelected`, the
  largest result before any cut.
- Text-to-SQL: the code's own bounds (3 attempts, 2 prompts), two provider tries,
  the client's own two resends.
- Tenants: thirteen deployments cover each credential mode, shared roles and files
  (rotated or not, of one tenant or of two), padded ids and broken entries; one fault at any step of the sidecar and one edit.
- Presentation: results of no, one and several rows around the sample size; zero,
  one and more retries, sample rows and payload.
- Workspace: two executions, from either mode and by button or shortcut, overlap
  in every order; two statements tell the shown from the captured text.

Each property has a mutant in `PROJECT.json`: a plausible mistake in a mapped
definition that makes TLC report exactly that property.

Deadlock checking is off where the bounded system may stop (all slots, events,
requests or attempts used up); it is on for the gateway, whose slots are reused.

### Fairness

- `QueryGateway!Fairness`: weak fairness of `Resume(r)` (the event loop runs every
  ready task) and of `Answer(r)` (evaluator and repository answer; both have
  timeouts). None for the 30 s timer, for cancellation or for clients, so progress
  does not rest on them.
- `AuditLog!FairSpec`: weak fairness of the flush thread, which wakes up every
  `AUDIT_S3_FLUSH_SECONDS`. A flush that raises ends the thread; the property
  excepts that case, as the code does.
- `StatementExecution!FairSpec`: the timers (pool, `wait_for`, `statement_timeout`)
  fire and ready tasks run; the server need not answer anything, neither a query nor a
  `SET`, a pre-ping or a rollback. So the property is that calls end or wait for one of
  the answers no timer covers.
- `TextToSql!FairSpec`: the HTTP and model clients answer or time out.
- `TenantCredentials!FairSpec`: the sidecar keeps running; faults and edits are
  bounded, so it eventually runs undisturbed.
- `ResultPresentation!FairPresentationSpec`: assumed is that the execution ends (a silent
  server can prevent it, `HangsOnlyUntimed`) and that the clock advances; the model's service need not answer.
- `Workspace!FairSpec`: timers fire, the browser navigates, every request is
  answered or breaks. The client sets no timeout; nginx does, and answers 504 after
  `proxy_read_timeout` (`nginx.conf:231-233`). Nothing is assumed of the user.

## 4. Proofs

TLC looks at small instances; the theorems below hold for every value of the
constants. A theorem about a run's property names the same definition the run
checks. Each is proved from an inductive invariant that TLC checked first.

| Module | Theorem | States |
|---|---|---|
| `QueryGatewayProofs` | `TypeCorrect` | `TypeOK` |
| | `PermitsNeverLeak`, `ConcurrencyIsBounded` | `PermitsConserved`, `ConcurrencyBounded` |
| | `QueueCountIsExact` | `QueueCountExact` |
| | `WakeupsAreNotLost`, `PermitsInOrder` | `NoLostWakeup`, `GrantsInOrder` |
| | `NothingRunsUnaudited` | `AuditedBeforeExecution` |
| | `GatewayImplementsQuota` | `ImplementsTenantQuota` (refinement) |
| `AuditLogProofs` | `NothingVanishes`, `ChainReadsForward` | `EventsAccounted`, `PredecessorBeforeEvent` |
| `RequestChecksProofs` | `FailsClosed`, `MigrationIsFaithful`, `SchemaIsHonest` | `RunsOnlyIfGranted`, `EvaluatorsAgree`, `SchemaMirrorsQueries` |
| | `PoliciesOnlyTighten` | `PublishNeverWeakens` (action property) |
| | `WindowsSlide`, `NobodyRefusedForLess` | `SlidingWindow`, `RefusedOnlyWhenSpent` |
| `SessionFlowProofs` | `SessionsAreSound`, `CsrfCookieMirrors` | `LoginStateSound`, `CsrfMirrorsSession` |
| | `TokenIsRevokedFirst`, `OrphansAreAccountedFor` | `LogoutRevokesTokenFirst`, `OrphansHaveACause` (action properties) |
| `StatementExecutionProofs` | `ConnectionsSafe`, `SessionsSetUp`, `ReportsAreTrue`, `RowsDeliveredUpToTheCap` | `ConnectionsAccounted`, `SessionSetUp`, `ReportsTrue`, `DeliveredUpToTheCap` |
| `TextToSqlProofs` | `RequestsAreBounded`, `SendsAreJustified`, `QuotationsAreFresh` | `LoopsBounded`, `SendJustified`, `QuotesLastStatement` |
| `TenantCredentialsProofs` | `FilesAreExplained`, `ServicesStayBound`, `ReadersStayInStep` | `FilesFollowRoles`, `ServicesBound`, `ReadersAgree` |
| `DisplayProofs` | `SpinnersAreTruthful`, `MixUpsAreExplained`, `VerdictIsShown` | `BusyTruthful`, `MixUpsHaveCause`, `VerdictShown` |
| | `PlansAreSound`, `BudgetIsKept` | `PlanSound`, `RetriesBounded` |

### The arguments

**Gateway.** Each step either leaves a request's set membership (holders, in
flight, pending, granted) alone or moves exactly one request, and one more when a
permit is handed on. Lemmas on cardinalities of such moves, and one per helper
the actions share (`LeaveWaiters`, `ReleaseAndReply`, `Dequeue`), turn every action
into an equation on `semValue` and `current_queued`. `PermitsConserved` is inductive
with `TypeOK`; `ConcurrencyBounded` is not, and follows from it, because the running
requests are among the holders. `NoLostWakeup` is inductive: every action that frees
a permit wakes the first pending waiter in the same step. The order of grants needs
`QueuesSound`: the queue of a tenant holds waiting requests of that tenant only, and
each of them once; then a removal in the middle keeps the order of the others.
`AuditedBeforeExecution` needs `TrailsAgree`, which ties the audit trail to the
await the request is suspended in. The refinement uses `PermitsConserved` (a start
finds the tenant below its limit) and `QueueCountExact`.

**Audit log.** `SinksSound` says for one sink at a time that what it holds is
injective and made of the events it took (`Once`), and that predecessors stand before
their successors (`Linked`). Two facts about writers carry it: an event is offered to
each sink once, in order (`Progress`), and an event is being written by the context
that emitted it (`WritersOwn`), so the predecessor's write is over before the
successor is emitted. The lemma `SinkStep` reduces every step to three effects on
one sink: it keeps what it has, takes one event it never had, or loses its buffer.

**Policy.** The state only has to be well formed; the theorems are about operators.
`PortableReadsAlike` compares the two readings of a portable document field by field;
`BareGrantOnlyLoses` shows that of a grant, however written, Rego reads at most what
Python reads, and `GrantsCompared` lifts that to sets of documents. Neither extends to
other documents: a deny that Rego passes over makes it the laxer of the two.
The Python evaluator overwrites entries of a dictionary where Rego collects a set:
`OverwritingIsCollecting` shows the two equal when no column is scoped twice, by
looking at the last document that scopes the column. Monotonicity of the merging operators in
the set of documents gives `PoliciesOnlyTighten`.

**Sessions.** `UseInv` (`Typed`, `HeldSessionsKnown`, `CreatedOnce`, `ReadSound` and the
two parts of the property) says that a session id anywhere was created once by its
own callback, and that a request past the check read a session that was valid then.
A lemma `Frame` says a step is of one request or leaves it alone. The csrf
theorem adds `OneInFlight`, `WorksOnBrowserSession` (the
request in flight has the browser's cookie) and `DeliveredMirrors` (the two
cookies fit each other once the response has arrived). For the orphans, `SentKept` says
that a request lets go of the session it was sent with only by deleting it, and
`SentIsBrowsers` that with one request at a time this session is the browser's; then a
step that puts a live session out of reach is one of the causes named (`OrphanStep`).

**Statements.** Every step is a move of one call (`EveryStepMoves`), which changes that
call, its connection and its query. `Sound` is: `Held` (calls and connections out of
the pool are paired), `QueriesApart` (an orphan is on no connection a call
holds), `Sessions` (a connection carries the settings its call has sent so far) and
`CallsHonest` (a result fits the statement and what was sent). Without `Sessions` the
property says nothing until the query is sent, so a step that skips a setting could
not be excluded. What a result lacks rests on what `_ensure_limit` makes of a statement
(`EnsureLimitFacts`): the bound of the whole is the default or the clamped one
(`OuterFound`), or it was missed because a subquery got it (`OuterMissed`).

**Text-to-SQL.** `EffortCounted` bounds the requests to the model by the four loop
counters: the prompts before this one times what a prompt may cost (`PerPrompt`), the
tries before this one times the resends of a try, and the resends so far; `SendsCounted` and `SentIsCurrent` tie the sends to the attempt,
`QuotesFresh` the feedback to the last send. `PrecheckedCleans` is about operators of
two services: what the BFF's pre-check accepts, `clean_sql` of the query API accepts.
The two services hold two copies of one unwrapping procedure, which the model writes
once, so this part shows that the checks around it fit, not that the copies are equal.

**Tenants.** `Midway` says what the sidecar's position implies for role, temporary
file and fault note, `FilesWritten` and `FilesFollow` what a file holds and why it may
be out of step, `ApiSound` that bindings are those of a document of the plan, and
`EnginesSound` that an engine built from a file has the user of the file with a password
of it, the database of a job that writes the file, and an entry that reads it. Nothing is
assumed of how names are joined: if job and entry differ, the file is `Shared`.

**Workspace.** `Core` concerns results, error, status and executions; steps are
classified by what they do to these (`StepMoves`). The invariant relates the
shown execution to the latest one and to what overlapped it; the properties follow.

**Rate limits.** The properties count requests of the history, the code compares the
length of a deque. `Records` ties the two: an increasing function takes the entries
of a deque to requests of its key that passed the check of its dimension, and reaches
every one of them still in the window. Eviction drops a prefix of an ascending deque
(`EvictionShifts`), so it keeps `Records`; after eviction the function is a bijection,
and the length is the number of requests in the window (`WindowCounts`). `Records`
with the bound on the lengths is inductive (`RateInv`): a request is appended exactly
where it passed, that is before the dimension that refuses, and that dimension is the
first full one. A window that ends now is therefore within the limit. For windows of
the past, `PastNeverExceeded` is carried along: a request made now is in no window
that has ended, and when the clock advances, the window ending now becomes one of
them. `SpentWhenRefused` is established when a request is refused, from `WindowCounts`,
and no later request changes what came before it.

**Presentation.** `SampleOfRows` says that the sample sent is a prefix of the rows with
long cells cut, whatever the payload limit lets through (how sizes add up is not
needed), and that the prompt declares a shorter one. Cutting a cell adds no number and
no column (`SampleSaysLess`), so a plan that validates against the sample fits all
rows (`DecisionFits`). `RepliesCounted` has one transient reply per attempt made, which
bounds the requests. The reason and the labels come from a reply that validated or are
the service's own fallback, whose reason the page does not show; `Progress` says a request is pending only when planning is on and
there are rows, which gives the reasons for a missing plan.

### Assumptions

The constants' assumptions are `ASSUME`s that TLC evaluates on the runs. Beyond
types and positive limits they say: a finite set of requests (gateway); the sinks of a
configuration are not empty and distinct (`AuditAssumption`, `app_logger.py:340`);
documents name one predicate per column, as keys of a JSON object, and principals are
records (`PolicyAssumption`); logins, logouts and calls are distinct
(`SessionAssumption`); ids and entries are records and the keys of a file's JSON
object are distinct (`CredentialsAssumption`); statements are records of `Statement`
(`ExecutionAssumption`); results are sequences and settings integers, and the powers
`BackoffBase ^ n` a configuration can wait for are natural numbers, a fact of
arithmetic the provers have no rule for (`PresentationAssumption`); the maxima are
integers of any sign, callers have a user, an organisation and an address
(`RateAssumption`). None restricts how many actors, faults or steps there are.

### What the proof attempts corrected

Where a proof failed for a good reason, TLC confirmed the counterexample on an
instance that was then added to the run:

- `BoundUnlessFileShared` overlooked an entry that is not rotated and reads the file
  another entry of the tenant writes.
- `FailsClosed` of `TenantCredentials` counted an id with blanks around it as a
  duplicate of the one without; the resolver ignores the first.
- `ValidatedServes` held for the documents of the run only: the validator accepts
  empty tenant ids.
- The sidecar loses the blanks around an id; the model passed them on.
- The bounds of the rate limiter failed for negative maxima.

### Only model-checked

- Liveness (`EveryRequestLeaves`, `BufferIsFlushed`, `HangsOnlyUntimed`,
  `RequestAnswered`, `RotationRepairs`, `RowsDelivered`, `PageSettles`): arguments
  under fairness and `ENABLED` are out of the prover's reach.

Every other property of a passing run is a theorem.

## 5. What the code does otherwise than it says

`tenant_binding_doc`, with the quoted line, is in `PROJECT.json` under `findings`:
credential files are named by tenant and role, and their user, host and database
override those of the entry, so two databases of one tenant under the same role
name share one file, even if only one of them is rotated. The name is
`${tenant_id}_${role_name}.json` (`rotate_creds.sh:68`, `rotated_creds.py:35`), so two
tenants may share one as well (`a` with `b_ro`, `a_b` with `ro`); the `tenant_id` in
the file is not compared. `BoundUnlessFileShared` shows that sharing a file is the only
way to a wrong binding.
Further differences seen while modelling; where a property is named, it states
what does hold:

- Cmd+Enter ("⌘+Enter to run", `SqlEditor.tsx:60`) runs the text the editor was
  mounted with, not the text in it, and is not disabled while a statement runs
  (`ButtonRunsWhatIsShown`, `ButtonAloneSerial`).
- A blank Cmd+Enter or a failed generation leaves its error in front of the rows
  of a statement that succeeded (`VerdictShown`).
- `active_tenant_connections` ("Number of active connections per tenant database",
  `metrics.py:70`) is not reset when a wait is abandoned and can stay at 1 for an
  idle tenant.
- `log_audit_event` reads the clock once for the hash and once for the event, so
  the hash of a stored event ("SHA256 of `prev_hash + payload`", `SECURITY.md:182`)
  cannot be recomputed from it.
- With every rate limit at 0 ("No limit for this dimension",
  `rate_limit_middleware.py:212`) the legacy path refuses every request
  (`RefusedOnlyWhenSpent`, checked with that setting).
- `effective_access` "Mirrors the query-path decision ... exactly"
  (`policy_engine.py:226`) for tables, and for columns while all grants name one
  table (`TablesMirrored`, `ColumnsMirroredAlone`). A document with a third effect
  ("permit") is shown in the schema and cannot be queried.
- The two policy evaluators read many documents differently (`policy_engine.py:333-339`
  against `gateway.rego:164-241`). `roles: []` and `roles: null` match everyone in
  Python and nobody in Rego; a null or empty `org_id` or `principal_id`, a null
  `database_id` and a null `table` match anything in Python and nothing in Rego. Python lower-cases the table and the columns of a document and
  supplies a missing effect; Rego compares them as written. `organisation_id`, `user_id`
  and `actions` are known to Python only: an allow restricted to one organisation that
  way holds for all of them in Rego. A deny written in one of the other ways has no
  effect there. `EvaluatorsAgree` has the documents on which nothing changes.
- A later document may replace the attribute of an earlier row predicate on the same
  column (`policy_engine.py:384`); the predicate's column stays (`PublishNeverWeakens`).
- "Rotate any previously issued server-side session so a stale cookie cannot keep an
  orphaned session alive after a fresh login" (`auth_routes.py:250`): a callback whose profile has no email
  or name answers 500 after it has created its session (`auth_routes.py:256-267`), which
  then lives on without a cookie; a failing store call or a lost response has the same
  effect, and two tabs that log in at once can leave the first session behind. There is
  no other way (`OrphansHaveACause`).
- `_ensure_limit` (`sql_query_repository.py:613-646`) adds `LIMIT 100` or lowers a larger
  limit, and nothing tells the caller that rows are missing; the row filter comes after
  it, so even the number of rows does not. The first `LIMIT` found is the one clamped: if
  it belongs to a subquery, the rows may be other rows, and the whole statement is
  refused for its size instead of cut (`DeliveredUpToTheCap`).
- The pre-ping, the `SET`s, introspection and the rollback (`sql_query_repository.py:265-288`)
  are awaited outside `wait_for` and the engines set no client timeout: a server that
  falls silent there holds the call and its connection for ever (`HangsOnlyUntimed`).
- `AI_RETRIES` counts tries of the repository's loop; the OpenAI client resends each of
  them twice more by default (`ai_service.py:22-26`), so a prompt may cost three times
  as many requests (`EffortBounded`).
- `SET SESSION CHARACTERISTICS` affects later transactions only; the read-only
  session rests on the role and the checks.
- `rotate_creds.sh`: failures of `psql`, `cat`, `chgrp`, `chmod` and `mv` inside
  `rotate_tenant` are ignored; `.rotation.enabled // true` turns `false` into `true`, so rotation cannot
  be switched off that way; missing members become the text `null`. The shipped
  configuration gives two tenants one role, so the first tenant's file is out of
  step after every pass (`MismatchExplained`).
- `validate_tenant_config.py` does not look at the port.
- `decide` documents `None` for every failure; a plan that does not validate
  becomes a table, and some malformed answers raise, which the controller catches.
  The numbers a summary may use include the sample's row count. The integers in the
  `reason`, which `ResultRenderer.tsx:47-50` shows, and in the labels are checked against
  nothing (`UnguardedWordingIsOfAPlan` has what holds of them).
- `TENANT_QUEUE_LIMIT` is documented as "max queued queries per tenant"
  (`SECURITY.md:137`); `current_queued` also counts the statements that run.
- `CompositeAuditSink` says "atomically (all succeed or all fail)"
  (`app_logger.py:119`); the sinks before the one that raises keep the event.
  `PredecessorBeforeEvent` has the exact guarantee that remains.
- "Chain starts empty; each event links to previous" (`SECURITY.md:183`): the
  chain is kept per context, so every request starts one of its own.
- The database dimension of the rate limiter is never checked
  (`_extract_database_id` returns `None`), and a request refused by one dimension
  has already been charged to the ones before it ("independent budgets",
  `SECURITY.md:146`); `RefusedOnlyWhenSpent` states what does hold.
- `ObjectLockRetainUntilDate` adds days to the year (`app_logger.py:252`).

## 6. Not modelled

Parsing and rewriting of SQL (sqlglot), regular expressions of the safety
checker, cryptography and JWT validation, formatting and redaction of log
records, HTTP header details, rendering in the web application and its schema
query, operational shell scripts and deployment files; incident response, which
nothing in the repository calls. `PROJECT.json` has the reason for each component.

## 7. Plan

Left to model: the choice of policy evaluator at startup, the schema and
similarity resolvers, separation-of-duty constraints of the Rego policy, JWKS
caching in the authentication middleware.

Every safety and action property is proved; what is added to the model later should
come with its inductive invariant, checked by TLC before it is proved.
