------------------------- MODULE StatementExecution -------------------------
(***************************************************************************)
(* repositories/sql_query_repository.py: the cost estimate and its guard,  *)
(* execute_sql_statement, explain_query_cost, introspect_schema and        *)
(* get_table_schema, on connections of one SQLAlchemy pool.                *)
(*                                                                         *)
(* Statements are those of SqlSafety with four more fields:                *)
(*   fetch     n of FETCH FIRST n ROWS, or -1                              *)
(*   limits    the n of every LIMIT n, in the order of the text            *)
(*   outer     what bounds the whole result: "fetch", the last "limit" or  *)
(*             "none"; the other bounds are those of subqueries            *)
(*   features, scans   what estimate_query_cost looks for in the text      *)
(* A row is a function from column keys to values; a key is the sequence   *)
(* of its dotted parts.                                                    *)
(*                                                                         *)
(* SET SESSION runs inside the transaction SQLAlchemy opens implicitly, so *)
(* the rollback of conn.close() takes every setting back (external:        *)
(* PostgreSQL).  A task cancelled inside conn.execute, by wait_for or by   *)
(* its own client, has its connection invalidated, while the server may go *)
(* on with the statement (external: SQLAlchemy, asyncpg).                  *)
(***************************************************************************)
EXTENDS SqlSafety, SequencesExt

CONSTANTS
    Calls,
    Slots,              \* pool_size + max_overflow connections
    Statements,         \* what the callers may ask for
    Rows,               \* the rows a table may hold
    RowFilter,          \* SQL_ROW_FILTER: <<key, value>>
    Sensitive,          \* SQL_SENSITIVE_COLUMNS, keys
    ReadonlyRole,       \* is SQL_READONLY_ROLE set
    DefaultLimit,       \* the 100 of _ensure_limit
    MaxRowLimit,        \* SQL_QUERY_MAX_ROW_LIMIT
    MaxResultBytes,     \* SQL_QUERY_MAX_RESULT_BYTES, in columns
    CostThreshold,      \* SQL_QUERY_COST_THRESHOLD
    CostAction,         \* SQL_QUERY_COST_ACTION
    TableCount,         \* tables of the introspected schema
    MaxSelected         \* bound: the rows a statement selects

Weight ==
    [SELECT |-> 1, JOIN |-> 4, AGGREGATION |-> 3, SORTING |-> 2, STAR |-> 2,
     SETOP |-> 4, CTE |-> 3, COUNT |-> 2]

(* What the checks can tell apart of a statement, and its cost features.   *)
Statement ==
    [head : Seq(STRING), defects : SUBSET STRING, statements : Nat, kind : STRING,
     selects : BOOLEAN, keywords : SUBSET STRING, nodes : SUBSET STRING,
     functions : SUBSET STRING, tables : SUBSET STRING, ctes : SUBSET STRING,
     columns : SUBSET (STRING \X STRING), fetch : Nat \cup {-1}, limits : Seq(Nat),
     outer : {"fetch", "limit", "none"}, features : SUBSET DOMAIN Weight, scans : Nat]

ASSUME ExecutionAssumption ==
    /\ Statements \subseteq Statement /\ "none" \notin Slots
    /\ \A s \in Statements : /\ s.outer = "fetch" => s.fetch >= 0
                             /\ s.outer = "limit" => s.limits # <<>>
    /\ DefaultLimit \in Nat /\ MaxRowLimit \in Nat \ {0} /\ MaxResultBytes \in Nat
    /\ CostThreshold \in Nat /\ CostAction \in {"allow", "warn", "deny"}
    /\ ReadonlyRole \in BOOLEAN /\ TableCount \in Nat /\ MaxSelected \in Nat

Operations == {"estimate", "execute", "explain", "introspect", "schema"}
Settings   == {"characteristics", "role", "statement_timeout", "lock_timeout", "search_path"}

VARIABLES
    dialect,    \* conn.dialect.name
    call,       \* each call: its progress and what became of it
    slot,       \* each connection of the pool: its state and session settings
    server      \* the query the database runs for each call, also after it has gone

vars == <<dialect, call, slot, server>>

DefaultSession == [p \in Settings |-> "default"]
Nothing == [kind |-> "none", rows |-> <<>>, score |-> 0]
Outcome(k) == [Nothing EXCEPT !.kind = k]
Idle == [conn |-> <<>>, bounded |-> FALSE]

Init ==
    /\ dialect \in {"postgresql", "sqlite"}
    /\ call = [c \in Calls |-> [pc |-> "new", op |-> "none", stmt |-> "none",
                                slot |-> "none", step |-> 0, todo |-> 0,
                                sent |-> 0, selected |-> <<>>, result |-> Nothing]]
    /\ slot = [k \in Slots |-> [state |-> "closed", gen |-> 0, session |-> DefaultSession]]
    /\ server = [c \in Calls |-> Idle]

-----------------------------------------------------------------------------
(* Rewriting and scoring the text.                                         *)

(* Mutant: a LIMIT is clamped to the default one. *)
EnsureDefaultLimit(s) ==
    LET most == Min({DefaultLimit, MaxRowLimit}) IN
    IF s.fetch >= 0
    THEN [s EXCEPT !.fetch = -1,
                   !.limits = IF s.outer = "fetch" THEN Append(s.limits, Min({s.fetch, most}))
                              ELSE <<Min({s.fetch, most})>> \o s.limits,
                   !.outer = IF @ = "fetch" THEN "limit" ELSE @]
    ELSE IF s.limits # <<>>
    THEN [s EXCEPT !.limits = [s.limits EXCEPT ![1] = Min({s.limits[1], most})]]
    ELSE [s EXCEPT !.limits = <<most>>, !.outer = "limit"]

(* _ensure_limit: FETCH FIRST becomes a LIMIT, else the first LIMIT is     *)
(* clamped, else a default one is appended.                                *)
EnsureLimit(s) ==
    IF s.fetch >= 0
    THEN LET n == Min({s.fetch, MaxRowLimit}) IN
         IF s.outer = "fetch"
         THEN [s EXCEPT !.fetch = -1, !.limits = Append(s.limits, n), !.outer = "limit"]
         ELSE [s EXCEPT !.fetch = -1, !.limits = <<n>> \o s.limits]
    ELSE IF s.limits # <<>>
    THEN [s EXCEPT !.limits = [s.limits EXCEPT ![1] = Min({s.limits[1], MaxRowLimit})]]
    ELSE [s EXCEPT !.limits = <<Min({DefaultLimit, MaxRowLimit})>>, !.outer = "limit"]

(* It finds a bound, but not the one on the whole result ... *)
MissesOuter(s) ==
    IF s.fetch >= 0 THEN s.outer # "fetch"
    ELSE s.limits # <<>> /\ ~(s.outer = "limit" /\ Len(s.limits) = 1)

(* ... and changes the bound of a subquery. *)
ClampsInner(s) ==
    MissesOuter(s) /\ (IF s.fetch >= 0 THEN s.fetch ELSE s.limits[1]) > MaxRowLimit

(* What a feature of the text adds to the score. *)
Points(s, f) == IF f \in s.features THEN Weight[f] ELSE 0

(* estimate_query_cost *)
Score(s) ==
    1 + Points(s, "SELECT") + Points(s, "JOIN") + Points(s, "AGGREGATION")
      + Points(s, "SORTING") + (IF s.limits # <<>> THEN 1 ELSE 0)
      + Points(s, "STAR") + Points(s, "SETOP") + Points(s, "CTE")
      + Max({1, s.scans}) - 1 + Points(s, "COUNT")

(* evaluate_query_cost *)
CostDecision(s) == IF Score(s) >= CostThreshold THEN CostAction ELSE "allow"

-----------------------------------------------------------------------------
(* What becomes of the rows the server sends.                              *)

(* len(result_dicts) > self._max_row_limit *)
TooManyRows(raw) == Len(raw) > MaxRowLimit

Size(raw) == FoldLeft(LAMBDA n, row : n + Cardinality(DOMAIN row), 0, raw)

(* _parse_row_filter, _apply_row_filter *)
Kept(row) == RowFilter[1] \in DOMAIN row /\ row[RowFilter[1]] = RowFilter[2]

IsSensitive(key) == key \in Sensitive \/ <<Last(key)>> \in Sensitive

(* _apply_sensitive_column_masking *)
Masked(row) == [key \in DOMAIN row |-> IF IsSensitive(key) THEN "[MASKED]" ELSE row[key]]

MaskAll(rows) == [i \in DOMAIN rows |-> Masked(rows[i])]

(* Filtered first, then masked. *)
Deliver(raw) == MaskAll(SelectSeq(raw, Kept))

ExecuteOutcome(raw) ==
    IF TooManyRows(raw) THEN Outcome("too_many_rows")
    ELSE IF Size(raw) > MaxResultBytes THEN Outcome("too large")
    ELSE [Outcome("rows") EXCEPT !.rows = Deliver(raw)]

(* How an exception of the database leaves the operation: explain answers  *)
(* "supported: False", the others raise SqlStatementExecutionError.        *)
Failed(op) == Outcome(IF op = "explain" THEN "unsupported" ELSE "error")

(* The rows the whole statement can have. *)
OuterBound(s) ==
    CASE s.outer = "fetch" -> s.fetch
      [] s.outer = "limit" -> Last(s.limits)
      [] OTHER -> MaxSelected

Selections(s) == BoundedSeq(Rows, Min({OuterBound(s), MaxSelected}))

(* What the database sends for a statement that selects these rows as it   *)
(* was asked: the first of them, up to the bound it now has.  With another *)
(* bound in a subquery it is another statement.                            *)
Answers(s, selected) ==
    LET limited == EnsureLimit(s) IN
    IF ClampsInner(s) THEN Selections(limited)
    ELSE {SubSeq(selected, 1, Min({Len(selected), OuterBound(limited)}))}

-----------------------------------------------------------------------------
(* get_conn.                                                               *)

(* schema_name of each operation. *)
SearchPath(op) ==
    CASE op \in {"execute", "explain"} -> "data"
      [] op = "schema" -> "meta"
      [] OTHER -> "default"

(* Mutant: the statement timeout is left to the client. *)
SetupWithoutTimeout(op) ==
    IF dialect # "postgresql" THEN <<>>
    ELSE <<<<"characteristics", "read only">>>>
         \o (IF ReadonlyRole THEN <<<<"role", "readonly">>>> ELSE <<>>)
         \o <<<<"lock_timeout", "set">>>>
         \o (IF SearchPath(op) # "default" THEN <<<<"search_path", SearchPath(op)>>>>
             ELSE <<>>)

(* The SET statements get_conn executes before it yields, in order. *)
Setup(op) ==
    IF dialect # "postgresql" THEN <<>>
    ELSE <<<<"characteristics", "read only">>>>
         \o (IF ReadonlyRole THEN <<<<"role", "readonly">>>> ELSE <<>>)
         \o <<<<"statement_timeout", "set">>, <<"lock_timeout", "set">>>>
         \o (IF SearchPath(op) # "default" THEN <<<<"search_path", SearchPath(op)>>>>
             ELSE <<>>)

(* The queries sent once the session is set up.  Introspection lists the   *)
(* tables, then asks for columns, primary and foreign keys of each.        *)
Queries(op) ==
    CASE op = "introspect" -> 1 + TableCount * (IF dialect = "sqlite" THEN 2 ELSE 3)
      [] op = "explain" /\ dialect # "postgresql" -> 0
      [] OTHER -> 1

Finish(c, r) ==
    call' = [call EXCEPT ![c] = [call[c] EXCEPT !.pc = "done", !.result = r,
                                    !.slot = "none", !.step = 0, !.todo = 0]]

ToClose(c, r) ==
    call' = [call EXCEPT ![c] = [call[c] EXCEPT !.pc = "closing", !.result = r]]

(* The operation ends before it asks for a connection. *)
EndEarly(c, op, s, r) ==
    call' = [call EXCEPT ![c] = [call[c] EXCEPT !.pc = "done", !.op = op, !.stmt = s,
                                                !.result = r]]

-----------------------------------------------------------------------------
(* The operation up to its first await: the safety check, the limit, the   *)
(* cost guard.                                                             *)
Start(c, op, s) ==
    /\ call[c].pc = "new"
    /\ \/ /\ op = "estimate"
          /\ EndEarly(c, op, s, [Outcome("score") EXCEPT !.score = Score(s)])
       \/ /\ op \in {"execute", "explain"} /\ ~IsSafeSelectQuery(s)
          /\ EndEarly(c, op, s, Outcome("forbidden"))
       \/ /\ op = "execute" /\ IsSafeSelectQuery(s) /\ CostDecision(EnsureLimit(s)) = "deny"
          /\ EndEarly(c, op, s, Outcome("costly"))
       \/ /\ op \in {"execute", "explain"} => IsSafeSelectQuery(s)
          /\ op = "execute" => CostDecision(EnsureLimit(s)) # "deny"
          /\ op # "estimate"
          /\ call' = [call EXCEPT ![c] =
                 [call[c] EXCEPT !.pc = "connecting", !.op = op, !.todo = Queries(op),
                                 !.stmt = IF op \in {"execute", "explain"} THEN s
                                          ELSE "none"]]
    /\ UNCHANGED <<dialect, slot, server>>

(* engine.connect(): an idle connection that answers the pre-ping, or a    *)
(* new one in a free place of the pool.                                    *)
Checkout(c, k) ==
    /\ call[c].pc = "connecting"
    /\ slot[k].state \in {"closed", "idle"}
    /\ slot' = [slot EXCEPT ![k] =
           [slot[k] EXCEPT !.state = "held",
                           !.gen = IF slot[k].state = "closed" THEN @ + 1 ELSE @]]
    /\ call' = [call EXCEPT ![c] = [call[c] EXCEPT !.pc = "setting", !.slot = k]]
    /\ UNCHANGED <<dialect, server>>

(* The database refuses, or no connection is free within pool_timeout. *)
ConnectFails(c) ==
    /\ call[c].pc = "connecting"
    /\ Finish(c, Failed(call[c].op))
    /\ UNCHANGED <<dialect, slot, server>>

(* The next SET of get_conn. *)
SetNext(c) ==
    LET setup == Setup(call[c].op)
        n == call[c].step + 1
        conn == slot[call[c].slot] IN
    /\ call[c].pc = "setting" /\ n <= Len(setup)
    /\ slot' = [slot EXCEPT ![call[c].slot] =
           [conn EXCEPT !.session = [conn.session EXCEPT ![setup[n][1]] = setup[n][2]]]]
    /\ call' = [call EXCEPT ![c] = [call[c] EXCEPT !.step = n]]
    /\ UNCHANGED <<dialect, server>>

SetFails(c) ==
    /\ call[c].pc = "setting" /\ call[c].step < Len(Setup(call[c].op))
    /\ ToClose(c, Failed(call[c].op))
    /\ UNCHANGED <<dialect, slot, server>>

(* EXPLAIN on another database: nothing is sent. *)
ExplainUnsupported(c) ==
    /\ call[c].pc = "setting" /\ call[c].todo = 0
    /\ ToClose(c, Outcome("unsupported"))
    /\ UNCHANGED <<dialect, slot, server>>

(* conn.execute(...) of the operation's next query. *)
Send(c) ==
    LET k == call[c].slot IN
    /\ call[c].pc = "setting" /\ call[c].step = Len(Setup(call[c].op)) /\ call[c].todo > 0
    /\ call' = [call EXCEPT ![c] = [call[c] EXCEPT !.pc = "running",
                                                   !.todo = @ - 1, !.sent = @ + 1]]
    /\ server' = [server EXCEPT ![c] = [conn |-> <<k, slot[k].gen>>,
                                        bounded |-> slot[k].session["statement_timeout"] = "set"]]
    /\ UNCHANGED <<dialect, slot>>

(* The server is done with the query of c. *)
Served(c) == call[c].pc = "running" /\ server' = [server EXCEPT ![c] = Idle]

(* The server answers; fetchmany reads the buffered rows without an await. *)
Answer(c) ==
    /\ Served(c)
    /\ \/ /\ call[c].op = "execute"
          /\ \E selected \in Selections(call[c].stmt) :
             \E raw \in Answers(call[c].stmt, selected) :
                LET out == ExecuteOutcome(raw) IN
                call' = [call EXCEPT ![c] =
                    [call[c] EXCEPT !.pc = "closing", !.result = out,
                                    !.selected = IF out.kind = "rows" THEN selected ELSE <<>>]]
       \/ /\ call[c].op # "execute" /\ call[c].todo > 0
          /\ call' = [call EXCEPT ![c] = [call[c] EXCEPT !.pc = "setting"]]
       \/ /\ call[c].op # "execute" /\ call[c].todo = 0
          /\ ToClose(c, Outcome("ok"))
    /\ UNCHANGED <<dialect, slot>>

(* The server reports an error ... *)
ServerError(c) ==
    /\ Served(c)
    /\ ToClose(c, Failed(call[c].op))
    /\ UNCHANGED <<dialect, slot>>

(* ... or statement_timeout passes. *)
ServerTimeout(c) == server[c].bounded /\ ServerError(c)

(* Mutant: the connection stays in use. *)
InvalidateNot(k) == UNCHANGED slot

(* The task is thrown out of an await inside the connection, which is      *)
(* invalidated; a query it had sent may live on in the server.             *)
Invalidate(k) ==
    slot' = [slot EXCEPT ![k] = [slot[k] EXCEPT !.state = "invalid",
                                                !.session = DefaultSession]]

(* asyncio.wait_for(_execute_query(), query_timeout_seconds) *)
ClientTimeout(c) ==
    /\ call[c].pc = "running" /\ call[c].op = "execute"
    /\ Invalidate(call[c].slot)
    /\ ToClose(c, Outcome("timeout"))
    /\ UNCHANGED <<dialect, server>>

(* The request's task is cancelled while it holds a connection ... *)
Cancel(c) ==
    /\ call[c].pc \in {"setting", "running"}
    /\ Invalidate(call[c].slot)
    /\ ToClose(c, Outcome("cancelled"))
    /\ UNCHANGED <<dialect, server>>

(* ... or while it waits for one. *)
CancelConnecting(c) ==
    /\ call[c].pc = "connecting"
    /\ Finish(c, Outcome("cancelled"))
    /\ UNCHANGED <<dialect, slot, server>>

(* Mutant: the settings survive in the pool. *)
ReturnedWithSettings(conn) ==
    [conn EXCEPT !.state = IF @ = "held" THEN "idle" ELSE "closed"]

(* Rolled back, so that SET SESSION is undone, and back in the pool; an    *)
(* invalidated connection is dropped.                                      *)
Returned(conn) ==
    [conn EXCEPT !.state = IF @ = "held" THEN "idle" ELSE "closed",
                 !.session = DefaultSession]

(* conn.close(), then the result is returned or raised. *)
Close(c) ==
    /\ call[c].pc = "closing"
    /\ slot' = [slot EXCEPT ![call[c].slot] = Returned(slot[call[c].slot])]
    /\ Finish(c, call[c].result)
    /\ UNCHANGED <<dialect, server>>

(* The rollback fails: the connection is dropped and the result with it. *)
CloseFails(c) ==
    LET k == call[c].slot IN
    /\ call[c].pc = "closing" /\ slot[k].state = "held"
    /\ slot' = [slot EXCEPT ![k] = [slot[k] EXCEPT !.state = "closed",
                                                   !.session = DefaultSession]]
    /\ Finish(c, Failed(call[c].op))
    /\ UNCHANGED <<dialect, server>>

(* The server ends a query nobody waits for: it completes or fails ... *)
OrphanEnds(c) ==
    /\ call[c].pc # "running" /\ server[c] # Idle
    /\ server' = [server EXCEPT ![c] = Idle]
    /\ UNCHANGED <<dialect, call, slot>>

(* ... or its statement_timeout passes. *)
OrphanTimeout(c) == server[c].bounded /\ OrphanEnds(c)

Step(c) ==
    \/ ConnectFails(c) \/ SetNext(c) \/ SetFails(c) \/ ExplainUnsupported(c)
    \/ Send(c) \/ Answer(c) \/ ServerError(c) \/ ServerTimeout(c) \/ ClientTimeout(c)
    \/ Cancel(c) \/ CancelConnecting(c) \/ Close(c) \/ CloseFails(c)
    \/ OrphanEnds(c) \/ OrphanTimeout(c)

Next ==
    \E c \in Calls :
        \/ \E op \in Operations, s \in Statements : Start(c, op, s)
        \/ \E k \in Slots : Checkout(c, k)
        \/ Step(c)

Spec == Init /\ [][Next]_vars

(* An await on the server that no timer of the client ends: the pre-ping   *)
(* and the SETs of get_conn, the rollback of conn.close() and the queries  *)
(* outside wait_for.                                                       *)
AwaitsServer(c) ==
    \/ call[c].pc = "setting" /\ call[c].step < Len(Setup(call[c].op))
    \/ call[c].pc = "running" /\ call[c].op # "execute"
    \/ call[c].pc = "closing" /\ slot[call[c].slot].state = "held" /\ dialect = "postgresql"

(* The event loop runs a task that can go on, pool_timeout, the timeout of *)
(* a new connection and wait_for fire on the client, statement_timeout on  *)
(* the server; that the server answers anything is not assumed.            *)
FairSpec ==
    /\ Spec
    /\ \A c \in Calls :
          /\ WF_vars((\E k \in Slots : Checkout(c, k)) \/ ConnectFails(c))
          /\ WF_vars(ExplainUnsupported(c) \/ Send(c)) /\ WF_vars(ClientTimeout(c))
          /\ WF_vars(Close(c) /\ ~AwaitsServer(c)) /\ WF_vars(OrphanTimeout(c))

-----------------------------------------------------------------------------
(* The variables hold values of their types. *)
TypeOK ==
    /\ dialect \in {"postgresql", "sqlite"}
    /\ \A c \in Calls :
          /\ call[c].pc \in {"new", "connecting", "setting", "running", "closing", "done"}
          /\ call[c].op \in Operations \cup {"none"}
          /\ call[c].slot \in Slots \cup {"none"}
          /\ call[c].step \in 0 .. Len(Setup(call[c].op))
          /\ call[c].todo \in Nat /\ call[c].sent \in Nat
          /\ server[c].conn = <<>> \/ server[c].conn \in Slots \X Nat
    /\ slot \in [Slots -> [state : {"closed", "idle", "held", "invalid"}, gen : Nat,
                            session : [Settings -> {"default", "set", "read only",
                                                    "readonly", "data", "meta"}]]]

(* No connection is lost and none is shared: whatever a call meets, a      *)
(* connection out of the pool belongs to exactly one call in progress, and *)
(* an answered call has none.                                              *)
SlotsAccounted ==
    \A k \in Slots :
        Cardinality({c \in Calls : call[c].slot = k}) =
            (IF slot[k].state \in {"held", "invalid"} THEN 1 ELSE 0)

(* Two queries never run on one connection, and a connection that waits in *)
(* the pool runs none: the query of a call that timed out or was cancelled *)
(* cannot meet the next call.                                              *)
OneQueryPerConnection ==
    \A c \in Calls : server[c] # Idle =>
        /\ \A d \in Calls \ {c} : server[d].conn # server[c].conn
        /\ \A k \in Slots :
              server[c].conn = <<k, slot[k].gen>> =>
                  slot[k].state # "idle" /\ (slot[k].state = "held" => call[c].slot = k)

(* A query runs in the session its own operation asked for - the read-only *)
(* role, both timeouts, its search_path or none - whatever the connection  *)
(* was used for before.                                                    *)
SessionSetUp ==
    \A c \in Calls : (call[c].pc = "running" /\ dialect = "postgresql") =>
        slot[call[c].slot].session =
            [characteristics |-> "read only",
             role |-> IF ReadonlyRole THEN "readonly" ELSE "default",
             statement_timeout |-> "set", lock_timeout |-> "set",
             search_path |-> SearchPath(call[c].op)]

(* What a caller is told is what happened: a statement reported forbidden  *)
(* or too costly never reached the database, one reported as rows reached  *)
(* it once, and what reached it, EXPLAIN included, had passed the checker. *)
OutcomeHonest ==
    \A c \in Calls :
        /\ call[c].result.kind \in {"forbidden", "costly", "score"} => call[c].sent = 0
        /\ call[c].result.kind = "rows" => call[c].sent = 1
        /\ (call[c].sent > 0 /\ call[c].op \in {"execute", "explain"}) =>
              /\ call[c].stmt.statements = 1
              /\ call[c].stmt.nodes \cap (MutationNodes \cup {"Lock"}) = {}
              /\ call[c].stmt.tables \cap SystemTables = {}

(* The rows of the answer that get past _ensure_limit. *)
Cut(s, selected) ==
    LET cap == IF s.fetch < 0 /\ s.limits = <<>> THEN Min({DefaultLimit, MaxRowLimit})
               ELSE MaxRowLimit
    IN  SubSeq(selected, 1, Min({Len(selected), cap}))

(* execute_sql_statement, _ensure_limit: what the caller gets, against     *)
(* what the statement as typed selects.  A longer result is cut to its     *)
(* first rows, silently: at the default for a statement without a bound of *)
(* its own, else at MaxRowLimit, and before the row filter, so that the    *)
(* number of rows does not show it.  Nothing else is lost or changed but   *)
(* sensitive columns.  Refused for its rows, instead of cut, is only a     *)
(* statement whose subquery got the bound; and only a subquery bounded     *)
(* above MaxRowLimit makes the rows those of another statement.            *)
DeliveredUpToTheCap ==
    \A c \in Calls :
        LET s == call[c].stmt
            out == call[c].result IN
        /\ out.kind = "too_many_rows" => MissesOuter(s)
        /\ (out.kind = "rows" /\ ~ClampsInner(s)) =>
              LET due == SelectSeq(Cut(s, call[c].selected), Kept) IN
              /\ DOMAIN out.rows = DOMAIN due
              /\ \A i \in DOMAIN due : \A key \in DOMAIN due[i] :
                    out.rows[i][key] = IF IsSensitive(key) THEN "[MASKED]" ELSE due[i][key]

(* The cost preview of the controller scores the text as typed, the guard  *)
(* the text with its LIMIT: a refusal for cost is announced by a preview   *)
(* of at least the threshold less one.                                     *)
RefusalForeseeable ==
    \A c, d \in Calls :
        (/\ call[c].result.kind = "score" /\ call[d].result.kind = "costly"
         /\ call[c].stmt = call[d].stmt)
            => call[c].result.score >= CostThreshold - 1

(* A call ends, or waits for ever for an answer no timer covers: there is  *)
(* no other place where a server that falls silent can stop it, and a full *)
(* pool never does.                                                        *)
CallsEndOrAwaitServer ==
    \A c \in Calls : call[c].pc = "connecting" ~> (call[c].pc = "done" \/ []AwaitsServer(c))

(* A query whose caller has timed out or gone does not occupy PostgreSQL   *)
(* for ever.                                                               *)
OrphansEnd ==
    \A c \in Calls :
        (dialect = "postgresql" /\ server[c] # Idle /\ call[c].pc # "running")
            ~> (server[c] = Idle)

(* sql_query_repository.py, get_conn: connections are neither lost nor     *)
(* shared, and none carries two queries.                                   *)
ConnectionsAccounted == TypeOK /\ SlotsAccounted /\ OneQueryPerConnection

(* What callers are told of a statement, in advance by the preview and     *)
(* afterwards by the result, is what happens to it.                        *)
ReportsTrue == OutcomeHonest /\ RefusalForeseeable

(* sql_query_repository.py:398, 265-288: with a server that may fall       *)
(* silent at any time, calls hang only in the awaits outside wait_for, and *)
(* the queries they leave behind come to an end.                           *)
HangsOnlyUntimed == CallsEndOrAwaitServer /\ OrphansEnd
=============================================================================
