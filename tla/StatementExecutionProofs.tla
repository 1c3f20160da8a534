---------------------- MODULE StatementExecutionProofs ----------------------
(***************************************************************************)
(* Proofs about StatementExecution for every set of calls, every size of   *)
(* the pool, every set of statements and every configuration.              *)
(***************************************************************************)
EXTENDS StatementExecution, FiniteSetTheorems, TLAPS

Progressing == {"new", "connecting", "setting", "running", "closing", "done"}

(* The calls that have a connection. *)
Holding == {"setting", "running", "closing"}

Kinds ==
    {"none", "score", "forbidden", "costly", "unsupported", "error", "ok", "timeout",
     "cancelled", "too_many_rows", "too large", "rows"}

Result ==
    [kind : Kinds, rows : {<<>>} \cup {Deliver(raw) : raw \in Seq(Rows)}, score : Int]

CallRecord ==
    [pc : Progressing, op : Operations \cup {"none"}, stmt : Statements \cup {"none"},
     slot : Slots \cup {"none"}, step : Nat, todo : Nat, sent : Nat, selected : Seq(Rows),
     result : Result]

Values == {"default", "set", "read only", "readonly", "data", "meta"}

Connection ==
    [state : {"closed", "idle", "held", "invalid"}, gen : Nat, session : [Settings -> Values]]

Query == [conn : Slots \X Nat, bounded : BOOLEAN]

Typed ==
    /\ dialect \in {"postgresql", "sqlite"}
    /\ call \in [Calls -> CallRecord]
    /\ slot \in [Slots -> Connection]
    /\ server \in [Calls -> Query \cup {Idle}]
    /\ \A c \in Calls : call[c].step <= Len(Setup(call[c].op))

(* Who has which connection. *)
Held ==
    /\ \A c \in Calls : call[c].pc \in Holding <=> call[c].slot \in Slots
    /\ \A c, d \in Calls : call[c].slot = call[d].slot /\ c # d => call[c].slot = "none"
    /\ \A c \in Calls : call[c].slot \in Slots => slot[call[c].slot].state \in {"held", "invalid"}
    /\ \A k \in Slots :
          slot[k].state \in {"held", "invalid"} => \E c \in Calls : call[c].slot = k
    /\ \A c \in Calls : call[c].pc \in {"setting", "running"} => slot[call[c].slot].state = "held"

(* The query of c runs on the present connection of its slot only while c  *)
(* waits for it there, or once that connection is dropped.                 *)
OnPresent(c) ==
    LET k == server[c].conn[1] IN
    /\ server[c].conn[2] <= slot[k].gen
    /\ server[c].conn[2] = slot[k].gen =>
          \/ call[c].pc = "running" /\ call[c].slot = k
          \/ slot[k].state \in {"invalid", "closed"}

QueriesApart ==
    /\ \A c \in Calls : call[c].pc = "running" =>
          server[c] # Idle /\ server[c].conn = <<call[c].slot, slot[call[c].slot].gen>>
    /\ \A c \in Calls : server[c] # Idle => OnPresent(c)
    /\ \A c, d \in Calls :
          c # d /\ server[c] # Idle /\ server[d] # Idle => server[c].conn # server[d].conn

(* What the first n SETs of an operation leave in a session. *)
SetSoFar(session, op, n) ==
    /\ \A i \in 1 .. n : session[Setup(op)[i][1]] = Setup(op)[i][2]
    /\ \A p \in Settings : (\A i \in 1 .. n : Setup(op)[i][1] # p) => session[p] = "default"

Sessions ==
    /\ \A k \in Slots : slot[k].state \in {"closed", "idle"} => slot[k].session = DefaultSession
    /\ \A c \in Calls :
          /\ call[c].pc \in {"new", "connecting"} => call[c].step = 0
          /\ call[c].pc \in {"setting", "running"} =>
                SetSoFar(slot[call[c].slot].session, call[c].op, call[c].step)
          /\ call[c].pc = "running" => call[c].step = Len(Setup(call[c].op))

(* What the checker has let through. *)
PassedChecks(s) ==
    /\ s \in Statements
    /\ s.statements = 1
    /\ s.nodes \cap (MutationNodes \cup {"Lock"}) = {}
    /\ s.tables \cap SystemTables = {}

(* The rows of the statement as asked, up to the cap. *)
DeliversCut(r) == ~ClampsInner(r.stmt) => r.result.rows = Deliver(Cut(r.stmt, r.selected))

(* What the record of one call says of its past. *)
Honest(r) ==
    /\ r.pc \in {"new", "connecting", "setting", "running"} => r.result.kind = "none"
    /\ r.pc \in {"new", "connecting"} => r.sent = 0
    /\ r.pc = "new" => r.todo = 0
    /\ r.pc = "running" => r.sent > 0
    /\ r.op = "execute" => r.sent + r.todo <= 1
    /\ r.result.kind \in {"forbidden", "costly", "score"} => r.sent = 0 /\ r.pc = "done"
    /\ r.result.kind = "rows" => r.sent = 1 /\ DeliversCut(r)
    /\ r.result.kind = "too_many_rows" => MissesOuter(r.stmt)
    /\ r.op \in {"execute", "explain"}
          /\ (r.sent > 0 \/ r.pc \in {"connecting", "setting", "running", "closing"}) =>
             PassedChecks(r.stmt)
    /\ r.result.kind = "score" => r.stmt \in Statement /\ r.result.score = Score(r.stmt)
    /\ r.result.kind = "costly" => r.stmt \in Statement /\ CostDecision(EnsureLimit(r.stmt)) = "deny"

CallsHonest == \A c \in Calls : Honest(call[c])
-----------------------------------------------------------------------------
(* What get_conn sets.                                                     *)

Pairs == Settings \X Values
Entries(q) == {q[i] : i \in 1 .. Len(q)}
KeysDiffer(q) == \A i, j \in 1 .. Len(q) : q[i][1] = q[j][1] => i = j

(* Sending a setting that was not sent yet.                                *)
LEMMA AppendSetting ==
    ASSUME NEW q \in Seq(Pairs), KeysDiffer(q), NEW e \in Pairs,
           \A x \in Entries(q) : x[1] # e[1]
    PROVE  /\ Append(q, e) \in Seq(Pairs) /\ KeysDiffer(Append(q, e))
           /\ Entries(Append(q, e)) = Entries(q) \cup {e}
<1> DEFINE r == Append(q, e)
<1>1. /\ r \in Seq(Pairs) /\ Len(r) = Len(q) + 1 /\ Len(q) \in Nat
      /\ \A i \in 1 .. Len(q) : r[i] = q[i]
      /\ r[Len(q) + 1] = e
  OBVIOUS
<1> HIDE DEF r
<1>2. 1 .. Len(r) = (1 .. Len(q)) \cup {Len(q) + 1}
  BY <1>1
<1>3. Entries(r) = Entries(q) \cup {e}
  BY <1>1, <1>2 DEF Entries
<1>4. ASSUME NEW i \in 1 .. Len(r), NEW j \in 1 .. Len(r), r[i][1] = r[j][1] PROVE i = j
  <2>1. \A n \in 1 .. Len(q) : q[n] \in Entries(q)
    BY DEF Entries
  <2>2. CASE i \in 1 .. Len(q) /\ j \in 1 .. Len(q)
    BY <1>1, <1>4, <2>2 DEF KeysDiffer
  <2>3. CASE i = Len(q) + 1 /\ j \in 1 .. Len(q)
    BY <1>1, <1>4, <2>1, <2>3
  <2>4. CASE j = Len(q) + 1 /\ i \in 1 .. Len(q)
    BY <1>1, <1>4, <2>1, <2>4
  <2> QED BY <1>2, <2>2, <2>3, <2>4
<1> QED BY <1>1, <1>3, <1>4 DEF r, KeysDiffer

(* search_path is the default, the data schema or the metadata schema.     *)
LEMMA SearchPaths ==
    ASSUME NEW op
    PROVE  SearchPath(op) \in {"default", "data", "meta"}
BY DEF SearchPath

(* What get_conn sends to PostgreSQL, each setting once.                   *)
LEMMA SetupOnPostgres ==
    ASSUME NEW op, dialect = "postgresql"
    PROVE  /\ Setup(op) \in Seq(Pairs) /\ KeysDiffer(Setup(op))
           /\ Entries(Setup(op)) =
                 {<<"characteristics", "read only">>, <<"statement_timeout", "set">>,
                  <<"lock_timeout", "set">>}
                 \cup (IF ReadonlyRole THEN {<<"role", "readonly">>} ELSE {})
                 \cup (IF SearchPath(op) # "default" THEN {<<"search_path", SearchPath(op)>>}
                       ELSE {})
<1> DEFINE c == <<"characteristics", "read only">>
           r == <<"role", "readonly">>
           t == <<"statement_timeout", "set">>
           l == <<"lock_timeout", "set">>
           p == <<"search_path", SearchPath(op)>>
           q1 == <<c>>
           q2 == IF ReadonlyRole THEN Append(q1, r) ELSE q1
           q3 == Append(q2, t)
           q4 == Append(q3, l)
           q5 == IF SearchPath(op) # "default" THEN Append(q4, p) ELSE q4
           R == IF ReadonlyRole THEN {r} ELSE {}
<1>1. c \in Pairs /\ r \in Pairs /\ t \in Pairs /\ l \in Pairs /\ p \in Pairs
  BY SearchPaths DEF Pairs, Settings, Values
<1>2. /\ c[1] = "characteristics" /\ r[1] = "role" /\ t[1] = "statement_timeout"
      /\ l[1] = "lock_timeout" /\ p[1] = "search_path"
  OBVIOUS
<1>3. Setup(op) = (((q1 \o (IF ReadonlyRole THEN <<r>> ELSE <<>>)) \o <<t, l>>)
                     \o (IF SearchPath(op) # "default" THEN <<p>> ELSE <<>>))
  BY DEF Setup
<1> HIDE DEF c, r, t, l, p
<1>4. q1 \in Seq(Pairs) /\ KeysDiffer(q1) /\ Entries(q1) = {c}
  <2>1. q1 \in Seq(Pairs) /\ Len(q1) = 1 /\ q1[1] = c /\ 1 .. 1 = {1}
    BY <1>1
  <2> HIDE DEF q1
  <2> QED BY <2>1 DEF KeysDiffer, Entries
<1> HIDE DEF q1
<1>5. /\ q2 \in Seq(Pairs) /\ KeysDiffer(q2) /\ Entries(q2) = {c} \cup R
      /\ q1 \o (IF ReadonlyRole THEN <<r>> ELSE <<>>) = q2
  <2>1. CASE ReadonlyRole
    <3>1. Append(q1, r) \in Seq(Pairs) /\ KeysDiffer(Append(q1, r))
          /\ Entries(Append(q1, r)) = {c} \cup {r}
      BY <1>1, <1>2, <1>4, AppendSetting
    <3>2. q1 \o <<r>> = Append(q1, r)
      BY <1>1, <1>4
    <3> QED BY <2>1, <3>1, <3>2
  <2>2. CASE ~ReadonlyRole
    <3>1. q1 \o <<>> = q1
      BY <1>4
    <3> QED BY <1>4, <2>2, <3>1
  <2> QED BY <2>1, <2>2
<1> HIDE DEF q2
<1>6. q3 \in Seq(Pairs) /\ KeysDiffer(q3) /\ Entries(q3) = {c, t} \cup R
  <2>1. \A x \in Entries(q2) : x[1] # t[1]
    BY <1>2, <1>5
  <2> QED BY <1>1, <1>5, <2>1, AppendSetting
<1>7. q2 \o <<t, l>> = q4
  BY <1>1, <1>5
<1> HIDE DEF q3
<1>8. q4 \in Seq(Pairs) /\ KeysDiffer(q4) /\ Entries(q4) = {c, t, l} \cup R
  <2>1. \A x \in Entries(q3) : x[1] # l[1]
    BY <1>2, <1>6
  <2> QED BY <1>1, <1>6, <2>1, AppendSetting
<1> HIDE DEF q4
<1>9. CASE SearchPath(op) # "default"
  <2>1. \A x \in Entries(q4) : x[1] # p[1]
    BY <1>2, <1>8
  <2>2. /\ Append(q4, p) \in Seq(Pairs) /\ KeysDiffer(Append(q4, p))
        /\ Entries(Append(q4, p)) = {c, t, l} \cup R \cup {p}
    BY <1>1, <1>8, <2>1, AppendSetting
  <2>3. q4 \o <<p>> = Append(q4, p)
    BY <1>1, <1>8
  <2>4. Setup(op) = Append(q4, p)
    BY <1>3, <1>5, <1>7, <1>9, <2>3
  <2> QED BY <1>9, <2>2, <2>4 DEF c, r, t, l, p
<1>10. CASE SearchPath(op) = "default"
  <2>1. q4 \o <<>> = q4
    BY <1>8
  <2>2. Setup(op) = q4
    BY <1>3, <1>5, <1>7, <1>10, <2>1
  <2> QED BY <1>8, <1>10, <2>2 DEF c, r, t, l
<1> QED BY <1>9, <1>10

(* The same for every dialect: SQLite gets no settings.                    *)
LEMMA SetupFacts ==
    ASSUME NEW op
    PROVE  /\ Setup(op) \in Seq(Pairs) /\ KeysDiffer(Setup(op)) /\ Len(Setup(op)) \in Nat
           /\ \A i \in 1 .. Len(Setup(op)) :
                 Setup(op)[i][1] \in Settings /\ Setup(op)[i][2] \in Values
<1>1. Setup(op) \in Seq(Pairs) /\ KeysDiffer(Setup(op))
  <2>1. CASE dialect = "postgresql"
    BY <2>1, SetupOnPostgres
  <2>2. CASE dialect # "postgresql"
    BY <2>2 DEF Setup, KeysDiffer
  <2> QED BY <2>1, <2>2
<1>2. PICK q : q = Setup(op)
  OBVIOUS
<1>3. \A i \in 1 .. Len(q) : q[i] \in Pairs
  BY <1>1, <1>2
<1> QED BY <1>1, <1>2, <1>3 DEF Pairs
-----------------------------------------------------------------------------
(* The text: what the limit does to it, and how it is scored.              *)

(* The smaller of two numbers.                                             *)
LEMMA Minimum ==
    ASSUME NEW m \in Nat, NEW n \in Nat
    PROVE  Min({m, n}) \in Nat /\ Min({m, n}) = IF m <= n THEN m ELSE n
BY DEF Min

(* The larger of two numbers is a number.                                  *)
LEMMA Maximum ==
    ASSUME NEW m \in Nat, NEW n \in Nat
    PROVE  Max({m, n}) \in Nat
BY DEF Max

(* What the whole statement is bounded by, and what _ensure_limit makes of *)
(* it; nothing a check looks at changes.                                   *)
LEMMA EnsureLimitFacts ==
    ASSUME NEW s \in Statement
    PROVE  /\ EnsureLimit(s) \in Statement
           /\ EnsureLimit(s).features = s.features
           /\ EnsureLimit(s).scans = s.scans
           /\ EnsureLimit(s).limits # <<>>
           /\ EnsureLimit(s).outer # "fetch" \/ (s.outer = "fetch" /\ s.fetch = -1)
<1>1. /\ s.fetch \in Nat \cup {-1} /\ s.limits \in Seq(Nat) /\ MaxRowLimit \in Nat
      /\ DefaultLimit \in Nat
  BY ExecutionAssumption DEF Statement
<1>2. CASE s.fetch >= 0
  <2>1. PICK n \in Nat : n = Min({s.fetch, MaxRowLimit})
    BY <1>1, <1>2, Minimum
  <2>2. PICK p, q : p = <<n>> \o s.limits /\ q = Append(s.limits, n)
    OBVIOUS
  <2>3. q \in Seq(Nat) /\ q # <<>> /\ p \in Seq(Nat) /\ p # <<>>
    BY <1>1, <2>1, <2>2
  <2>4. -1 \in Nat \cup {-1}
    OBVIOUS
  <2>5. CASE s.outer = "fetch"
    <3>1. EnsureLimit(s) = [s EXCEPT !.fetch = -1, !.limits = q, !.outer = "limit"]
      BY <1>2, <2>1, <2>2, <2>5 DEF EnsureLimit
    <3> QED BY <2>3, <2>4, <3>1 DEF Statement
  <2>6. CASE s.outer # "fetch"
    <3>1. EnsureLimit(s) = [s EXCEPT !.fetch = -1, !.limits = p]
      BY <1>2, <2>1, <2>2, <2>6 DEF EnsureLimit
    <3> QED BY <2>3, <2>4, <2>6, <3>1 DEF Statement
  <2> QED BY <2>5, <2>6
<1>3. CASE ~(s.fetch >= 0) /\ s.limits # <<>>
  <2>1. s.limits[1] \in Nat /\ s.fetch = -1
    BY <1>1, <1>3
  <2>2. PICK n \in Nat : n = Min({s.limits[1], MaxRowLimit})
    BY <1>1, <2>1, Minimum
  <2>3. PICK q : q = [s.limits EXCEPT ![1] = n]
    OBVIOUS
  <2>4. q \in Seq(Nat) /\ q # <<>>
    BY <1>1, <1>3, <2>2, <2>3
  <2>5. EnsureLimit(s) = [s EXCEPT !.limits = q]
    BY <1>3, <2>2, <2>3 DEF EnsureLimit
  <2> QED BY <2>1, <2>4, <2>5 DEF Statement
<1>4. CASE ~(s.fetch >= 0) /\ s.limits = <<>>
  <2>1. PICK n \in Nat : n = Min({DefaultLimit, MaxRowLimit})
    BY <1>1, Minimum
  <2>2. PICK q : q = <<n>>
    OBVIOUS
  <2>3. q \in Seq(Nat) /\ q # <<>>
    BY <2>1, <2>2
  <2>4. EnsureLimit(s) = [s EXCEPT !.limits = q, !.outer = "limit"]
    BY <1>4, <2>1, <2>2 DEF EnsureLimit
  <2> QED BY <2>3, <2>4 DEF Statement
<1> QED BY <1>1, <1>2, <1>3, <1>4

(* The bound of a whole statement is a number.                             *)
LEMMA OuterBounds ==
    ASSUME NEW s \in Statement, s.outer = "fetch" => s.fetch >= 0,
           s.outer = "limit" => s.limits # <<>>
    PROVE  OuterBound(s) \in Nat
<1>1. /\ s.fetch \in Nat \cup {-1} /\ s.limits \in Seq(Nat) /\ MaxSelected \in Nat
      /\ s.outer \in {"fetch", "limit", "none"}
  BY ExecutionAssumption DEF Statement
<1>2. s.limits # <<>> => Last(s.limits) \in Nat
  BY <1>1 DEF Last
<1>3. CASE s.outer = "fetch"
  BY <1>1, <1>3 DEF OuterBound
<1>4. CASE s.outer = "limit"
  BY <1>2, <1>4 DEF OuterBound
<1>5. CASE s.outer = "none"
  BY <1>1, <1>5 DEF OuterBound
<1> QED BY <1>1, <1>3, <1>4, <1>5

(* A statement may be asked for, so both bounds are numbers.               *)
LEMMA BothBounds ==
    ASSUME NEW s \in Statements
    PROVE  /\ s \in Statement /\ EnsureLimit(s) \in Statement
           /\ OuterBound(s) \in Nat /\ OuterBound(EnsureLimit(s)) \in Nat
<1>1. /\ s \in Statement
      /\ s.outer = "fetch" => s.fetch >= 0
      /\ s.outer = "limit" => s.limits # <<>>
  BY ExecutionAssumption
<1>2. PICK e : e = EnsureLimit(s)
  OBVIOUS
<1>3. /\ e \in Statement /\ e.limits # <<>>
      /\ e.outer # "fetch" \/ (s.outer = "fetch" /\ s.fetch = -1)
  BY <1>1, <1>2, EnsureLimitFacts
<1>4. e.outer # "fetch"
  BY <1>1, <1>3
<1>5. OuterBound(e) \in Nat
  BY <1>3, <1>4, OuterBounds
<1> QED BY <1>1, <1>2, <1>3, <1>5, OuterBounds

(* Every feature of a statement costs a natural number of points.          *)
LEMMA PointsAreNumbers ==
    ASSUME NEW s, NEW f \in DOMAIN Weight
    PROVE  Points(s, f) \in Nat
BY DEF Points, Weight

(* The LIMIT that _ensure_limit adds costs one point at most. *)
LEMMA ScoreFacts ==
    ASSUME NEW s \in Statement
    PROVE  /\ Score(s) \in Int
           /\ Score(EnsureLimit(s)) <= Score(s) + 1
<1> DEFINE F == {"SELECT", "JOIN", "AGGREGATION", "SORTING", "STAR", "SETOP", "CTE", "COUNT"}
           e == EnsureLimit(s)
           L(t) == IF t.limits # <<>> THEN 1 ELSE 0
<1>1. \A f \in F : Points(s, f) \in Nat
  BY PointsAreNumbers DEF Weight
<1>2. e.features = s.features /\ e.scans = s.scans
  BY EnsureLimitFacts
<1>3. \A f \in F : Points(e, f) = Points(s, f)
  BY <1>2 DEF Points
<1>4. Max({1, s.scans}) \in Nat /\ Max({1, e.scans}) = Max({1, s.scans})
  <2>1. s.scans \in Nat
    BY DEF Statement
  <2> QED BY <1>2, <2>1, Maximum
<1>5. L(s) \in {0, 1} /\ L(e) \in {0, 1}
  OBVIOUS
<1>6. Score(s) = 1 + Points(s, "SELECT") + Points(s, "JOIN") + Points(s, "AGGREGATION")
                   + Points(s, "SORTING") + L(s)
                   + Points(s, "STAR") + Points(s, "SETOP") + Points(s, "CTE")
                   + Max({1, s.scans}) - 1 + Points(s, "COUNT")
  BY DEF Score
<1>7. Score(e) = 1 + Points(s, "SELECT") + Points(s, "JOIN") + Points(s, "AGGREGATION")
                   + Points(s, "SORTING") + L(e)
                   + Points(s, "STAR") + Points(s, "SETOP") + Points(s, "CTE")
                   + Max({1, s.scans}) - 1 + Points(s, "COUNT")
  BY <1>3, <1>4 DEF Score
<1> HIDE DEF e, L
<1> QED BY <1>1, <1>4, <1>5, <1>6, <1>7 DEF e
-----------------------------------------------------------------------------
(* What a step of one call does, as the invariants see it.                 *)

Sound == Typed /\ Held /\ QueriesApart /\ Sessions /\ CallsHonest

OtherSlots(k) == \A j \in Slots \ {k} : slot'[j] = slot[j]

SameCall(c) ==
    call'[c].slot = call[c].slot /\ call'[c].op = call[c].op /\ call'[c].step = call[c].step

(* Before it has a connection, or without ever getting one. *)
Aside(c) ==
    /\ call[c].pc \notin Holding /\ call'[c].pc \in {"connecting", "done"}
    /\ call'[c].slot = "none" /\ call'[c].step = 0
    /\ UNCHANGED <<slot, server>>

Takes(c, k) ==
    /\ call[c].pc = "connecting" /\ slot[k].state \in {"closed", "idle"}
    /\ call'[c].pc = "setting" /\ call'[c].slot = k
    /\ call'[c].op = call[c].op /\ call'[c].step = call[c].step
    /\ slot'[k].state = "held" /\ slot'[k].session = slot[k].session
    /\ slot'[k].gen = IF slot[k].state = "closed" THEN slot[k].gen + 1 ELSE slot[k].gen
    /\ OtherSlots(k) /\ UNCHANGED server

Sets(c, k) ==
    /\ call[c].slot = k /\ call[c].pc = "setting"
    /\ call'[c].pc = "setting" /\ call'[c].slot = k /\ call'[c].op = call[c].op
    /\ call[c].step < Len(Setup(call[c].op)) /\ call'[c].step = call[c].step + 1
    /\ slot'[k].state = slot[k].state /\ slot'[k].gen = slot[k].gen
    /\ slot'[k].session = [slot[k].session EXCEPT ![Setup(call[c].op)[call[c].step + 1][1]] =
                                                    Setup(call[c].op)[call[c].step + 1][2]]
    /\ OtherSlots(k) /\ UNCHANGED server

Sends(c, k) ==
    /\ call[c].slot = k /\ call[c].pc = "setting" /\ call'[c].pc = "running"
    /\ SameCall(c) /\ call[c].step = Len(Setup(call[c].op))
    /\ server'[c] # Idle /\ server'[c].conn = <<k, slot[k].gen>>
    /\ UNCHANGED slot

Ends(c) ==
    /\ call[c].pc \in {"setting", "running"} /\ call'[c].pc \in {"setting", "closing"}
    /\ SameCall(c)
    /\ server'[c] = IF call[c].pc = "setting" THEN server[c] ELSE Idle
    /\ UNCHANGED slot

Drops(c, k) ==
    /\ call[c].slot = k /\ call[c].pc \in {"setting", "running"} /\ call'[c].pc = "closing"
    /\ SameCall(c)
    /\ slot'[k].state = "invalid" /\ slot'[k].gen = slot[k].gen
    /\ OtherSlots(k) /\ UNCHANGED server

Frees(c, k) ==
    /\ call[c].slot = k /\ call[c].pc = "closing" /\ call'[c].pc = "done"
    /\ call'[c].slot = "none"
    /\ slot'[k].gen = slot[k].gen /\ slot'[k].session = DefaultSession
    /\ slot'[k].state = "closed" \/ (slot[k].state = "held" /\ slot'[k].state = "idle")
    /\ OtherSlots(k) /\ UNCHANGED server

Orphaned(c) ==
    /\ call[c].pc # "running" /\ server'[c] = Idle
    /\ UNCHANGED <<call, slot>>

Moves(c) ==
    /\ UNCHANGED dialect
    /\ \A d \in Calls \ {c} : call'[d] = call[d] /\ server'[d] = server[d]
    /\ call' \in [Calls -> CallRecord] /\ Honest(call'[c])
    /\ call'[c].step <= Len(Setup(call'[c].op))
    /\ slot' \in [Slots -> Connection] /\ server' \in [Calls -> Query \cup {Idle}]
    /\ \/ Aside(c) \/ Ends(c) \/ Orphaned(c)
       \/ \E k \in Slots : Takes(c, k) \/ Sets(c, k) \/ Sends(c, k) \/ Drops(c, k) \/ Frees(c, k)

(* What changing a function at one place does.                             *)
LEMMA Updated ==
    ASSUME NEW S, NEW T, NEW f \in [S -> T], NEW g, NEW c \in S, NEW r, g = [f EXCEPT ![c] = r]
    PROVE  /\ g[c] = r /\ \A d \in S \ {c} : g[d] = f[d]
           /\ r \in T => g \in [S -> T]
OBVIOUS

(* A result without rows or score.                                         *)
LEMMA OutcomeFacts ==
    ASSUME NEW k \in Kinds
    PROVE  /\ Outcome(k) \in Result /\ Outcome(k).kind = k
<1>1. Outcome(k) = [kind |-> k, rows |-> <<>>, score |-> 0]
  BY DEF Outcome, Nothing
<1>2. <<>> \in {<<>>} \cup {Deliver(raw) : raw \in Seq(Rows)}
  OBVIOUS
<1> QED BY <1>1, <1>2 DEF Result

(* What an exception makes of an operation.                                *)
LEMMA FailedFacts ==
    ASSUME NEW op
    PROVE  Failed(op) \in Result /\ Failed(op).kind \in {"unsupported", "error"}
<1>1. "unsupported" \in Kinds /\ "error" \in Kinds
  BY DEF Kinds
<1>2. Failed(op) = Outcome("unsupported") \/ Failed(op) = Outcome("error")
  BY DEF Failed
<1> QED BY <1>1, <1>2, OutcomeFacts

(* Rows are returned within MAX_ROW_LIMIT, filtered and masked, or not at  *)
(* all.                                                                    *)
LEMMA ExecuteFacts ==
    ASSUME NEW raw \in Seq(Rows)
    PROVE  /\ ExecuteOutcome(raw) \in Result
           /\ ExecuteOutcome(raw).kind \in {"too_many_rows", "too large", "rows"}
           /\ ExecuteOutcome(raw).kind = "rows" =>
                 Len(raw) <= MaxRowLimit /\ ExecuteOutcome(raw).rows = Deliver(raw)
           /\ ExecuteOutcome(raw).kind = "too_many_rows" => Len(raw) > MaxRowLimit
<1>0. "too_many_rows" \in Kinds /\ "too large" \in Kinds /\ "rows" \in Kinds
  BY DEF Kinds
<1>1. CASE TooManyRows(raw)
  BY <1>0, <1>1, OutcomeFacts DEF ExecuteOutcome, TooManyRows
<1>2. CASE ~TooManyRows(raw) /\ Size(raw) > MaxResultBytes
  BY <1>0, <1>2, OutcomeFacts DEF ExecuteOutcome
<1>3. CASE ~TooManyRows(raw) /\ ~(Size(raw) > MaxResultBytes)
  <2>1. ExecuteOutcome(raw) = [Outcome("rows") EXCEPT !.rows = Deliver(raw)]
    BY <1>3 DEF ExecuteOutcome
  <2>2. PICK d : d = Deliver(raw)
    OBVIOUS
  <2>3. d \in {<<>>} \cup {Deliver(x) : x \in Seq(Rows)}
    BY <2>2
  <2>4. Outcome("rows") \in Result /\ Outcome("rows").kind = "rows"
    BY <1>0, OutcomeFacts
  <2>5. /\ [Outcome("rows") EXCEPT !.rows = d] \in Result
        /\ [Outcome("rows") EXCEPT !.rows = d].kind = "rows"
        /\ [Outcome("rows") EXCEPT !.rows = d].rows = d
    BY <2>3, <2>4 DEF Result
  <2>6. Len(raw) <= MaxRowLimit
    BY <1>3, ExecutionAssumption DEF TooManyRows
  <2> QED BY <2>1, <2>2, <2>5, <2>6
<1> QED BY <1>1, <1>2, <1>3

(* A call ends, or moves on, with a result that says nothing of rows,      *)
(* refusals or scores.                                                     *)
LEMMA HonestEnd ==
    ASSUME NEW o \in CallRecord, Honest(o), NEW r \in CallRecord,
           r.result.kind \notin {"rows", "too_many_rows", "forbidden", "costly", "score"},
           r.op = o.op, r.stmt = o.stmt, r.sent = o.sent, r.todo <= o.todo,
           r.pc \in {"closing", "done"}, o.pc \in {"connecting", "setting", "running", "closing"}
    PROVE  Honest(r)
<1>1. o.sent \in Nat /\ r.sent \in Nat /\ o.todo \in Nat /\ r.todo \in Nat
  BY DEF CallRecord
<1> QED BY <1>1 DEF Honest

(* The steps, as moves of one call. *)
LEMMA CallFacts ==
    ASSUME Sound, NEW c \in Calls
    PROVE  /\ call \in [Calls -> CallRecord] /\ slot \in [Slots -> Connection]
           /\ server \in [Calls -> Query \cup {Idle}]
           /\ call[c] \in CallRecord /\ Honest(call[c])
           /\ call[c].pc \in Holding => call[c].slot \in Slots
           /\ call[c].pc \notin Holding => call[c].slot = "none"
           /\ call[c].pc \in {"new", "connecting"} => call[c].step = 0
           /\ call[c].step \in Nat /\ call[c].step <= Len(Setup(call[c].op))
           /\ 0 <= Len(Setup(call[c].op))
<1>1. call[c] \in CallRecord /\ Len(Setup(call[c].op)) \in Nat
  BY SetupFacts DEF Sound, Typed
<1>2. call[c].slot \in Slots \cup {"none"} /\ call[c].step \in Nat
  BY <1>1 DEF CallRecord
<1> QED BY <1>1, <1>2, ExecutionAssumption DEF Sound, Typed, Held, Sessions, CallsHonest

(* The frame of a step: one record of call changes, to r. *)
LEMMA Framed ==
    ASSUME Sound, NEW c \in Calls, NEW r \in CallRecord, Honest(r),
           call' = [call EXCEPT ![c] = r],
           r.step <= Len(Setup(r.op)), UNCHANGED dialect
    PROVE  /\ UNCHANGED dialect
           /\ \A d \in Calls \ {c} : call'[d] = call[d]
           /\ call'[c] = r
           /\ call' \in [Calls -> CallRecord] /\ Honest(call'[c])
           /\ call'[c].step <= Len(Setup(call'[c].op))
<1>1. /\ call'[c] = r /\ \A d \in Calls \ {c} : call'[d] = call[d]
      /\ call' \in [Calls -> CallRecord]
  BY CallFacts, Updated
<1> QED BY <1>1

(* The early returns of execute_sql_statement take no connection.          *)
LEMMA EndEarlyMoves ==
    ASSUME Sound, NEW c \in Calls, NEW op \in Operations, NEW s \in Statements,
           NEW res \in Result, EndEarly(c, op, s, res), call[c].pc = "new",
           UNCHANGED <<dialect, slot, server>>,
           res.kind # "rows", res.kind # "too_many_rows",
           res.kind = "score" => res.score = Score(s),
           res.kind = "costly" => CostDecision(EnsureLimit(s)) = "deny"
    PROVE  Moves(c)
<1>1. PICK o : o = call[c]
  OBVIOUS
<1>2. PICK r : r = [o EXCEPT !.pc = "done", !.op = op, !.stmt = s, !.result = res]
  OBVIOUS
<1>3. /\ o \in CallRecord /\ Honest(o) /\ o.slot = "none" /\ o.step = 0 /\ o.pc = "new"
  BY <1>1, CallFacts DEF Holding
<1>4. /\ r \in CallRecord /\ r.pc = "done" /\ r.op = op /\ r.stmt = s /\ r.result = res
      /\ r.slot = "none" /\ r.step = 0 /\ r.todo = o.todo /\ r.sent = o.sent
  BY <1>2, <1>3 DEF CallRecord, Progressing
<1>5. o.sent = 0 /\ o.todo = 0
  BY <1>3 DEF Honest
<1>6. Honest(r)
  BY <1>4, <1>5, ExecutionAssumption DEF Honest
<1>7. call' = [call EXCEPT ![c] = r]
  BY <1>1, <1>2 DEF EndEarly
<1>8. r.step <= Len(Setup(r.op))
  BY <1>4, SetupFacts
<1>9. /\ \A d \in Calls \ {c} : call'[d] = call[d]
      /\ call'[c] = r /\ call' \in [Calls -> CallRecord] /\ Honest(call'[c])
      /\ call'[c].step <= Len(Setup(call'[c].op))
  BY <1>4, <1>6, <1>7, <1>8, Framed
<1>10. Aside(c)
  BY <1>4, <1>9 DEF Aside, Holding
<1> QED BY <1>9, <1>10, CallFacts DEF Moves

(* A call starts by asking for a connection, or ends early.                *)
LEMMA StartMoves ==
    ASSUME Sound, NEW c \in Calls, NEW op \in Operations, NEW s \in Statements, Start(c, op, s)
    PROVE  Moves(c)
<1>0. s \in Statement
  BY ExecutionAssumption
<1>1. call[c].pc = "new" /\ UNCHANGED <<dialect, slot, server>>
  BY DEF Start
<1>2. "score" \in Kinds /\ "forbidden" \in Kinds /\ "costly" \in Kinds
  BY DEF Kinds
<1>3. ASSUME EndEarly(c, op, s, [Outcome("score") EXCEPT !.score = Score(s)])
      PROVE  Moves(c)
  <2>1. PICK res : res = [Outcome("score") EXCEPT !.score = Score(s)]
    OBVIOUS
  <2>2. Outcome("score") \in Result /\ Outcome("score").kind = "score" /\ Score(s) \in Int
    BY <1>0, <1>2, OutcomeFacts, ScoreFacts
  <2>3. res \in Result /\ res.kind = "score" /\ res.score = Score(s)
    BY <2>1, <2>2 DEF Result
  <2> QED BY <1>0, <1>1, <1>3, <2>1, <2>3, EndEarlyMoves
<1>4. ASSUME EndEarly(c, op, s, Outcome("forbidden"))
      PROVE  Moves(c)
  <2>1. Outcome("forbidden") \in Result /\ Outcome("forbidden").kind = "forbidden"
    BY <1>2, OutcomeFacts
  <2> QED BY <1>0, <1>1, <1>4, <2>1, EndEarlyMoves
<1>5. ASSUME EndEarly(c, op, s, Outcome("costly")), CostDecision(EnsureLimit(s)) = "deny"
      PROVE  Moves(c)
  <2>1. Outcome("costly") \in Result /\ Outcome("costly").kind = "costly"
    BY <1>2, OutcomeFacts
  <2> QED BY <1>0, <1>1, <1>5, <2>1, EndEarlyMoves
<1>6. ASSUME op \in {"execute", "explain"} => IsSafeSelectQuery(s), op # "estimate",
             NEW t, t = (IF op \in {"execute", "explain"} THEN s ELSE "none"),
             call' = [call EXCEPT ![c] = [call[c] EXCEPT !.pc = "connecting", !.op = op,
                                            !.todo = Queries(op), !.stmt = t]]
      PROVE  Moves(c)
  <2>1. PICK o : o = call[c]
    OBVIOUS
  <2>2. PICK r : r = [o EXCEPT !.pc = "connecting", !.op = op, !.todo = Queries(op), !.stmt = t]
    OBVIOUS
  <2>3. /\ o \in CallRecord /\ Honest(o) /\ o.slot = "none" /\ o.step = 0 /\ o.pc = "new"
    BY <1>1, <2>1, CallFacts DEF Holding
  <2>4. t \in Statements \cup {"none"}
    BY <1>6
  <2>5. Queries(op) \in Nat /\ (op = "execute" => Queries(op) = 1)
    BY ExecutionAssumption DEF Queries
  <2>6. /\ r \in CallRecord /\ r.pc = "connecting" /\ r.op = op /\ r.stmt = t
        /\ r.slot = "none" /\ r.step = 0 /\ r.todo = Queries(op) /\ r.sent = o.sent
        /\ r.result = o.result
    BY <2>2, <2>3, <2>4, <2>5 DEF CallRecord, Progressing
  <2>7. o.sent = 0 /\ o.result.kind = "none"
    BY <2>3 DEF Honest
  <2>8. op \in {"execute", "explain"} => PassedChecks(t)
    <3> SUFFICES ASSUME op \in {"execute", "explain"} PROVE PassedChecks(t)
      OBVIOUS
    <3>1. t = s
      BY <1>6
    <3>2. /\ s.statements = 1 /\ s.nodes \cap (MutationNodes \cup {"Lock"}) = {}
          /\ s.tables \cap SystemTables = {}
      BY <1>6 DEF IsSafeSelectQuery, Rules, ForbiddenTable, StrictlyReadOnly
    <3> QED BY <3>1, <3>2 DEF PassedChecks
  <2>9. Honest(r)
    BY <2>5, <2>6, <2>7, <2>8 DEF Honest
  <2>10. call' = [call EXCEPT ![c] = r]
    BY <1>6, <2>1, <2>2
  <2>11. r.step <= Len(Setup(r.op))
    BY <2>6, SetupFacts
  <2>12. /\ \A d \in Calls \ {c} : call'[d] = call[d]
        /\ call'[c] = r /\ call' \in [Calls -> CallRecord] /\ Honest(call'[c])
        /\ call'[c].step <= Len(Setup(call'[c].op))
    BY <1>1, <2>6, <2>9, <2>10, <2>11, Framed
  <2>13. Aside(c)
    BY <1>1, <2>6, <2>12 DEF Aside, Holding
  <2> QED BY <1>1, <2>12, <2>13, CallFacts DEF Moves
<1> QED BY <1>3, <1>4, <1>5, <1>6 DEF Start

(* A call that has met its end closes its connection. *)
LEMMA ToCloseFrame ==
    ASSUME Sound, NEW c \in Calls, NEW res \in Result, ToClose(c, res), UNCHANGED dialect,
           res.kind \notin {"rows", "too_many_rows", "forbidden", "costly", "score"},
           call[c].pc \in {"setting", "running"}
    PROVE  /\ \A d \in Calls \ {c} : call'[d] = call[d]
           /\ call' \in [Calls -> CallRecord] /\ Honest(call'[c])
           /\ call'[c].step <= Len(Setup(call'[c].op))
           /\ call'[c].pc = "closing" /\ SameCall(c)
<1>1. PICK o : o = call[c]
  OBVIOUS
<1>2. PICK r : r = [o EXCEPT !.pc = "closing", !.result = res]
  OBVIOUS
<1>3. o \in CallRecord /\ Honest(o) /\ o.step <= Len(Setup(o.op))
  BY <1>1, CallFacts
<1>4. /\ r \in CallRecord /\ r.pc = "closing" /\ r.result = res /\ r.op = o.op
      /\ r.stmt = o.stmt /\ r.slot = o.slot /\ r.step = o.step /\ r.todo = o.todo
      /\ r.sent = o.sent /\ o.todo \in Nat
  BY <1>2, <1>3 DEF CallRecord, Progressing
<1>5. Honest(r)
  BY <1>1, <1>3, <1>4, HonestEnd
<1>6. call' = [call EXCEPT ![c] = r]
  BY <1>1, <1>2 DEF ToClose
<1>7. r.step <= Len(Setup(r.op))
  BY <1>3, <1>4
<1>8. /\ \A d \in Calls \ {c} : call'[d] = call[d]
      /\ call' \in [Calls -> CallRecord] /\ Honest(call'[c])
      /\ call'[c].step <= Len(Setup(call'[c].op))
      /\ call'[c] = r
  BY <1>4, <1>5, <1>6, <1>7, Framed
<1> QED BY <1>1, <1>4, <1>8 DEF SameCall

(* A call that ends gives back its connection and keeps its result.        *)
LEMMA FinishFrame ==
    ASSUME Sound, NEW c \in Calls, NEW res \in Result, Finish(c, res), UNCHANGED dialect,
           \/ res.kind \notin {"rows", "too_many_rows", "forbidden", "costly", "score"}
           \/ res = call[c].result /\ call[c].pc = "closing",
           call[c].pc \in {"connecting", "closing"}
    PROVE  /\ \A d \in Calls \ {c} : call'[d] = call[d]
           /\ call' \in [Calls -> CallRecord] /\ Honest(call'[c])
           /\ call'[c].step <= Len(Setup(call'[c].op))
           /\ call'[c].pc = "done" /\ call'[c].slot = "none" /\ call'[c].step = 0
<1>1. PICK o : o = call[c]
  OBVIOUS
<1>2. PICK r : r = [o EXCEPT !.pc = "done", !.result = res, !.slot = "none",
                              !.step = 0, !.todo = 0]
  OBVIOUS
<1>3. o \in CallRecord /\ Honest(o)
  BY <1>1, CallFacts
<1>4. /\ r \in CallRecord /\ r.pc = "done" /\ r.result = res /\ r.op = o.op
      /\ r.stmt = o.stmt /\ r.slot = "none" /\ r.step = 0 /\ r.todo = 0
      /\ r.sent = o.sent /\ r.selected = o.selected /\ o.todo \in Nat /\ o.sent \in Nat
  BY <1>2, <1>3 DEF CallRecord, Progressing
<1>5. Honest(r)
  <2>1. CASE res.kind \notin {"rows", "too_many_rows", "forbidden", "costly", "score"}
    BY <1>1, <1>3, <1>4, <2>1, HonestEnd
  <2>2. CASE res = o.result /\ o.pc = "closing"
    <3>1. DeliversCut(o) => DeliversCut(r)
      BY <1>4, <2>2 DEF DeliversCut
    <3> QED BY <1>3, <1>4, <2>2, <3>1 DEF Honest
  <2> QED BY <1>1, <2>1, <2>2
<1>6. call' = [call EXCEPT ![c] = r]
  BY <1>1, <1>2 DEF Finish
<1>7. r.step <= Len(Setup(r.op))
  BY <1>4, SetupFacts
<1>8. /\ \A d \in Calls \ {c} : call'[d] = call[d]
      /\ call' \in [Calls -> CallRecord] /\ Honest(call'[c])
      /\ call'[c].step <= Len(Setup(call'[c].op))
      /\ call'[c] = r
  BY <1>4, <1>5, <1>6, <1>7, Framed
<1> QED BY <1>4, <1>8

(* A call that gets no connection ends without one.                        *)
LEMMA WithoutConnection ==
    ASSUME Sound, NEW c \in Calls, ConnectFails(c) \/ CancelConnecting(c)
    PROVE  Moves(c)
<1>1. call[c].pc = "connecting" /\ UNCHANGED <<dialect, slot, server>>
  BY DEF ConnectFails, CancelConnecting
<1>2. "cancelled" \in Kinds
  BY DEF Kinds
<1>3. PICK res \in Result : /\ Finish(c, res)
                            /\ res.kind \notin {"rows", "too_many_rows", "forbidden", "costly", "score"}
  BY <1>2, FailedFacts, OutcomeFacts DEF ConnectFails, CancelConnecting
<1>4. /\ \A d \in Calls \ {c} : call'[d] = call[d]
      /\ call' \in [Calls -> CallRecord] /\ Honest(call'[c])
      /\ call'[c].step <= Len(Setup(call'[c].op))
      /\ call'[c].pc = "done" /\ call'[c].slot = "none" /\ call'[c].step = 0
  BY <1>1, <1>3, FinishFrame
<1>5. Aside(c)
  BY <1>1, <1>4 DEF Aside, Holding
<1> QED BY <1>1, <1>4, <1>5, CallFacts DEF Moves

(* A connection out of the pool is of the call that took it.               *)
LEMMA CheckoutMoves ==
    ASSUME Sound, NEW c \in Calls, NEW k \in Slots, Checkout(c, k)
    PROVE  Moves(c)
<1>1. PICK o, n : o = call[c] /\ n = slot[k]
  OBVIOUS
<1>2. PICK r : r = [o EXCEPT !.pc = "setting", !.slot = k]
  OBVIOUS
<1>3. /\ o \in CallRecord /\ Honest(o) /\ o.pc = "connecting" /\ o.step <= Len(Setup(o.op))
      /\ slot \in [Slots -> Connection] /\ n \in Connection
      /\ n.state \in {"closed", "idle"} /\ UNCHANGED <<dialect, server>>
  BY <1>1, CallFacts DEF Checkout
<1>4. /\ r \in CallRecord /\ r.pc = "setting" /\ r.result = o.result /\ r.op = o.op
      /\ r.stmt = o.stmt /\ r.slot = k /\ r.step = o.step /\ r.todo = o.todo
      /\ r.sent = o.sent /\ r.selected = o.selected
  BY <1>2, <1>3 DEF CallRecord, Progressing
<1>5. Honest(r)
  BY <1>3, <1>4 DEF Honest
<1>6. call' = [call EXCEPT ![c] = r]
  BY <1>1, <1>2 DEF Checkout
<1>7. r.step <= Len(Setup(r.op))
  BY <1>3, <1>4
<1>8. /\ \A d \in Calls \ {c} : call'[d] = call[d]
      /\ call' \in [Calls -> CallRecord] /\ Honest(call'[c])
      /\ call'[c].step <= Len(Setup(call'[c].op))
      /\ call'[c] = r
  BY <1>3, <1>4, <1>5, <1>6, <1>7, Framed
<1>9. PICK g : g = IF n.state = "closed" THEN n.gen + 1 ELSE n.gen
  OBVIOUS
<1>10. PICK v : v = [n EXCEPT !.state = "held", !.gen = g]
  OBVIOUS
<1>11. g \in Nat
  BY <1>3, <1>9 DEF Connection
<1>12. /\ v \in Connection /\ v.state = "held" /\ v.gen = g /\ v.session = n.session
  BY <1>3, <1>10, <1>11 DEF Connection
<1>13. slot' = [slot EXCEPT ![k] = v]
  BY <1>1, <1>9, <1>10 DEF Checkout
<1>14. slot' \in [Slots -> Connection] /\ slot'[k] = v /\ OtherSlots(k)
  BY <1>3, <1>12, <1>13, Updated DEF OtherSlots
<1>15. Takes(c, k)
  BY <1>1, <1>3, <1>4, <1>8, <1>9, <1>12, <1>14 DEF Takes
<1> QED BY <1>3, <1>8, <1>14, <1>15, CallFacts DEF Moves

(* A setting is sent on the own connection, in order.                      *)
LEMMA SetNextMoves ==
    ASSUME Sound, NEW c \in Calls, SetNext(c)
    PROVE  Moves(c)
<1>1. PICK o, k : o = call[c] /\ k = call[c].slot
  OBVIOUS
<1>2. PICK n, q : n = slot[k] /\ q = Setup(o.op)
  OBVIOUS
<1>3. /\ o \in CallRecord /\ Honest(o) /\ o.pc = "setting" /\ k \in Slots
      /\ slot \in [Slots -> Connection] /\ n \in Connection
      /\ UNCHANGED <<dialect, server>>
  BY <1>1, <1>2, CallFacts DEF SetNext, Holding
<1>4. /\ o.step \in Nat /\ Len(q) \in Nat /\ o.step + 1 <= Len(q)
  BY <1>1, <1>2, <1>3, SetupFacts DEF SetNext, CallRecord
<1>5. q[o.step + 1][1] \in Settings /\ q[o.step + 1][2] \in Values
  BY <1>2, <1>4, SetupFacts
<1>6. PICK r : r = [o EXCEPT !.step = o.step + 1]
  OBVIOUS
<1>7. /\ r \in CallRecord /\ r.pc = o.pc /\ r.result = o.result /\ r.op = o.op
      /\ r.stmt = o.stmt /\ r.slot = o.slot /\ r.step = o.step + 1 /\ r.todo = o.todo
      /\ r.sent = o.sent /\ r.selected = o.selected
  BY <1>3, <1>4, <1>6, SMTT(30) DEF CallRecord
<1>8. Honest(r)
  BY <1>3, <1>7 DEF Honest
<1>9. call' = [call EXCEPT ![c] = r]
  BY <1>1, <1>6 DEF SetNext
<1>10. r.step <= Len(Setup(r.op))
  BY <1>2, <1>4, <1>7
<1>11. /\ \A d \in Calls \ {c} : call'[d] = call[d]
      /\ call' \in [Calls -> CallRecord] /\ Honest(call'[c])
      /\ call'[c].step <= Len(Setup(call'[c].op))
      /\ call'[c] = r
  BY <1>3, <1>7, <1>8, <1>9, <1>10, Framed
<1>12. PICK t : t = [n.session EXCEPT ![q[o.step + 1][1]] = q[o.step + 1][2]]
  OBVIOUS
<1>13. PICK v : v = [n EXCEPT !.session = t]
  OBVIOUS
<1>14. t \in [Settings -> Values]
  <2>1. n.session \in [Settings -> Values]
    BY <1>3 DEF Connection
  <2> QED BY <1>5, <1>12, <2>1
<1>15. /\ v \in Connection /\ v.state = n.state /\ v.gen = n.gen /\ v.session = t
  BY <1>3, <1>13, <1>14 DEF Connection
<1>16. slot' = [slot EXCEPT ![k] = v]
  BY <1>1, <1>2, <1>12, <1>13 DEF SetNext
<1>17. slot' \in [Slots -> Connection] /\ slot'[k] = v /\ OtherSlots(k)
  BY <1>3, <1>15, <1>16, Updated DEF OtherSlots
<1>18. Sets(c, k)
  <2>1. /\ call[c].slot = k /\ call[c].pc = "setting" /\ call'[c].pc = "setting"
        /\ call'[c].slot = k /\ call'[c].op = call[c].op /\ call'[c].step = call[c].step + 1
    BY <1>1, <1>3, <1>7, <1>11
  <2>2. call[c].step < Len(Setup(call[c].op))
    BY <1>1, <1>2, <1>4
  <2>3. slot'[k].session = [slot[k].session EXCEPT ![Setup(call[c].op)[call[c].step + 1][1]] =
                                                     Setup(call[c].op)[call[c].step + 1][2]]
    <3>1. slot'[k].session = t
      BY <1>15, <1>17
    <3> QED BY <1>1, <1>2, <1>12, <3>1
  <2>4. slot'[k].state = slot[k].state /\ slot'[k].gen = slot[k].gen
    BY <1>2, <1>15, <1>17
  <2> QED BY <1>3, <1>17, <2>1, <2>2, <2>3, <2>4 DEF Sets
<1> QED BY <1>3, <1>11, <1>17, <1>18, CallFacts DEF Moves

(* The query is sent, and answered or not. *)
LEMMA SendMoves ==
    ASSUME Sound, NEW c \in Calls, Send(c)
    PROVE  Moves(c)
<1>1. PICK o, k : o = call[c] /\ k = call[c].slot
  OBVIOUS
<1>2. /\ o \in CallRecord /\ Honest(o) /\ o.pc = "setting" /\ k \in Slots
      /\ o.step = Len(Setup(o.op)) /\ o.todo > 0
      /\ slot \in [Slots -> Connection] /\ UNCHANGED <<dialect, slot>>
      /\ server \in [Calls -> Query \cup {Idle}]
  BY <1>1, CallFacts DEF Send, Holding
<1>3. o.todo \in Nat /\ o.todo - 1 \in Nat /\ o.sent \in Nat /\ o.sent + 1 \in Nat
      /\ o.step \in Nat
  BY <1>2 DEF CallRecord
<1>4. PICK m, n : m = o.todo - 1 /\ n = o.sent + 1
  OBVIOUS
<1>5. PICK r : r = [o EXCEPT !.pc = "running", !.todo = m, !.sent = n]
  OBVIOUS
<1>6. /\ r \in CallRecord /\ r.pc = "running" /\ r.result = o.result /\ r.op = o.op
      /\ r.stmt = o.stmt /\ r.slot = o.slot /\ r.step = o.step /\ r.todo = m
      /\ r.sent = n /\ r.selected = o.selected
  BY <1>2, <1>3, <1>4, <1>5 DEF CallRecord, Progressing
<1>7. Honest(r)
  BY <1>2, <1>3, <1>4, <1>6 DEF Honest
<1>8. call' = [call EXCEPT ![c] = r]
  BY <1>1, <1>4, <1>5 DEF Send
<1>9. r.step <= Len(Setup(r.op))
  BY <1>2, <1>3, <1>6
<1>10. /\ \A d \in Calls \ {c} : call'[d] = call[d]
      /\ call' \in [Calls -> CallRecord] /\ Honest(call'[c])
      /\ call'[c].step <= Len(Setup(call'[c].op))
      /\ call'[c] = r
  BY <1>2, <1>6, <1>7, <1>8, <1>9, Framed
<1>11. PICK b : b = (slot[k].session["statement_timeout"] = "set")
  OBVIOUS
<1>12. PICK v : v = [conn |-> <<k, slot[k].gen>>, bounded |-> b]
  OBVIOUS
<1>13. v \in Query /\ v.conn = <<k, slot[k].gen>> /\ v # Idle
  <2>1. slot[k].gen \in Nat /\ b \in BOOLEAN /\ <<k, slot[k].gen>> # <<>>
    BY <1>2, <1>11 DEF Connection
  <2> QED BY <1>2, <1>12, <2>1 DEF Query, Idle
<1>14. server' = [server EXCEPT ![c] = v]
  BY <1>1, <1>11, <1>12 DEF Send
<1>15. /\ server' \in [Calls -> Query \cup {Idle}] /\ server'[c] = v
       /\ \A d \in Calls \ {c} : server'[d] = server[d]
  BY <1>2, <1>13, <1>14, Updated
<1>16. Sends(c, k)
  BY <1>1, <1>2, <1>6, <1>10, <1>13, <1>15 DEF Sends, SameCall
<1> QED BY <1>2, <1>10, <1>15, <1>16, CallFacts DEF Moves

(* The server is done with one query.                                      *)
LEMMA ServedFacts ==
    ASSUME Sound, NEW c \in Calls, server' = [server EXCEPT ![c] = Idle]
    PROVE  /\ server' \in [Calls -> Query \cup {Idle}] /\ server'[c] = Idle
           /\ \A d \in Calls \ {c} : server'[d] = server[d]
BY CallFacts

(* A bounded sequence is a sequence.                                       *)
LEMMA BoundedSequences ==
    ASSUME NEW m \in Nat, NEW n \in Nat, NEW q \in BoundedSeq(Rows, Min({m, n}))
    PROVE  q \in Seq(Rows) /\ Len(q) \in Nat /\ Len(q) <= m
<1>1. PICK k \in Nat : k = Min({m, n}) /\ k <= m
  BY Minimum
<1>2. q \in BoundedSeq(Rows, k)
  BY <1>1
<1> QED BY <1>1, <1>2 DEF BoundedSeq, SeqOf

(* The number of rows at which a statement is cut. *)
Cap(s) ==
    IF s.fetch < 0 /\ s.limits = <<>> THEN Min({DefaultLimit, MaxRowLimit}) ELSE MaxRowLimit

(* _ensure_limit found the bound of the whole statement, or gave it one.   *)
LEMMA OuterFound ==
    ASSUME NEW s \in Statements, ~MissesOuter(s)
    PROVE  LET b == OuterBound(EnsureLimit(s)) IN
           /\ b <= MaxRowLimit
           /\ \/ b = Cap(s)
              \/ b = OuterBound(s) /\ b <= Cap(s)
<1>1. /\ s \in Statement
      /\ s.outer = "fetch" => s.fetch >= 0
      /\ s.outer = "limit" => s.limits # <<>>
      /\ s.fetch \in Nat \cup {-1} /\ s.limits \in Seq(Nat) /\ MaxRowLimit \in Nat
      /\ DefaultLimit \in Nat
  BY ExecutionAssumption DEF Statement
<1>2. PICK e : e = EnsureLimit(s)
  OBVIOUS
<1>3. CASE s.fetch >= 0
  <2>1. s.outer = "fetch" /\ s.fetch \in Nat
    BY <1>1, <1>3 DEF MissesOuter
  <2>2. PICK n : n = Min({s.fetch, MaxRowLimit})
    OBVIOUS
  <2>3. n \in Nat /\ n = IF s.fetch <= MaxRowLimit THEN s.fetch ELSE MaxRowLimit
    BY <1>1, <2>1, <2>2, Minimum
  <2>4. PICK q : q = Append(s.limits, n)
    OBVIOUS
  <2>5. q \in Seq(Nat) /\ Last(q) = n
    BY <1>1, <2>3, <2>4 DEF Last
  <2>6. e = [s EXCEPT !.fetch = -1, !.limits = q, !.outer = "limit"]
    BY <1>2, <1>3, <2>1, <2>2, <2>4 DEF EnsureLimit
  <2>7. e.outer = "limit" /\ e.limits = q
    BY <1>1, <2>6 DEF Statement
  <2>8. OuterBound(e) = n /\ OuterBound(s) = s.fetch
    BY <2>1, <2>5, <2>7 DEF OuterBound
  <2>9. Cap(s) = MaxRowLimit
    BY <1>3, <2>1 DEF Cap
  <2> QED BY <1>1, <1>2, <2>1, <2>3, <2>8, <2>9
<1>4. CASE ~(s.fetch >= 0) /\ s.limits # <<>>
  <2>1. s.outer = "limit" /\ Len(s.limits) = 1 /\ s.limits[1] \in Nat
    BY <1>1, <1>4 DEF MissesOuter
  <2>2. PICK n : n = Min({s.limits[1], MaxRowLimit})
    OBVIOUS
  <2>3. n \in Nat /\ n = IF s.limits[1] <= MaxRowLimit THEN s.limits[1] ELSE MaxRowLimit
    BY <1>1, <2>1, <2>2, Minimum
  <2>4. PICK q : q = [s.limits EXCEPT ![1] = n]
    OBVIOUS
  <2>5. q \in Seq(Nat) /\ Last(q) = n /\ Last(s.limits) = s.limits[1]
    BY <1>1, <2>1, <2>3, <2>4 DEF Last
  <2>6. e = [s EXCEPT !.limits = q]
    BY <1>2, <1>4, <2>2, <2>4 DEF EnsureLimit
  <2>7. e.outer = "limit" /\ e.limits = q
    BY <1>1, <2>1, <2>6 DEF Statement
  <2>8. OuterBound(e) = n /\ OuterBound(s) = s.limits[1]
    BY <2>1, <2>5, <2>7 DEF OuterBound
  <2>9. Cap(s) = MaxRowLimit
    BY <1>4 DEF Cap
  <2> QED BY <1>1, <1>2, <2>1, <2>3, <2>8, <2>9
<1>5. CASE ~(s.fetch >= 0) /\ s.limits = <<>>
  <2>1. PICK n : n = Min({DefaultLimit, MaxRowLimit})
    OBVIOUS
  <2>2. n \in Nat /\ n <= MaxRowLimit
    BY <1>1, <2>1, Minimum
  <2>3. e = [s EXCEPT !.limits = <<n>>, !.outer = "limit"]
    BY <1>2, <1>5, <2>1 DEF EnsureLimit
  <2>4. e.outer = "limit" /\ e.limits = <<n>> /\ Last(<<n>>) = n
    BY <1>1, <2>3 DEF Statement, Last
  <2>5. OuterBound(e) = n
    BY <2>4 DEF OuterBound
  <2>6. Cap(s) = n
    BY <1>1, <1>5, <2>1 DEF Cap
  <2> QED BY <1>2, <2>2, <2>5, <2>6
<1> QED BY <1>3, <1>4, <1>5

(* It found the bound of a subquery, and left it: the whole is unchanged.  *)
LEMMA OuterMissed ==
    ASSUME NEW s \in Statements, MissesOuter(s), ~ClampsInner(s)
    PROVE  OuterBound(EnsureLimit(s)) = OuterBound(s) /\ Cap(s) = MaxRowLimit
<1>1. /\ s \in Statement
      /\ s.outer = "fetch" => s.fetch >= 0
      /\ s.outer = "limit" => s.limits # <<>>
      /\ s.fetch \in Nat \cup {-1} /\ s.limits \in Seq(Nat) /\ MaxRowLimit \in Nat
  BY ExecutionAssumption DEF Statement
<1>2. PICK e : e = EnsureLimit(s)
  OBVIOUS
<1>3. CASE s.fetch >= 0
  <2>1. s.outer # "fetch" /\ s.fetch \in Nat
    BY <1>1, <1>3 DEF MissesOuter
  <2>2. PICK n \in Nat : n = Min({s.fetch, MaxRowLimit})
    BY <1>1, <2>1, Minimum
  <2>3. PICK q : q = <<n>> \o s.limits
    OBVIOUS
  <2>4. s.limits # <<>> => Last(q) = Last(s.limits)
    BY <1>1, <2>2, <2>3 DEF Last
  <2>5. e = [s EXCEPT !.fetch = -1, !.limits = q]
    BY <1>2, <1>3, <2>1, <2>2, <2>3 DEF EnsureLimit
  <2>6. e.outer = s.outer /\ e.limits = q
    BY <1>1, <2>5 DEF Statement
  <2>7. OuterBound(e) = OuterBound(s)
    BY <1>1, <2>1, <2>4, <2>6 DEF OuterBound
  <2> QED BY <1>2, <1>3, <2>1, <2>7 DEF Cap
<1>4. CASE ~(s.fetch >= 0)
  <2>1. s.limits # <<>> /\ s.limits[1] \in Nat /\ s.limits[1] <= MaxRowLimit
    BY <1>1, <1>4 DEF MissesOuter, ClampsInner
  <2>2. Min({s.limits[1], MaxRowLimit}) = s.limits[1]
    BY <1>1, <2>1, Minimum
  <2>3. PICK q : q = [s.limits EXCEPT ![1] = s.limits[1]]
    OBVIOUS
  <2>4. Last(q) = Last(s.limits)
    BY <1>1, <2>1, <2>3 DEF Last
  <2>5. e = [s EXCEPT !.limits = q]
    BY <1>2, <1>4, <2>1, <2>2, <2>3 DEF EnsureLimit
  <2>6. e.outer = s.outer /\ e.limits = q
    BY <1>1, <2>5 DEF Statement
  <2>7. s.outer # "fetch"
    BY <1>1, <1>4
  <2>8. OuterBound(e) = OuterBound(s)
    BY <2>4, <2>6, <2>7 DEF OuterBound
  <2> QED BY <1>2, <2>1, <2>8 DEF Cap
<1> QED BY <1>3, <1>4

(* What the server answers is a prefix of what the statement as asked      *)
(* selects, cut at the cap, unless the bound of a subquery was changed;    *)
(* more than MAX_ROW_LIMIT rows come only when the outer bound was missed. *)
LEMMA AnswerFacts ==
    ASSUME NEW s \in Statements, NEW selected \in Selections(s),
           NEW raw \in Answers(s, selected)
    PROVE  /\ raw \in Seq(Rows) /\ selected \in Seq(Rows)
           /\ Len(raw) <= MaxRowLimit /\ ~ClampsInner(s) => raw = Cut(s, selected)
           /\ Len(raw) > MaxRowLimit => MissesOuter(s)
<1>1. PICK a \in Nat, b \in Nat : a = OuterBound(s) /\ b = OuterBound(EnsureLimit(s))
  BY BothBounds
<1>2. MaxSelected \in Nat /\ MaxRowLimit \in Nat /\ DefaultLimit \in Nat
  BY ExecutionAssumption
<1>3. selected \in Seq(Rows) /\ Len(selected) \in Nat /\ Len(selected) <= a
  BY <1>1, <1>2, BoundedSequences DEF Selections
<1>4. CASE ClampsInner(s)
  <2>1. raw \in Selections(EnsureLimit(s))
    BY <1>4 DEF Answers
  <2>2. raw \in Seq(Rows)
    BY <1>1, <1>2, <2>1, BoundedSequences DEF Selections
  <2> QED BY <1>3, <1>4, <2>2 DEF ClampsInner
<1>5. CASE ~ClampsInner(s)
  <2>1. PICK m : m = Min({Len(selected), b})
    OBVIOUS
  <2>2. m \in Nat /\ m = IF Len(selected) <= b THEN Len(selected) ELSE b
    BY <1>1, <1>3, <2>1, Minimum
  <2>3. raw = SubSeq(selected, 1, m)
    BY <1>1, <1>5, <2>1 DEF Answers
  <2>4. raw \in Seq(Rows) /\ Len(raw) = m
    <3>1. m <= Len(selected)
      BY <1>1, <1>3, <2>2
    <3>2. m \in Nat /\ selected \in Seq(Rows)
      BY <1>3, <2>2
    <3>3. SubSeq(selected, 1, m) \in Seq(Rows) /\ Len(SubSeq(selected, 1, m)) = m
      BY <3>1, <3>2
    <3> QED BY <2>3, <3>3
  <2>5. PICK cap : cap = Cap(s)
    OBVIOUS
  <2>6. cap \in Nat
    BY <1>2, <2>5, Minimum DEF Cap
  <2>7. PICK n : n = Min({Len(selected), cap})
    OBVIOUS
  <2>8. n = IF Len(selected) <= cap THEN Len(selected) ELSE cap
    BY <1>3, <2>6, <2>7, Minimum
  <2>9. Cut(s, selected) = SubSeq(selected, 1, n)
    BY <2>5, <2>7 DEF Cut, Cap
  <2>10. CASE ~MissesOuter(s)
    <3>1. b <= MaxRowLimit /\ (b = cap \/ (b = a /\ b <= cap))
      BY <1>1, <2>5, <2>10, OuterFound
    <3>2. n = m
      BY <1>1, <1>3, <2>2, <2>6, <2>8, <3>1
    <3>3. Len(raw) <= MaxRowLimit
      BY <1>1, <1>2, <1>3, <2>2, <2>4, <3>1
    <3> QED BY <1>2, <1>3, <2>3, <2>4, <2>9, <3>2, <3>3
  <2>11. CASE MissesOuter(s)
    <3>1. b = a /\ cap = MaxRowLimit
      BY <1>1, <1>5, <2>5, <2>11, OuterMissed
    <3>2. m = Len(selected)
      BY <1>1, <1>3, <2>2, <3>1
    <3>3. Len(raw) <= MaxRowLimit => n = m
      BY <1>3, <2>4, <2>8, <3>1, <3>2
    <3> QED BY <1>3, <2>3, <2>4, <2>9, <2>11, <3>3
  <2> QED BY <2>10, <2>11
<1> QED BY <1>4, <1>5

(* An answer ends a query and is recorded as the operation does.           *)
LEMMA AnswerMoves ==
    ASSUME Sound, NEW c \in Calls, Answer(c)
    PROVE  Moves(c)
<1>1. PICK o : o = call[c]
  OBVIOUS
<1>2. /\ o \in CallRecord /\ Honest(o) /\ o.pc = "running" /\ o.step <= Len(Setup(o.op))
      /\ UNCHANGED <<dialect, slot>> /\ server' = [server EXCEPT ![c] = Idle]
      /\ o.todo \in Nat /\ o.sent \in Nat
  BY <1>1, CallFacts DEF Answer, Served, CallRecord
<1>3. /\ server' \in [Calls -> Query \cup {Idle}] /\ server'[c] = Idle
      /\ \A d \in Calls \ {c} : server'[d] = server[d]
  BY <1>2, ServedFacts
<1>4. ASSUME /\ \A d \in Calls \ {c} : call'[d] = call[d]
             /\ call' \in [Calls -> CallRecord] /\ Honest(call'[c])
             /\ call'[c].step <= Len(Setup(call'[c].op))
             /\ call'[c].pc \in {"setting", "closing"} /\ SameCall(c)
      PROVE  Moves(c)
  <2>1. Ends(c)
    BY <1>1, <1>2, <1>3, <1>4 DEF Ends
  <2> QED BY <1>2, <1>3, <1>4, <2>1, CallFacts DEF Moves
<1>5. ASSUME call[c].op = "execute", NEW selected \in Selections(call[c].stmt),
             NEW raw \in Answers(call[c].stmt, selected), NEW out, NEW w,
             out = ExecuteOutcome(raw), w = (IF out.kind = "rows" THEN selected ELSE <<>>),
             call' = [call EXCEPT ![c] =
                        [call[c] EXCEPT !.pc = "closing", !.result = out, !.selected = w]]
      PROVE  Moves(c)
  <2>1. o.op = "execute" /\ o.sent = 1 /\ PassedChecks(o.stmt)
    BY <1>1, <1>2, <1>5 DEF Honest
  <2>2. /\ raw \in Seq(Rows) /\ selected \in Seq(Rows)
        /\ Len(raw) <= MaxRowLimit /\ ~ClampsInner(o.stmt) => raw = Cut(o.stmt, selected)
        /\ Len(raw) > MaxRowLimit => MissesOuter(o.stmt)
    BY <1>1, <1>5, <2>1, AnswerFacts DEF PassedChecks
  <2>3. /\ out \in Result /\ out.kind \in {"too_many_rows", "too large", "rows"}
        /\ out.kind = "rows" => Len(raw) <= MaxRowLimit /\ out.rows = Deliver(raw)
        /\ out.kind = "too_many_rows" => Len(raw) > MaxRowLimit
    BY <1>5, <2>2, ExecuteFacts
  <2>4. w \in Seq(Rows) /\ (out.kind = "rows" => w = selected)
    BY <1>5, <2>2
  <2>5. PICK r : r = [o EXCEPT !.pc = "closing", !.result = out, !.selected = w]
    OBVIOUS
  <2>6. /\ r \in CallRecord /\ r.pc = "closing" /\ r.result = out /\ r.op = o.op
        /\ r.stmt = o.stmt /\ r.slot = o.slot /\ r.step = o.step /\ r.todo = o.todo
        /\ r.sent = o.sent /\ r.selected = w
    BY <1>2, <2>3, <2>4, <2>5 DEF CallRecord, Progressing
  <2>a. out.kind = "rows" => DeliversCut(r)
    BY <2>2, <2>3, <2>4, <2>6 DEF DeliversCut
  <2>b. out.kind = "too_many_rows" => MissesOuter(r.stmt)
    BY <2>2, <2>3, <2>6
  <2>7. Honest(r)
    BY <1>2, <2>1, <2>3, <2>6, <2>a, <2>b DEF Honest
  <2>8. call' = [call EXCEPT ![c] = r]
    BY <1>1, <1>5, <2>5
  <2>9. r.step <= Len(Setup(r.op))
    BY <1>2, <2>6
  <2>10. /\ \A d \in Calls \ {c} : call'[d] = call[d]
        /\ call' \in [Calls -> CallRecord] /\ Honest(call'[c])
        /\ call'[c].step <= Len(Setup(call'[c].op))
        /\ call'[c] = r
    BY <1>2, <2>6, <2>7, <2>8, <2>9, Framed
  <2>11. call'[c].pc \in {"setting", "closing"} /\ SameCall(c)
    BY <1>1, <2>6, <2>10 DEF SameCall
  <2> QED BY <1>4, <2>10, <2>11
<1>6. ASSUME call' = [call EXCEPT ![c] = [call[c] EXCEPT !.pc = "setting"]]
      PROVE  Moves(c)
  <2>1. PICK r : r = [o EXCEPT !.pc = "setting"]
    OBVIOUS
  <2>2. /\ r \in CallRecord /\ r.pc = "setting" /\ r.result = o.result /\ r.op = o.op
        /\ r.stmt = o.stmt /\ r.slot = o.slot /\ r.step = o.step /\ r.todo = o.todo
        /\ r.sent = o.sent /\ r.selected = o.selected
    BY <1>2, <2>1 DEF CallRecord, Progressing
  <2>3. Honest(r)
    BY <1>2, <2>2 DEF Honest
  <2>4. call' = [call EXCEPT ![c] = r]
    BY <1>1, <1>6, <2>1
  <2>5. r.step <= Len(Setup(r.op))
    BY <1>2, <2>2
  <2>6. /\ \A d \in Calls \ {c} : call'[d] = call[d]
        /\ call' \in [Calls -> CallRecord] /\ Honest(call'[c])
        /\ call'[c].step <= Len(Setup(call'[c].op))
        /\ call'[c] = r
    BY <1>2, <2>2, <2>3, <2>4, <2>5, Framed
  <2>7. call'[c].pc \in {"setting", "closing"} /\ SameCall(c)
    BY <1>1, <2>2, <2>6 DEF SameCall
  <2> QED BY <1>4, <2>6, <2>7
<1>7. ASSUME ToClose(c, Outcome("ok"))
      PROVE  Moves(c)
  <2>1. "ok" \in Kinds
    BY DEF Kinds
  <2>2. Outcome("ok") \in Result /\ Outcome("ok").kind = "ok"
    BY <2>1, OutcomeFacts
  <2>3. /\ \A d \in Calls \ {c} : call'[d] = call[d]
        /\ call' \in [Calls -> CallRecord] /\ Honest(call'[c])
        /\ call'[c].step <= Len(Setup(call'[c].op))
        /\ call'[c].pc = "closing" /\ SameCall(c)
    BY <1>1, <1>2, <1>7, <2>2, ToCloseFrame
  <2> QED BY <1>4, <2>3
<1>8. CASE call[c].op = "execute"
  <2>1. PICK selected \in Selections(call[c].stmt) : \E raw \in Answers(call[c].stmt, selected) :
            call' = [call EXCEPT ![c] =
                [call[c] EXCEPT !.pc = "closing", !.result = ExecuteOutcome(raw),
                     !.selected = IF ExecuteOutcome(raw).kind = "rows" THEN selected ELSE <<>>]]
    BY <1>8 DEF Answer
  <2>a. PICK raw \in Answers(call[c].stmt, selected) :
            call' = [call EXCEPT ![c] =
                [call[c] EXCEPT !.pc = "closing", !.result = ExecuteOutcome(raw),
                     !.selected = IF ExecuteOutcome(raw).kind = "rows" THEN selected ELSE <<>>]]
    BY <2>1
  <2>2. PICK out : out = ExecuteOutcome(raw)
    OBVIOUS
  <2>3. PICK w : w = IF out.kind = "rows" THEN selected ELSE <<>>
    OBVIOUS
  <2>4. call' = [call EXCEPT ![c] =
                   [call[c] EXCEPT !.pc = "closing", !.result = out, !.selected = w]]
    BY <2>a, <2>2, <2>3
  <2> QED BY <1>5, <1>8, <2>2, <2>3, <2>4
<1>9. CASE call[c].op # "execute"
  BY <1>6, <1>7, <1>9 DEF Answer
<1> QED BY <1>8, <1>9

(* A failing setting, EXPLAIN or query ends the call with the failure.     *)
LEMMA NoAnswer ==
    ASSUME Sound, NEW c \in Calls, SetFails(c) \/ ExplainUnsupported(c) \/ ServerError(c)
    PROVE  Moves(c)
<1>1. "unsupported" \in Kinds
  BY DEF Kinds
<1>2. PICK res \in Result : /\ ToClose(c, res)
                            /\ res.kind \notin {"rows", "too_many_rows", "forbidden", "costly", "score"}
  BY <1>1, FailedFacts, OutcomeFacts DEF SetFails, ExplainUnsupported, ServerError
<1>3. /\ UNCHANGED <<dialect, slot>>
      /\ \/ call[c].pc = "setting" /\ UNCHANGED server
         \/ call[c].pc = "running" /\ server' = [server EXCEPT ![c] = Idle]
  BY DEF SetFails, ExplainUnsupported, ServerError, Served
<1>4. /\ \A d \in Calls \ {c} : call'[d] = call[d]
      /\ call' \in [Calls -> CallRecord] /\ Honest(call'[c])
      /\ call'[c].step <= Len(Setup(call'[c].op))
      /\ call'[c].pc = "closing" /\ SameCall(c)
  BY <1>2, <1>3, ToCloseFrame
<1>5. CASE call[c].pc = "setting" /\ UNCHANGED server
  <2>1. Ends(c)
    BY <1>3, <1>4, <1>5 DEF Ends
  <2> QED BY <1>3, <1>4, <1>5, <2>1, CallFacts DEF Moves
<1>6. CASE call[c].pc = "running" /\ server' = [server EXCEPT ![c] = Idle]
  <2>1. /\ server' \in [Calls -> Query \cup {Idle}] /\ server'[c] = Idle
        /\ \A d \in Calls \ {c} : server'[d] = server[d]
    BY <1>6, ServedFacts
  <2>2. Ends(c)
    BY <1>3, <1>4, <1>6, <2>1 DEF Ends
  <2> QED BY <1>3, <1>4, <2>1, <2>2, CallFacts DEF Moves
<1> QED BY <1>3, <1>5, <1>6

(* A call interrupted in execute leaves an orphan and an invalid           *)
(* connection.                                                             *)
LEMMA Interrupted ==
    ASSUME Sound, NEW c \in Calls, ClientTimeout(c) \/ Cancel(c)
    PROVE  Moves(c)
<1>1. "timeout" \in Kinds /\ "cancelled" \in Kinds
  BY DEF Kinds
<1>2. PICK res \in Result : /\ ToClose(c, res)
                            /\ res.kind \notin {"rows", "too_many_rows", "forbidden", "costly", "score"}
  BY <1>1, OutcomeFacts DEF ClientTimeout, Cancel
<1>3. PICK k : k = call[c].slot
  OBVIOUS
<1>4. /\ UNCHANGED <<dialect, server>> /\ call[c].pc \in {"setting", "running"}
      /\ Invalidate(k)
  BY <1>3 DEF ClientTimeout, Cancel
<1>5. /\ \A d \in Calls \ {c} : call'[d] = call[d]
      /\ call' \in [Calls -> CallRecord] /\ Honest(call'[c])
      /\ call'[c].step <= Len(Setup(call'[c].op))
      /\ call'[c].pc = "closing" /\ SameCall(c)
  BY <1>2, <1>4, ToCloseFrame
<1>6. k \in Slots /\ slot \in [Slots -> Connection] /\ slot[k] \in Connection
  BY <1>3, <1>4, CallFacts DEF Holding
<1>7. PICK v : v = [slot[k] EXCEPT !.state = "invalid", !.session = DefaultSession]
  OBVIOUS
<1>8. DefaultSession \in [Settings -> Values]
  BY DEF DefaultSession, Values
<1>9. v \in Connection /\ v.state = "invalid" /\ v.gen = slot[k].gen
  BY <1>6, <1>7, <1>8 DEF Connection
<1>10. slot' = [slot EXCEPT ![k] = v]
  BY <1>4, <1>7 DEF Invalidate
<1>11. slot' \in [Slots -> Connection] /\ slot'[k] = v /\ OtherSlots(k)
  BY <1>6, <1>9, <1>10, Updated DEF OtherSlots
<1>12. Drops(c, k)
  BY <1>3, <1>4, <1>5, <1>9, <1>11 DEF Drops
<1> QED BY <1>4, <1>5, <1>6, <1>11, <1>12, CallFacts DEF Moves

(* Leaving the context manager rolls back or discards the connection.      *)
LEMMA CloseMoves ==
    ASSUME Sound, NEW c \in Calls, Close(c) \/ CloseFails(c)
    PROVE  Moves(c)
<1>1. PICK k : k = call[c].slot
  OBVIOUS
<1>2. /\ call[c].pc = "closing" /\ UNCHANGED <<dialect, server>>
      /\ call[c] \in CallRecord
  BY CallFacts DEF Close, CloseFails
<1>3. PICK res \in Result :
          /\ Finish(c, res)
          /\ \/ res.kind \notin {"rows", "too_many_rows", "forbidden", "costly", "score"}
             \/ res = call[c].result /\ call[c].pc = "closing"
  BY <1>2, FailedFacts DEF Close, CloseFails, CallRecord
<1>4. /\ \A d \in Calls \ {c} : call'[d] = call[d]
      /\ call' \in [Calls -> CallRecord] /\ Honest(call'[c])
      /\ call'[c].step <= Len(Setup(call'[c].op))
      /\ call'[c].pc = "done" /\ call'[c].slot = "none" /\ call'[c].step = 0
  BY <1>2, <1>3, FinishFrame
<1>5. k \in Slots /\ slot \in [Slots -> Connection] /\ slot[k] \in Connection
  BY <1>1, <1>2, CallFacts DEF Holding
<1>6. DefaultSession \in [Settings -> Values]
  BY DEF DefaultSession, Values
<1>7. PICK st : /\ st = "closed" \/ (st = "idle" /\ slot[k].state = "held")
                /\ slot' = [slot EXCEPT ![k] =
                       [slot[k] EXCEPT !.state = st, !.session = DefaultSession]]
  BY <1>1 DEF Close, CloseFails, Returned
<1>8. PICK v : v = [slot[k] EXCEPT !.state = st, !.session = DefaultSession]
  OBVIOUS
<1>9. v \in Connection /\ v.state = st /\ v.gen = slot[k].gen /\ v.session = DefaultSession
  BY <1>5, <1>6, <1>7, <1>8 DEF Connection
<1>10. slot' \in [Slots -> Connection] /\ slot'[k] = v /\ OtherSlots(k)
  BY <1>5, <1>7, <1>8, <1>9, Updated DEF OtherSlots
<1>11. Frees(c, k)
  BY <1>1, <1>2, <1>4, <1>7, <1>9, <1>10 DEF Frees
<1> QED BY <1>2, <1>4, <1>5, <1>10, <1>11, CallFacts DEF Moves

(* statement_timeout ends an orphan.                                       *)
LEMMA OrphanMoves ==
    ASSUME Sound, NEW c \in Calls, OrphanEnds(c)
    PROVE  Moves(c)
<1>1. /\ call[c].pc # "running" /\ server' = [server EXCEPT ![c] = Idle]
      /\ UNCHANGED <<dialect, call, slot>>
  BY DEF OrphanEnds
<1>2. /\ server' \in [Calls -> Query \cup {Idle}] /\ server'[c] = Idle
      /\ \A d \in Calls \ {c} : server'[d] = server[d]
  BY <1>1, ServedFacts
<1>3. Orphaned(c)
  BY <1>1, <1>2 DEF Orphaned
<1>4. call'[c] = call[c]
  BY <1>1
<1> QED BY <1>1, <1>2, <1>3, <1>4, CallFacts DEF Moves

(* Every step is a move of one call: it changes that call and its          *)
(* connection only.                                                        *)
LEMMA EveryStepMoves ==
    ASSUME Sound, Next
    PROVE  \E c \in Calls : Moves(c)
BY StartMoves, WithoutConnection, CheckoutMoves, SetNextMoves, SendMoves, AnswerMoves,
   NoAnswer, Interrupted, CloseMoves, OrphanMoves
   DEF Next, Step, ServerTimeout, OrphanTimeout
-----------------------------------------------------------------------------
(* The invariants, class of steps by class of steps.                       *)

(* Moves keep the types and the honesty of results.                        *)
LEMMA TypedStep ==
    ASSUME Sound, NEW c \in Calls, Moves(c)
    PROVE  Typed' /\ CallsHonest'
<1>1. \A d \in Calls : call'[d] = call[d] \/ d = c
  BY DEF Moves
<1>2. ASSUME NEW op PROVE Setup(op)' = Setup(op)
  BY DEF Moves, Setup
<1>3. \A d \in Calls : call'[d].step <= Len(Setup(call'[d].op))
  BY <1>1 DEF Moves, Sound, Typed
<1>4. \A d \in Calls : (call[d].step <= Len(Setup(call[d].op)))'
  BY <1>3 DEF Moves, Setup
<1>5. Typed'
  BY <1>4 DEF Moves, Sound, Typed
<1>6. \A d \in Calls : Honest(call'[d])
  BY <1>1 DEF Moves, Sound, CallsHonest
<1>7. CallsHonest'
  BY <1>6 DEF CallsHonest, Honest, PassedChecks
<1> QED BY <1>5, <1>7

(* Moves keep connections and the calls that hold them paired.             *)
LEMMA HeldStep ==
    ASSUME Sound, NEW c \in Calls, Moves(c)
    PROVE  Held'
<1>1. /\ \A d \in Calls \ {c} : call'[d] = call[d]
      /\ "none" \notin Slots
      /\ \A d \in Calls : call[d].slot \in Slots \cup {"none"}
      /\ \A k \in Slots : slot[k].state \in {"closed", "idle", "held", "invalid"}
  BY ExecutionAssumption DEF Moves, Sound, Typed, CallRecord, Connection
<1>2. Held
  BY DEF Sound
<1>3. CASE Aside(c)
  <2>1. call[c].slot = "none" /\ call'[c].slot = "none" /\ call'[c].pc \notin Holding
    BY <1>1, <1>2, <1>3 DEF Aside, Held, Holding
  <2> QED BY <1>1, <1>2, <1>3, <2>1 DEF Aside, Held, Holding
<1>4. CASE Ends(c)
  BY <1>1, <1>2, <1>4 DEF Ends, SameCall, Held, Holding
<1>5. CASE Orphaned(c)
  BY <1>2, <1>5 DEF Orphaned, Held
<1>6. ASSUME NEW k \in Slots, Takes(c, k) PROVE Held'
  <2>1. call[c].slot = "none" /\ \A d \in Calls : call[d].slot # k
    BY <1>1, <1>2, <1>6 DEF Takes, Held, Holding
  <2>2. \A j \in Slots \ {k} : slot'[j] = slot[j]
    BY <1>6 DEF Takes, OtherSlots
  <2> QED BY <1>1, <1>2, <1>6, <2>1, <2>2 DEF Takes, Held, Holding
<1>7. ASSUME NEW k \in Slots, Sets(c, k) PROVE Held'
  <2>1. \A j \in Slots : slot'[j].state = slot[j].state
    BY <1>7 DEF Sets, OtherSlots
  <2> QED BY <1>1, <1>2, <1>7, <2>1 DEF Sets, Held, Holding
<1>8. ASSUME NEW k \in Slots, Sends(c, k) PROVE Held'
  BY <1>1, <1>2, <1>8 DEF Sends, SameCall, Held, Holding
<1>9. ASSUME NEW k \in Slots, Drops(c, k) PROVE Held'
  <2>1. \A j \in Slots \ {k} : slot'[j] = slot[j]
    BY <1>9 DEF Drops, OtherSlots
  <2>2. \A d \in Calls \ {c} : call[d].slot # k
    BY <1>1, <1>2, <1>9 DEF Drops, Held
  <2> QED BY <1>1, <1>2, <1>9, <2>1, <2>2 DEF Drops, SameCall, Held, Holding
<1>10. ASSUME NEW k \in Slots, Frees(c, k) PROVE Held'
  <2>1. \A j \in Slots \ {k} : slot'[j] = slot[j]
    BY <1>10 DEF Frees, OtherSlots
  <2>2. \A d \in Calls \ {c} : call[d].slot # k
    BY <1>1, <1>2, <1>10 DEF Frees, Held
  <2> QED BY <1>1, <1>2, <1>10, <2>1, <2>2 DEF Frees, Held, Holding
<1> QED BY <1>3, <1>4, <1>5, <1>6, <1>7, <1>8, <1>9, <1>10 DEF Moves

(* Moves keep the settings of a connection those its call has sent so far. *)
LEMMA SessionsStep ==
    ASSUME Sound, NEW c \in Calls, Moves(c)
    PROVE  Sessions'
<1>1. /\ \A d \in Calls \ {c} : call'[d] = call[d]
      /\ \A d \in Calls : call[d].step \in Nat
      /\ \A k \in Slots : /\ slot[k].state \in {"closed", "idle", "held", "invalid"}
                          /\ slot[k].session \in [Settings -> Values]
  BY DEF Moves, Sound, Typed, CallRecord, Connection
<1>2. Held /\ Sessions
  BY DEF Sound
<1>3. \A op : Setup(op)' = Setup(op)
  BY DEF Moves, Setup
<1>4. SUFFICES /\ \A k \in Slots : slot'[k].state \in {"closed", "idle"} =>
                      slot'[k].session = DefaultSession
               /\ \A d \in Calls :
                     /\ call'[d].pc \in {"new", "connecting"} => call'[d].step = 0
                     /\ call'[d].pc \in {"setting", "running"} =>
                           SetSoFar(slot'[call'[d].slot].session, call'[d].op, call'[d].step)
                     /\ call'[d].pc = "running" => call'[d].step = Len(Setup(call'[d].op))
  <2>1. dialect' = dialect
    BY DEF Moves
  <2> QED BY <1>4, <2>1 DEF Sessions, SetSoFar, Setup
<1>5. CASE Aside(c)
  BY <1>1, <1>2, <1>5 DEF Aside, Sessions
<1>6. CASE Ends(c)
  BY <1>1, <1>2, <1>6 DEF Ends, SameCall, Sessions
<1>7. CASE Orphaned(c)
  BY <1>2, <1>7 DEF Orphaned, Sessions
<1>8. ASSUME NEW k \in Slots, OtherSlots(k), NEW d \in Calls \ {c},
             call[c].slot = k \/ slot[k].state \in {"closed", "idle"}
      PROVE  /\ call'[d].pc \in {"new", "connecting"} => call'[d].step = 0
             /\ call'[d].pc \in {"setting", "running"} =>
                    SetSoFar(slot'[call'[d].slot].session, call'[d].op, call'[d].step)
             /\ call'[d].pc = "running" => call'[d].step = Len(Setup(call'[d].op))
  <2>1. call[d].pc \in {"setting", "running"} => call[d].slot \in Slots \ {k}
    BY <1>2, <1>8, ExecutionAssumption DEF Held, Holding
  <2>2. call[d].pc \in {"setting", "running"} => slot'[call[d].slot] = slot[call[d].slot]
    BY <1>8, <2>1 DEF OtherSlots
  <2> QED BY <1>1, <1>2, <2>2 DEF Sessions
<1>9. ASSUME NEW k \in Slots, OtherSlots(k), NEW j \in Slots \ {k}
      PROVE  slot'[j].state \in {"closed", "idle"} => slot'[j].session = DefaultSession
  BY <1>2, <1>9 DEF OtherSlots, Sessions
<1>10. CASE \E k \in Slots : Takes(c, k)
  <2>1. PICK k \in Slots : Takes(c, k)
    BY <1>10
  <2>2. /\ OtherSlots(k) /\ slot[k].session = DefaultSession /\ call[c].step = 0
        /\ slot'[k].state = "held"
    BY <1>2, <2>1 DEF Takes, Sessions
  <2>3. SetSoFar(DefaultSession, call[c].op, 0)
    BY DEF SetSoFar, DefaultSession
  <2>4. SetSoFar(slot'[call'[c].slot].session, call'[c].op, call'[c].step)
    BY <2>1, <2>2, <2>3 DEF Takes
  <2> QED BY <1>8, <1>9, <2>1, <2>2, <2>4 DEF Takes
<1>11. CASE \E k \in Slots : Sets(c, k)
  <2>1. PICK k \in Slots : Sets(c, k)
    BY <1>11
  <2>2. PICK q, n : q = Setup(call[c].op) /\ n = call[c].step
    OBVIOUS
  <2>3. PICK old, new : old = slot[k].session /\ new = slot'[k].session
    OBVIOUS
  <2>4. /\ new = [old EXCEPT ![q[n + 1][1]] = q[n + 1][2]] /\ old \in [Settings -> Values]
        /\ n \in Nat /\ n < Len(q) /\ slot[k].state = "held" /\ slot'[k].state = "held"
    BY <1>1, <1>2, <2>1, <2>2, <2>3 DEF Sets, Held
  <2>5. SetSoFar(old, call[c].op, n)
    BY <1>2, <2>1, <2>2, <2>3 DEF Sets, Sessions
  <2>6. /\ Len(q) \in Nat /\ KeysDiffer(q)
        /\ \A i \in 1 .. Len(q) : q[i][1] \in Settings /\ q[i][2] \in Values
    BY <2>2, SetupFacts
  <2>7. \A i \in 1 .. n : new[q[i][1]] = q[i][2]
    <3>1. ASSUME NEW i \in 1 .. n PROVE new[q[i][1]] = q[i][2]
      <4>1. i \in 1 .. Len(q) /\ n + 1 \in 1 .. Len(q) /\ i # n + 1
        BY <2>4, <2>6
      <4>2. q[i][1] # q[n + 1][1]
        BY <2>6, <4>1 DEF KeysDiffer
      <4>3. old[q[i][1]] = q[i][2]
        BY <2>2, <2>5 DEF SetSoFar
      <4> QED BY <2>4, <2>6, <4>1, <4>2, <4>3
    <3> QED BY <3>1
  <2>8. new[q[n + 1][1]] = q[n + 1][2]
    BY <2>4, <2>6
  <2>9. ASSUME NEW x \in Settings, \A i \in 1 .. (n + 1) : q[i][1] # x
        PROVE  new[x] = "default"
    <3>1. q[n + 1][1] # x /\ \A i \in 1 .. n : q[i][1] # x
      BY <2>4, <2>9
    <3>2. old[x] = "default"
      BY <2>2, <2>5, <3>1 DEF SetSoFar
    <3> QED BY <2>4, <3>1, <3>2
  <2>10. SetSoFar(new, call[c].op, n + 1)
    <3>1. \A i \in 1 .. (n + 1) : i \in 1 .. n \/ i = n + 1
      BY <2>4
    <3> QED BY <2>2, <2>7, <2>8, <2>9, <3>1 DEF SetSoFar
  <2>11. SetSoFar(slot'[call'[c].slot].session, call'[c].op, call'[c].step)
    BY <2>1, <2>2, <2>3, <2>10 DEF Sets
  <2> QED BY <1>8, <1>9, <2>1, <2>4, <2>11 DEF Sets
<1>12. CASE \E k \in Slots : Sends(c, k)
  BY <1>1, <1>2, <1>12 DEF Sends, SameCall, Sessions
<1>13. CASE \E k \in Slots : Drops(c, k)
  BY <1>8, <1>9, <1>13 DEF Drops
<1>14. CASE \E k \in Slots : Frees(c, k)
  BY <1>8, <1>9, <1>14 DEF Frees
<1> QED BY <1>5, <1>6, <1>7, <1>10, <1>11, <1>12, <1>13, <1>14 DEF Moves

(* Moves keep queries apart: an orphan is on no connection a call holds.   *)
LEMMA QueriesStep ==
    ASSUME Sound, NEW c \in Calls, Moves(c)
    PROVE  QueriesApart'
<1>1. /\ \A d \in Calls \ {c} : call'[d] = call[d] /\ server'[d] = server[d]
      /\ \A k \in Slots : /\ slot[k].state \in {"closed", "idle", "held", "invalid"}
                          /\ slot[k].gen \in Nat
  BY DEF Moves, Sound, Typed, Connection
<1>2. /\ \A d \in Calls : server[d] # Idle =>
            server[d].conn[1] \in Slots /\ server[d].conn[2] \in Nat
      /\ \A d \in Calls, k \in Slots : call[d].slot = k =>
            call[d].pc \in Holding /\ slot[k].state \in {"held", "invalid"}
  BY DEF Sound, Typed, Query, Held
<1>3. Held /\ QueriesApart
  BY DEF Sound
<1>4. CASE Aside(c)
  BY <1>1, <1>3, <1>4 DEF Aside, QueriesApart, OnPresent, Holding
<1>5. CASE Ends(c)
  <2>1. UNCHANGED slot
    BY <1>5 DEF Ends
  <2>2. call'[c].pc # "running" /\ (server'[c] # Idle =>
            server'[c] = server[c] /\ call[c].pc # "running")
    BY <1>5 DEF Ends
  <2> QED BY <1>1, <1>3, <2>1, <2>2 DEF QueriesApart, OnPresent
<1>6. CASE Orphaned(c)
  BY <1>1, <1>3, <1>6 DEF Orphaned, QueriesApart, OnPresent
<1>7. CASE \E k \in Slots : Takes(c, k)
  <2>1. PICK k \in Slots : Takes(c, k)
    BY <1>7
  <2>2. /\ server' = server /\ \A j \in Slots \ {k} : slot'[j] = slot[j]
        /\ call[c].pc = "connecting" /\ call'[c].pc = "setting"
        /\ slot[k].state \in {"closed", "idle"} /\ slot'[k].state = "held"
        /\ slot'[k].gen = IF slot[k].state = "closed" THEN slot[k].gen + 1 ELSE slot[k].gen
    BY <2>1 DEF Takes, OtherSlots
  <2>3. ASSUME NEW d \in Calls, server[d] # Idle PROVE OnPresent(d)'
    <3>1. PICK j, g : j = server[d].conn[1] /\ g = server[d].conn[2]
      OBVIOUS
    <3>2. /\ g <= slot[j].gen /\ j \in Slots /\ g \in Nat
          /\ g = slot[j].gen => \/ call[d].pc = "running" /\ call[d].slot = j
                                \/ slot[j].state \in {"invalid", "closed"}
      BY <1>2, <1>3, <2>3, <3>1 DEF QueriesApart, OnPresent
    <3>3. CASE j = k
      <4>1. g = slot[k].gen => slot[k].state = "closed"
        BY <1>2, <2>2, <3>2, <3>3
      <4>2. g < slot'[k].gen
        BY <1>1, <2>2, <3>2, <3>3, <4>1
      <4> QED BY <1>1, <2>2, <3>1, <3>2, <3>3, <4>2 DEF OnPresent
    <3>4. CASE j # k
      <4>1. slot'[j] = slot[j]
        BY <2>2, <3>2, <3>4
      <4>2. call[d].pc = "running" => d # c /\ call'[d] = call[d]
        BY <1>1, <2>2
      <4> QED BY <2>2, <3>1, <3>2, <4>1, <4>2 DEF OnPresent
    <3> QED BY <3>3, <3>4
  <2>4. ASSUME NEW d \in Calls, call'[d].pc = "running"
        PROVE  server[d] # Idle /\ server[d].conn = <<call'[d].slot, slot'[call'[d].slot].gen>>
    <3>1. d # c /\ call'[d] = call[d]
      BY <1>1, <2>2, <2>4
    <3>2. call[d].slot \in Slots /\ slot[call[d].slot].state = "held"
      BY <1>3, <2>4, <3>1 DEF Held, Holding
    <3>3. slot'[call[d].slot] = slot[call[d].slot]
      BY <2>2, <3>2
    <3> QED BY <1>3, <2>4, <3>1, <3>3 DEF QueriesApart
  <2> QED BY <1>3, <2>2, <2>3, <2>4 DEF QueriesApart
<1>8. ASSUME \A k \in Slots : slot'[k].gen = slot[k].gen,
             \A k \in Slots : slot'[k].state # slot[k].state =>
                 \/ slot'[k].state \in {"invalid", "closed"}
                 \/ \A d \in Calls : server[d] # Idle /\ server[d].conn[1] = k =>
                        server[d].conn[2] < slot[k].gen,
             call'[c].pc # "running", server' = server,
             call[c].pc = "running" => slot'[call[c].slot].state = "invalid"
      PROVE  QueriesApart'
  <2>1. ASSUME NEW d \in Calls, server[d] # Idle PROVE OnPresent(d)'
    <3>1. PICK j, g : j = server[d].conn[1] /\ g = server[d].conn[2]
      OBVIOUS
    <3>2. /\ g <= slot[j].gen /\ j \in Slots /\ g \in Nat
          /\ g = slot[j].gen => \/ call[d].pc = "running" /\ call[d].slot = j
                                \/ slot[j].state \in {"invalid", "closed"}
      BY <1>2, <1>3, <2>1, <3>1 DEF QueriesApart, OnPresent
    <3>3. ASSUME g = slot[j].gen
          PROVE  \/ call'[d].pc = "running" /\ call'[d].slot = j
                 \/ slot'[j].state \in {"invalid", "closed"}
      <4>1. ~(server[d].conn[2] < slot[j].gen)
        BY <1>1, <3>1, <3>2, <3>3
      <4>2. slot'[j].state = slot[j].state \/ slot'[j].state \in {"invalid", "closed"}
        BY <1>8, <2>1, <3>1, <3>2, <4>1
      <4>3. CASE d = c
        BY <1>8, <3>2, <3>3, <4>2, <4>3
      <4>4. CASE d # c
        BY <1>1, <3>2, <3>3, <4>2, <4>4
      <4> QED BY <4>3, <4>4
    <3> QED BY <1>8, <3>1, <3>2, <3>3 DEF OnPresent
  <2>2. ASSUME NEW d \in Calls, call'[d].pc = "running"
        PROVE  server[d] # Idle /\ server[d].conn = <<call'[d].slot, slot'[call'[d].slot].gen>>
    <3>1. d # c /\ call'[d] = call[d]
      BY <1>1, <1>8, <2>2
    <3>2. call[d].slot \in Slots
      BY <1>3, <2>2, <3>1 DEF Held, Holding
    <3> QED BY <1>3, <1>8, <2>2, <3>1, <3>2 DEF QueriesApart
  <2> QED BY <1>3, <1>8, <2>1, <2>2 DEF QueriesApart
<1>9. CASE \E k \in Slots : Sets(c, k)
  BY <1>8, <1>9 DEF Sets, OtherSlots
<1>10. CASE \E k \in Slots : Drops(c, k)
  BY <1>8, <1>10 DEF Drops, OtherSlots
<1>11. CASE \E k \in Slots : Frees(c, k)
  <2>1. PICK k \in Slots : Frees(c, k)
    BY <1>11
  <2>2. ASSUME slot[k].state = "held", NEW d \in Calls, server[d] # Idle,
               server[d].conn[1] = k
        PROVE  server[d].conn[2] < slot[k].gen
    <3>1. ~(call[d].pc = "running" /\ call[d].slot = k)
      BY <1>3, <2>1, ExecutionAssumption DEF Frees, Held
    <3>2. OnPresent(d)
      BY <1>3, <2>2 DEF QueriesApart
    <3> QED BY <1>1, <1>2, <2>2, <3>1, <3>2 DEF OnPresent
  <2> QED BY <1>8, <2>1, <2>2 DEF Frees, OtherSlots
<1>12. CASE \E k \in Slots : Sends(c, k)
  <2>1. PICK k \in Slots : Sends(c, k)
    BY <1>12
  <2>2. /\ slot' = slot /\ call[c].slot = k /\ call'[c].slot = k /\ call'[c].pc = "running"
        /\ server'[c] # Idle /\ server'[c].conn = <<k, slot[k].gen>>
        /\ slot[k].state = "held"
    BY <1>3, <2>1 DEF Sends, SameCall, Held
  <2>3. ASSUME NEW d \in Calls \ {c}, server[d] # Idle PROVE server[d].conn # <<k, slot[k].gen>>
    <3>1. call[d].slot # k
      BY <1>3, <2>2, ExecutionAssumption DEF Held
    <3>2. OnPresent(d)
      BY <1>3, <2>3 DEF QueriesApart
    <3> QED BY <2>2, <3>1, <3>2 DEF OnPresent
  <2>4. OnPresent(c)'
    BY <1>1, <2>2 DEF OnPresent
  <2>5. ASSUME NEW d \in Calls \ {c}, server'[d] # Idle PROVE OnPresent(d)'
    BY <1>1, <1>3, <2>2, <2>5 DEF QueriesApart, OnPresent
  <2>6. ASSUME NEW d \in Calls, call'[d].pc = "running"
        PROVE  server'[d] # Idle /\ server'[d].conn = <<call'[d].slot, slot'[call'[d].slot].gen>>
    BY <1>1, <1>3, <2>2, <2>6 DEF QueriesApart
  <2>7. ASSUME NEW d \in Calls, NEW e \in Calls, d # e, server'[d] # Idle, server'[e] # Idle
        PROVE  server'[d].conn # server'[e].conn
    <3>1. CASE d = c
      BY <1>1, <2>2, <2>3, <2>7, <3>1
    <3>2. CASE e = c
      BY <1>1, <2>2, <2>3, <2>7, <3>2
    <3>3. CASE d # c /\ e # c
      BY <1>1, <1>3, <2>7, <3>3 DEF QueriesApart
    <3> QED BY <3>1, <3>2, <3>3
  <2> QED BY <2>4, <2>5, <2>6, <2>7 DEF QueriesApart
<1> QED BY <1>4, <1>5, <1>6, <1>7, <1>9, <1>10, <1>11, <1>12 DEF Moves
-----------------------------------------------------------------------------
(* All calls are new and all connections idle.                             *)
LEMMA SoundInit == Init => Sound
<1> SUFFICES ASSUME Init PROVE Sound
  OBVIOUS
<1>1. PICK o : o = [pc |-> "new", op |-> "none", stmt |-> "none", slot |-> "none", step |-> 0,
                    todo |-> 0, sent |-> 0, selected |-> <<>>, result |-> Nothing]
  OBVIOUS
<1>2. call = [c \in Calls |-> o]
  BY <1>1 DEF Init
<1>3. Nothing \in Result /\ Nothing.kind = "none"
  <2>1. <<>> \in {<<>>} \cup {Deliver(raw) : raw \in Seq(Rows)}
    OBVIOUS
  <2> QED BY <2>1 DEF Nothing, Result, Kinds
<1>4. o \in CallRecord
  BY <1>1, <1>3 DEF CallRecord, Progressing
<1>5. /\ o.pc = "new" /\ o.op = "none" /\ o.slot = "none" /\ o.step = 0 /\ o.todo = 0
      /\ o.sent = 0 /\ o.result.kind = "none"
  BY <1>1, <1>3
<1>6. Honest(o)
  BY <1>5 DEF Honest
<1>7. \A c \in Calls : call[c] = o /\ server[c] = Idle
  BY <1>2 DEF Init
<1>8. CallsHonest
  BY <1>6, <1>7 DEF CallsHonest
<1>9. Typed
  <2>1. DefaultSession \in [Settings -> Values]
    BY DEF DefaultSession, Values
  <2>2. slot \in [Slots -> Connection]
    BY <2>1 DEF Init, Connection
  <2>3. call \in [Calls -> CallRecord] /\ server \in [Calls -> Query \cup {Idle}]
    BY <1>2, <1>4 DEF Init
  <2>4. o.step <= Len(Setup(o.op))
    BY <1>5, SetupFacts
  <2> QED BY <1>7, <2>2, <2>3, <2>4 DEF Typed, Init
<1>10. \A k \in Slots : slot[k].state = "closed" /\ slot[k].session = DefaultSession
  BY DEF Init
<1>11. Held /\ Sessions
  BY <1>5, <1>7, <1>10, ExecutionAssumption DEF Held, Sessions, Holding
<1>12. QueriesApart
  BY <1>5, <1>7 DEF QueriesApart
<1> QED BY <1>8, <1>9, <1>11, <1>12 DEF Sound

(* The invariant is inductive.                                             *)
LEMMA SoundStep == Sound /\ [Next]_vars => Sound'
<1>1. ASSUME Sound, Next PROVE Sound'
  <2>1. PICK c \in Calls : Moves(c)
    BY <1>1, EveryStepMoves
  <2>2. Typed' /\ CallsHonest' /\ Held' /\ Sessions' /\ QueriesApart'
    BY <1>1, <2>1, TypedStep, HeldStep, SessionsStep, QueriesStep
  <2> QED BY <2>2 DEF Sound
<1>2. ASSUME Sound, UNCHANGED vars PROVE Sound'
  <2>1. Typed'
    BY <1>2 DEF vars, Sound, Typed, Setup
  <2>2. Held'
    BY <1>2 DEF vars, Sound, Held
  <2>3. QueriesApart'
    BY <1>2 DEF vars, Sound, QueriesApart, OnPresent
  <2>4. Sessions'
    BY <1>2 DEF vars, Sound, Sessions, SetSoFar, Setup
  <2>5. CallsHonest'
    BY <1>2 DEF vars, Sound, CallsHonest, Honest, PassedChecks, DeliversCut
  <2> QED BY <2>1, <2>2, <2>3, <2>4, <2>5 DEF Sound
<1> QED BY <1>1, <1>2

(* The invariant holds in every reachable state.                           *)
LEMMA AlwaysSound == Spec => []Sound
BY SoundInit, SoundStep, PTL DEF Spec

(* The invariant implies the property of connections.                      *)
LEMMA SoundConnections == Sound => ConnectionsAccounted
<1> SUFFICES ASSUME Sound PROVE ConnectionsAccounted
  OBVIOUS
<1>1. TypeOK
  <2>1. ASSUME NEW c \in Calls
        PROVE  /\ call[c].pc \in Progressing /\ call[c].op \in Operations \cup {"none"}
               /\ call[c].slot \in Slots \cup {"none"}
               /\ call[c].step \in 0 .. Len(Setup(call[c].op))
               /\ call[c].todo \in Nat /\ call[c].sent \in Nat
               /\ server[c].conn = <<>> \/ server[c].conn \in Slots \X Nat
    <3>1. call[c] \in CallRecord /\ server[c] \in Query \cup {Idle}
      BY DEF Sound, Typed
    <3>2. call[c].step \in Nat /\ Len(Setup(call[c].op)) \in Nat
          /\ call[c].step <= Len(Setup(call[c].op))
      BY <3>1, SetupFacts DEF Sound, Typed, CallRecord
    <3>3. server[c].conn = <<>> \/ server[c].conn \in Slots \X Nat
      BY <3>1 DEF Query, Idle
    <3> QED BY <3>1, <3>2, <3>3 DEF CallRecord
  <2> QED BY <2>1 DEF TypeOK, Sound, Typed, Progressing, Connection, Values
<1>2. ASSUME NEW k \in Slots
      PROVE  Cardinality({c \in Calls : call[c].slot = k}) =
                 (IF slot[k].state \in {"held", "invalid"} THEN 1 ELSE 0)
  <2>1. CASE slot[k].state \in {"held", "invalid"}
    <3>1. PICK c \in Calls : call[c].slot = k
      BY <2>1 DEF Sound, Held
    <3>2. {d \in Calls : call[d].slot = k} = {c}
      BY <3>1, ExecutionAssumption DEF Sound, Held
    <3>3. Cardinality({c}) = 1
      BY FS_Singleton
    <3> QED BY <2>1, <3>2, <3>3
  <2>2. CASE slot[k].state \notin {"held", "invalid"}
    <3>1. {d \in Calls : call[d].slot = k} = {}
      BY <2>2 DEF Sound, Held
    <3>2. Cardinality({}) = 0
      BY FS_EmptySet
    <3> QED BY <2>2, <3>1, <3>2
  <2> QED BY <2>1, <2>2
<1>3. ASSUME NEW c \in Calls, server[c] # Idle
      PROVE  /\ \A d \in Calls \ {c} : server[d].conn # server[c].conn
             /\ \A k \in Slots : server[c].conn = <<k, slot[k].gen>> =>
                    slot[k].state # "idle" /\ (slot[k].state = "held" => call[c].slot = k)
  <2>1. server[c].conn \in Slots \X Nat
    BY <1>3 DEF Sound, Typed, Query
  <2>2. \A d \in Calls : server[d] = Idle => server[d].conn # server[c].conn
    <3>1. PICK k, g : server[c].conn = <<k, g>>
      BY <2>1
    <3>2. <<k, g>> # <<>> /\ Idle.conn = <<>>
      BY DEF Idle
    <3> QED BY <3>1, <3>2
  <2>3. \A d \in Calls \ {c} : server[d] # Idle => server[d].conn # server[c].conn
    BY <1>3 DEF Sound, QueriesApart
  <2>4. ASSUME NEW k \in Slots, server[c].conn = <<k, slot[k].gen>>
        PROVE  slot[k].state # "idle" /\ (slot[k].state = "held" => call[c].slot = k)
    <3>1. OnPresent(c) /\ server[c].conn[1] = k /\ server[c].conn[2] = slot[k].gen
      BY <1>3, <2>4 DEF Sound, QueriesApart
    <3>2. \/ call[c].pc = "running" /\ call[c].slot = k
          \/ slot[k].state \in {"invalid", "closed"}
      BY <3>1 DEF OnPresent
    <3>3. call[c].pc = "running" /\ call[c].slot = k => slot[k].state = "held"
      BY DEF Sound, Held
    <3> QED BY <3>2, <3>3
  <2> QED BY <2>2, <2>3, <2>4
<1> QED BY <1>1, <1>2, <1>3 DEF ConnectionsAccounted, SlotsAccounted, OneQueryPerConnection

(* A query is sent when all settings of its operation are.                 *)
LEMMA SoundSessions == Sound => SessionSetUp
<1> SUFFICES ASSUME Sound, NEW c \in Calls, call[c].pc = "running", dialect = "postgresql"
             PROVE  slot[call[c].slot].session =
                        [characteristics |-> "read only",
                         role |-> IF ReadonlyRole THEN "readonly" ELSE "default",
                         statement_timeout |-> "set", lock_timeout |-> "set",
                         search_path |-> SearchPath(call[c].op)]
  BY DEF SessionSetUp
<1>1. PICK op, q, f : op = call[c].op /\ q = Setup(call[c].op) /\ f = slot[call[c].slot].session
  OBVIOUS
<1>2. SetSoFar(f, op, Len(q))
  BY <1>1 DEF Sound, Sessions
<1>3. f \in [Settings -> Values]
  <2>1. call[c].slot \in Slots
    BY DEF Sound, Held, Holding
  <2>2. slot[call[c].slot] \in Connection
    BY <2>1 DEF Sound, Typed
  <2> QED BY <1>1, <2>2 DEF Connection
<1>4. Entries(q) =
          {<<"characteristics", "read only">>, <<"statement_timeout", "set">>,
           <<"lock_timeout", "set">>}
          \cup (IF ReadonlyRole THEN {<<"role", "readonly">>} ELSE {})
          \cup (IF SearchPath(op) # "default" THEN {<<"search_path", SearchPath(op)>>} ELSE {})
  BY <1>1, SetupOnPostgres
<1>5. ASSUME NEW p, NEW v, <<p, v>> \in Entries(q) PROVE f[p] = v
  <2>1. PICK i \in 1 .. Len(q) : q[i] = <<p, v>>
    BY <1>5 DEF Entries
  <2> QED BY <1>1, <1>2, <2>1 DEF SetSoFar
<1>6. ASSUME NEW p \in Settings, \A v : <<p, v>> \notin Entries(q), \A x \in Entries(q) : x[1] # p
      PROVE  f[p] = "default"
  <2>1. \A i \in 1 .. Len(q) : q[i] \in Entries(q)
    BY DEF Entries
  <2> QED BY <1>1, <1>2, <1>6, <2>1 DEF SetSoFar
<1>a. /\ <<"characteristics", "read only">>[1] = "characteristics"
      /\ <<"statement_timeout", "set">>[1] = "statement_timeout"
      /\ <<"lock_timeout", "set">>[1] = "lock_timeout"
      /\ <<"role", "readonly">>[1] = "role"
      /\ <<"search_path", SearchPath(op)>>[1] = "search_path"
  OBVIOUS
<1>7. /\ f["characteristics"] = "read only" /\ f["statement_timeout"] = "set"
      /\ f["lock_timeout"] = "set"
  BY <1>4, <1>5
<1>8. f["role"] = IF ReadonlyRole THEN "readonly" ELSE "default"
  <2>1. CASE ReadonlyRole
    BY <1>4, <1>5, <2>1
  <2>2. CASE ~ReadonlyRole
    <3>0. Entries(q) \subseteq
              {<<"characteristics", "read only">>, <<"statement_timeout", "set">>,
               <<"lock_timeout", "set">>, <<"search_path", SearchPath(op)>>}
      BY <1>4, <2>2
    <3>1. "role" \in Settings /\ \A x \in Entries(q) : x[1] # "role"
      BY <1>a, <3>0 DEF Settings
    <3>2. \A v : <<"role", v>> \notin Entries(q)
      BY <3>1
    <3> QED BY <1>6, <2>2, <3>1, <3>2
  <2> QED BY <2>1, <2>2
<1>9. f["search_path"] = SearchPath(op)
  <2>1. CASE SearchPath(op) # "default"
    BY <1>4, <1>5, <2>1
  <2>2. CASE SearchPath(op) = "default"
    <3>0. Entries(q) \subseteq
              {<<"characteristics", "read only">>, <<"statement_timeout", "set">>,
               <<"lock_timeout", "set">>, <<"role", "readonly">>}
      BY <1>4, <2>2
    <3>1. "search_path" \in Settings /\ \A x \in Entries(q) : x[1] # "search_path"
      BY <1>a, <3>0 DEF Settings
    <3>2. \A v : <<"search_path", v>> \notin Entries(q)
      BY <3>1
    <3> QED BY <1>6, <2>2, <3>1, <3>2
  <2> QED BY <2>1, <2>2
<1>10. PICK g : g = [characteristics |-> "read only",
                     role |-> IF ReadonlyRole THEN "readonly" ELSE "default",
                     statement_timeout |-> "set", lock_timeout |-> "set",
                     search_path |-> SearchPath(op)]
  OBVIOUS
<1>11. g = f
  <2>0. /\ g["characteristics"] = "read only" /\ g["statement_timeout"] = "set"
        /\ g["lock_timeout"] = "set"
        /\ g["role"] = (IF ReadonlyRole THEN "readonly" ELSE "default")
        /\ g["search_path"] = SearchPath(op)
    BY <1>10
  <2>1. \A p \in Settings : f[p] = g[p]
    BY <1>7, <1>8, <1>9, <2>0 DEF Settings
  <2>2. DOMAIN g = Settings /\ g = [p \in Settings |-> g[p]]
    BY <1>10 DEF Settings
  <2> QED BY <1>3, <2>1, <2>2
<1> QED BY <1>1, <1>10, <1>11

(* The invariant implies that reports are true.                            *)
LEMMA SoundReports == Sound => ReportsTrue
<1> SUFFICES ASSUME Sound PROVE ReportsTrue
  OBVIOUS
<1>1. \A c \in Calls : Honest(call[c])
  BY DEF Sound, CallsHonest
<1>2. OutcomeHonest
  BY <1>1 DEF OutcomeHonest, Honest, PassedChecks
<1>3. ASSUME NEW c \in Calls, NEW d \in Calls, call[c].result.kind = "score",
             call[d].result.kind = "costly", call[c].stmt = call[d].stmt
      PROVE  call[c].result.score >= CostThreshold - 1
  <2>1. PICK s : s = call[c].stmt
    OBVIOUS
  <2>2. /\ s \in Statement /\ call[c].result.score = Score(s)
        /\ CostDecision(EnsureLimit(s)) = "deny"
    BY <1>1, <1>3, <2>1 DEF Honest
  <2>3. Score(EnsureLimit(s)) >= CostThreshold
    BY <2>2 DEF CostDecision
  <2>4. Score(s) \in Int /\ Score(EnsureLimit(s)) <= Score(s) + 1
        /\ Score(EnsureLimit(s)) \in Int
    BY <2>2, ScoreFacts, EnsureLimitFacts
  <2> QED BY <2>2, <2>3, <2>4, ExecutionAssumption
<1> QED BY <1>2, <1>3 DEF ReportsTrue, RefusalForeseeable

(* The invariant implies what is said of the rows.                         *)
LEMMA SoundDelivery == Sound => DeliveredUpToTheCap
<1> SUFFICES ASSUME Sound, NEW c \in Calls
             PROVE  /\ call[c].result.kind = "too_many_rows" => MissesOuter(call[c].stmt)
                    /\ (call[c].result.kind = "rows" /\ ~ClampsInner(call[c].stmt)) =>
                          LET due == SelectSeq(Cut(call[c].stmt, call[c].selected), Kept) IN
                          /\ DOMAIN call[c].result.rows = DOMAIN due
                          /\ \A i \in DOMAIN due : \A key \in DOMAIN due[i] :
                                call[c].result.rows[i][key] =
                                    IF IsSensitive(key) THEN "[MASKED]" ELSE due[i][key]
  BY DEF DeliveredUpToTheCap
<1>1. Honest(call[c])
  BY DEF Sound, CallsHonest
<1>2. ASSUME call[c].result.kind = "rows", ~ClampsInner(call[c].stmt),
             NEW due, due = SelectSeq(Cut(call[c].stmt, call[c].selected), Kept)
      PROVE  /\ DOMAIN call[c].result.rows = DOMAIN due
             /\ \A i \in DOMAIN due : \A key \in DOMAIN due[i] :
                   call[c].result.rows[i][key] =
                       IF IsSensitive(key) THEN "[MASKED]" ELSE due[i][key]
  <2>1. call[c].result.rows = MaskAll(due)
    BY <1>1, <1>2 DEF Honest, DeliversCut, Deliver
  <2>2. /\ DOMAIN MaskAll(due) = DOMAIN due
        /\ \A i \in DOMAIN due : MaskAll(due)[i] = Masked(due[i])
    BY DEF MaskAll
  <2>3. \A i \in DOMAIN due : \A key \in DOMAIN due[i] :
            Masked(due[i])[key] = IF IsSensitive(key) THEN "[MASKED]" ELSE due[i][key]
    BY DEF Masked
  <2> QED BY <2>1, <2>2, <2>3
<1> QED BY <1>1, <1>2 DEF Honest

(* get_conn, execute_sql_statement: with any number of calls on a pool of  *)
(* any size, through errors, both timeouts and cancellation, a connection  *)
(* out of the pool belongs to exactly one call and never runs two queries. *)
THEOREM ConnectionsSafe == Spec => []ConnectionsAccounted
BY AlwaysSound, SoundConnections, PTL

(* get_conn: every query of every operation runs with the read-only        *)
(* characteristics, role, timeouts and search_path of its own operation.   *)
THEOREM SessionsSetUp == Spec => []SessionSetUp
BY AlwaysSound, SoundSessions, PTL

(* execute_sql_statement, explain_query_cost, estimate_query_cost: what    *)
(* callers are told is what happened, and a refusal for cost is announced  *)
(* by the preview, whatever the statement.                                 *)
THEOREM ReportsAreTrue == Spec => []ReportsTrue
BY AlwaysSound, SoundReports, PTL

(* execute_sql_statement, _ensure_limit, _apply_row_filter,                *)
(* _apply_sensitive_column_masking: for every statement, whatever bounds   *)
(* it and its subqueries have, and every row, filter and set of sensitive  *)
(* columns, the caller gets the kept rows of the first ones the statement  *)
(* as typed selects, up to the cap, unless a subquery was clamped.         *)
THEOREM RowsDeliveredUpToTheCap == Spec => []DeliveredUpToTheCap
BY AlwaysSound, SoundDelivery, PTL
=============================================================================
