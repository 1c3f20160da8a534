------------------------------ MODULE TextToSql ------------------------------
(***************************************************************************)
(* One text-to-sql request of the BFF: generate_sql_from_text with the     *)
(* provider retries of AIService, the resends of the OpenAI SDK below      *)
(* them, the local pre-check, the correction loop around _execute_sql and  *)
(* the route's answer.                                                     *)
(*                                                                         *)
(* Candidates are the statements the model may answer with: those of       *)
(* SqlSafety with the fields the pre-check looks at:                       *)
(*   declared, referenced   table names and aliases                        *)
(*   shape       a subset of {"aggregate", "correlated", "distinct",       *)
(*               "group"} for the top-level SELECT                         *)
(* The query API keeps running a statement whose HTTP request timed out.   *)
(***************************************************************************)
EXTENDS SqlSafety, SequencesExt

CONSTANTS
    Candidates,
    Retries              \* AI_RETRIES

ASSUME TextToSqlAssumption == Retries \in Nat \ {0}

MAX_EXECUTION_ATTEMPTS == 3

(* AsyncOpenAI(...) is given no max_retries and keeps the SDK's own. *)
DEFAULT_MAX_RETRIES == 2

VARIABLES
    pc,          \* where generate_sql_from_text is waiting
    execute,     \* body.execute
    exposed,     \* EXPOSE_DB_ERROR_DETAIL of the query API
    attempt,     \* the correction loop, 1 .. MAX_EXECUTION_ATTEMPTS
    prompt,      \* the pre-check loop of _generate_sql_with_llm, 1 .. 2
    try,         \* the retry loop of AIService, 1 .. Retries
    resend,      \* the SDK's retries of this try, 0 .. DEFAULT_MAX_RETRIES
    feedback,    \* what the prompt quotes: <<"db" or "precheck", attempt>>
    sql,         \* the current statement, None before the first
    sent,        \* the statements sent for execution with their answers
    inflight,    \* positions of sent the query API is working on
    asked,       \* HTTP requests made to the model
    answer       \* the route's response

vars == <<pc, execute, exposed, attempt, prompt, try, resend, feedback, sql, sent,
          inflight, asked, answer>>
config == <<execute, exposed>>
loopVars == <<attempt, prompt, try, feedback>>

None == [head |-> <<>>]
NoAnswer == [status |-> 0, sql |-> None, rows |-> 0]

Init ==
    /\ pc = "embedding"
    /\ execute \in BOOLEAN /\ exposed \in BOOLEAN
    /\ attempt = 1 /\ prompt = 1 /\ try = 1 /\ resend = 0
    /\ feedback = <<>>
    /\ sql = None
    /\ sent = <<>> /\ inflight = {}
    /\ asked = 0
    /\ answer = NoAnswer

-----------------------------------------------------------------------------
(* The pre-check.                                                          *)

(* _strip_sql_framing *)
StripSqlFraming(head) == Unprefixed(Unfenced(head))

(* _find_unresolved_table_aliases *)
AliasesResolved(s) ==
    /\ "unparsable" \notin s.defects /\ s.statements = 1 /\ "Query" \in s.nodes
    /\ s.referenced \subseteq s.declared

(* _find_ungrouped_correlated_subquery *)
Ungrouped(s) ==
    /\ {"aggregate", "correlated"} \subseteq s.shape
    /\ s.shape \cap {"distinct", "group"} = {}

PrecheckSql(s) ==
    /\ StartsWith(StripSqlFraming(s.head), "select")
    /\ s.statements = 1
    /\ AliasesResolved(s)
    /\ ~Ungrouped(s)

-----------------------------------------------------------------------------
(* What the query API answers to a statement: rows; a refusal of the       *)
(* checker, the policy or the quota; a database error whose detail shows   *)
(* (correctable or not) or is withheld; an HTTP failure.                   *)
ApiAnswers(s) ==
    {"refused", "http"} \cup
    (IF ~CleanAndValidate(s) THEN {}
     ELSE {"rows"} \cup (IF exposed THEN {"correctable", "other"} ELSE {"withheld"}))

(* Mutant: a failed request counts as correctable. *)
RetryableIfUnanswered(a) == a \in {"correctable", "http"}

(* _is_retryable_execution_error: the detail has one of the markers. *)
Retryable(a) == a = "correctable"

(* The route's response: 400 when the message mentions validation, as the  *)
(* ValueError of _execute_sql does.                                        *)
Respond(status, s, rows) ==
    /\ pc' = "done"
    /\ answer' = [status |-> status, sql |-> s, rows |-> rows]

(* AIServiceError, or an unexpected exception. *)
Fail == Respond(500, None, 0)

-----------------------------------------------------------------------------
(* generate_embeddings: a rate limit is tried again, anything else ends.   *)
Embed ==
    /\ pc = "embedding"
    /\ \/ /\ pc' = "schema" /\ try' = 1 /\ UNCHANGED answer
       \/ /\ try < Retries
          /\ try' = try + 1 /\ UNCHANGED <<pc, answer>>
       \/ Fail /\ UNCHANGED try
    /\ UNCHANGED <<config, attempt, prompt, resend, feedback, sql, sent, inflight, asked>>

(* _get_relevant_schema *)
GetRelevantSchema ==
    /\ pc = "schema"
    /\ \/ pc' = "generating" /\ UNCHANGED answer
       \/ Fail
    /\ UNCHANGED <<config, loopVars, resend, sql, sent, inflight, asked>>

(* One request to the model, the last of its try. *)
Ask == pc = "generating" /\ asked' = asked + 1 /\ resend' = 0

(* A connection error, 408, 409, 429 or 5xx: the SDK sends the request     *)
(* again before AIService learns of it.                                    *)
SdkResends ==
    /\ pc = "generating" /\ resend < DEFAULT_MAX_RETRIES
    /\ resend' = resend + 1
    /\ asked' = asked + 1
    /\ UNCHANGED <<pc, config, loopVars, sql, sent, inflight, answer>>

(* get_greeting fails: an API error at once, a rate limit or an empty      *)
(* answer after the last try.                                              *)
ModelFails ==
    /\ Ask
    /\ Fail
    /\ UNCHANGED <<config, loopVars, sql, sent, inflight>>

(* A rate limit or an empty answer, with tries left. *)
ModelRetries ==
    /\ Ask /\ try < Retries
    /\ try' = try + 1
    /\ UNCHANGED <<pc, config, attempt, prompt, feedback, sql, sent, inflight, answer>>

(* for attempt in range(1, 3) *)
LastPrompt == prompt >= 2

(* The model answers s and the pre-check rejects it. *)
Reject(s) ==
    /\ Ask /\ ~PrecheckSql(s)
    /\ \/ /\ ~LastPrompt
          /\ prompt' = prompt + 1 /\ try' = 1
          /\ feedback' = Append(feedback, <<"precheck", attempt>>)
          /\ UNCHANGED <<pc, answer>>
       \/ LastPrompt /\ Fail /\ UNCHANGED <<prompt, try, feedback>>
    /\ UNCHANGED <<config, attempt, sql, sent, inflight>>

(* The model answers s and the pre-check accepts it: it is the answer, or  *)
(* _execute_sql sends it.                                                  *)
Accept(s) ==
    /\ Ask /\ PrecheckSql(s)
    /\ sql' = s
    /\ \/ /\ ~execute
          /\ Respond(200, s, 0)
          /\ UNCHANGED <<sent, inflight>>
       \/ /\ execute
          /\ pc' = "executing"
          /\ sent' = Append(sent, [stmt |-> s, answer |-> "none"])
          /\ inflight' = inflight \cup {Len(sent) + 1}
          /\ UNCHANGED answer
    /\ UNCHANGED <<config, loopVars>>

(* Mutant: feedback is appended to. *)
CorrectionAppended == Append(feedback, <<"db", attempt>>)

(* feedback = "The SQL statement you generated was rejected ..." *)
Correction == <<<<"db", attempt>>>>

(* Mutant: the last attempt is not recognised. *)
LastAttemptOffByOne == attempt > MAX_EXECUTION_ATTEMPTS

(* attempt >= MAX_EXECUTION_ATTEMPTS *)
LastAttempt == attempt >= MAX_EXECUTION_ATTEMPTS

(* Mutant: the error is logged and not returned. *)
ErrorNotReturned == UNCHANGED <<pc, answer>>

(* return {"error": e.detail, "sql": sql} *)
ShowDatabaseError == Respond(500, sql, 0)

(* The answer a of _execute_sql.  An HTTP timeout leaves the query API at  *)
(* work.                                                                   *)
Executed(a) ==
    /\ pc = "executing" /\ a \in ApiAnswers(sql)
    /\ sent' = [sent EXCEPT ![Len(sent)] = [sent[Len(sent)] EXCEPT !.answer = a]]
    /\ inflight' = IF a = "http" THEN inflight ELSE inflight \ {Len(sent)}
    /\ \/ /\ a = "rows"
          /\ Respond(200, sql, Len(sent))
          /\ UNCHANGED loopVars
       \/ /\ Retryable(a) /\ ~LastAttempt
          /\ attempt' = attempt + 1 /\ prompt' = 1 /\ try' = 1
          /\ feedback' = Correction
          /\ pc' = "generating" /\ UNCHANGED answer
       \/ /\ a \in {"correctable", "other"} /\ (Retryable(a) => LastAttempt)
          /\ ShowDatabaseError
          /\ UNCHANGED loopVars
       \/ /\ a \in {"refused", "withheld"}
          /\ Respond(400, sql, 0)
          /\ UNCHANGED loopVars
       \/ /\ a = "http" /\ ~Retryable(a)
          /\ Fail
          /\ UNCHANGED loopVars
    /\ UNCHANGED <<config, resend, sql, asked>>

(* The query API ends a statement nobody waits for any more. *)
ApiEnds(i) ==
    /\ i \in inflight /\ sent[i].answer = "http"
    /\ inflight' = inflight \ {i}
    /\ UNCHANGED <<pc, config, loopVars, resend, sql, sent, asked, answer>>

Generate ==
    SdkResends \/ ModelFails \/ ModelRetries \/ \E s \in Candidates : Reject(s) \/ Accept(s)
Execution == \E a \in {"rows", "refused", "withheld", "correctable", "other", "http"} : Executed(a)

Next ==
    \/ Embed \/ GetRelevantSchema \/ Generate \/ Execution
    \/ \E i \in DOMAIN sent : ApiEnds(i)

Spec == Init /\ [][Next]_vars

(* Every HTTP request and every request to the model has a client timeout; *)
(* embed_content has none and is not assumed to return.                    *)
FairSpec ==
    Spec /\ WF_vars(GetRelevantSchema) /\ WF_vars(Generate) /\ WF_vars(Execution)

-----------------------------------------------------------------------------
(* The variables hold values of their types. *)
TypeOK ==
    /\ pc \in {"embedding", "schema", "generating", "executing", "done"}
    /\ execute \in BOOLEAN /\ exposed \in BOOLEAN
    /\ attempt \in 1 .. MAX_EXECUTION_ATTEMPTS /\ prompt \in 1 .. 2 /\ try \in 1 .. Retries
    /\ resend \in 0 .. DEFAULT_MAX_RETRIES
    /\ feedback \in Seq({"db", "precheck"} \X (1 .. MAX_EXECUTION_ATTEMPTS))
    /\ sql \in Candidates \cup {None}
    /\ inflight \subseteq DOMAIN sent
    /\ asked \in Nat
    /\ answer.status \in {0, 200, 400, 500}

(* The four nested loops multiply: a request makes at most                 *)
(* 3 * 2 * Retries * (1 + DEFAULT_MAX_RETRIES) requests to the model and   *)
(* asks the database at most 3 times, whatever both answer.                *)
EffortBounded ==
    /\ asked <= MAX_EXECUTION_ATTEMPTS * 2 * Retries * (1 + DEFAULT_MAX_RETRIES)
    /\ Len(sent) <= MAX_EXECUTION_ATTEMPTS

(* A statement is sent only when the one before it was rejected by the     *)
(* database: nothing that succeeded, was refused or is still running is    *)
(* repeated, and no two statements of a request are at work.               *)
ResentOnlyAfterRejection ==
    /\ \A i \in 1 .. (Len(sent) - 1) : sent[i].answer = "correctable"
    /\ Cardinality(inflight) <= 1

(* The correction loop lives on the details of the error: when the query   *)
(* API withholds them, a request executes at most one statement.           *)
NoCorrectionWithoutDetail == ~exposed => Len(sent) <= 1

(* The prompt quotes the error of the statement executed last and the      *)
(* pre-checks since, never an older error.                                 *)
FeedbackFresh ==
    pc = "generating" =>
        \A i \in DOMAIN feedback :
            /\ feedback[i][1] = "db" => i = 1 /\ feedback[i][2] = attempt - 1
            /\ feedback[i][1] = "precheck" => feedback[i][2] = attempt

(* The answer is about the statement executed last: its rows with 200, and *)
(* a database error that ends the loop, also in the last round, is shown   *)
(* with the statement that caused it.                                      *)
AnswerAboutLastStatement ==
    (pc = "done" /\ execute) =>
        /\ answer.status = 200 =>
              /\ answer.rows = Len(sent) /\ Last(sent).answer = "rows"
              /\ answer.sql = Last(sent).stmt
        /\ (sent # <<>> /\ Last(sent).answer = "other") =>
              answer = [status |-> 500, sql |-> Last(sent).stmt, rows |-> 0]
        /\ (Len(sent) = MAX_EXECUTION_ATTEMPTS /\ Last(sent).answer = "correctable") =>
              answer.sql = Last(sent).stmt

(* The BFF and the query API unwrap the model's text by two copies of one  *)
(* procedure: what passes the pre-check is never refused for its framing.  *)
PrecheckedIsCleanable == \A i \in DOMAIN sent : Cleanable(sent[i].stmt.head)

(* A request that has its embedding is answered. *)
RequestAnswered == (pc = "schema") ~> (pc = "done")

(* text_to_sql_service.py, ai_service.py:22: the loops stay within their   *)
(* bounds.                                                                 *)
LoopsBounded == TypeOK /\ EffortBounded

(* text_to_sql_service.py:118: whatever is sent to the query API can be    *)
(* unwrapped there, and is sent only because the database rejected the     *)
(* statement before it and said why.                                       *)
SendJustified ==
    ResentOnlyAfterRejection /\ NoCorrectionWithoutDetail /\ PrecheckedIsCleanable

(* text_to_sql_service.py:147: what is said about a statement, to the      *)
(* model in a prompt or to the user in an answer, is about the one         *)
(* executed last.                                                          *)
QuotesLastStatement == FeedbackFresh /\ AnswerAboutLastStatement
=============================================================================
