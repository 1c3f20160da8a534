-------------------------- MODULE ResultPresentation --------------------------
(***************************************************************************)
(* execute_sql_statement_with_presentation: the governed execution, then   *)
(* ResultPresentationService.decide, which asks a model how to show the    *)
(* rows and accepts its plan only when the plan fits them.                 *)
(*                                                                         *)
(* A row is a function from columns to cells [kind, n]: kind is "int",     *)
(* "whole" (a float without fraction), "ratio", "digits" (a string of      *)
(* digits), "bool", "null", "text", "long" (longer than max_cell_chars) or *)
(* "cut" (what is sent of a long one).  A reply of the model's service is  *)
(* [status, body]: "transient" (408, 429, no content), "failed" (another   *)
(* error), "odd" (JSON of another shape) or "text" with body:              *)
(*   shape     "object", "fenced", "embedded", "array" or "prose"          *)
(*   format    the plan's format                                           *)
(*   content, reason   "none" or "text"                                    *)
(*   ints, reasonInts  the integers in the content and in the reason       *)
(*   labels    triples <<column, "good", "blank" or "other", integers>>    *)
(***************************************************************************)
EXTENDS Integers, Sequences, FiniteSetsExt

CONSTANTS
    Results,         \* the row sequences a governed execution may return
    Replies,         \* the replies of the model's service
    Configs,         \* [enabled, key, retries, sampleRows, payload] as configured
    RequestTimeout, BackoffBase

(* The backoffs are whole units of the clock. *)
ASSUME PresentationAssumption ==
    /\ RequestTimeout \in Nat \ {0} /\ BackoffBase \in Nat \ {0}
    /\ Configs \subseteq [enabled : BOOLEAN, key : BOOLEAN,
                          retries : Int, sampleRows : Int, payload : Int]
    /\ \A c \in Configs : \A n \in 1 .. c.retries : BackoffBase ^ n \in Nat
    /\ \A rs \in Results : rs \in Seq({rs[i] : i \in DOMAIN rs})

VARIABLES
    config, question,   \* the environment; is there a question?
    pc,
    rows,               \* what the gateway returned
    prompt,             \* what was sent of it
    attempt, clock, wake,
    seen,               \* history: the replies, in order
    plan                \* the presentation: None, or a decision

presentationVars == <<config, question, pc, rows, prompt, attempt, clock, wake, seen, plan>>

(* reason is "none", "own" (of _fallback_decision) or "model"; labels are  *)
(* pairs of a column and the integers in its wording.                      *)
None == [format |-> "null", content |-> "none", ints |-> {},
         reason |-> "none", reasonInts |-> {}, labels |-> {}]
Fallback == [None EXCEPT !.format = "table", !.reason = "own"]
NoPrompt == [sample |-> <<>>, truncated |-> FALSE, hint |-> FALSE]

PresentationInit ==
    /\ config \in Configs /\ question \in BOOLEAN
    /\ pc = "executing"
    /\ rows = <<>> /\ prompt = NoPrompt
    /\ attempt = 1 /\ clock = 0 /\ wake = 0
    /\ seen = <<>>
    /\ plan = None

-----------------------------------------------------------------------------
(* The clamps of __init__ *)
Retries == Max({1, config.retries})
SampleRows == Max({1, config.sampleRows})
Payload == Max({2, config.payload})

(* _truncate_row *)
Truncated(row) ==
    [c \in DOMAIN row |-> IF row[c].kind = "long" THEN [kind |-> "cut", n |-> 0] ELSE row[c]]

(* The size of an encoded row, in units of a short cell. *)
Bytes(row) == Cardinality(DOMAIN row) + 3 * Cardinality({c \in DOMAIN row : row[c].kind = "cut"})
SizeOf(sample) == MapThenSumSet(LAMBDA i : Bytes(sample[i]), DOMAIN sample)

(* Rows are popped from the end until the sample fits. *)
Sample(rs) ==
    LET cut == [i \in 1 .. Min({Len(rs), SampleRows}) |-> Truncated(rs[i])]
        fits == {n \in 0 .. Len(cut) : n = 0 \/ SizeOf(SubSeq(cut, 1, n)) <= Payload}
    IN SubSeq(cut, 1, Max(fits))

(* _looks_like_question_answer: at most three rows and an aggregate column *)
LooksLikeQuestionAnswer(sample) ==
    /\ question /\ Len(sample) \in 1 .. 3
    /\ \E i \in DOMAIN sample : "total" \in DOMAIN sample[i]

(* _build_context, _render_user_prompt *)
BuildContext(rs) ==
    [sample |-> Sample(rs), truncated |-> Len(rs) > Len(Sample(rs)),
     hint |-> LooksLikeQuestionAnswer(Sample(rs))]

-----------------------------------------------------------------------------
(* _validate_decision                                                      *)

Cells(rs) == UNION {{rs[i][c] : c \in DOMAIN rs[i]} : i \in DOMAIN rs}
Columns(rs) == UNION {DOMAIN rs[i] : i \in DOMAIN rs}

(* _parse_json_object *)
Parsed(body) == body.shape \in {"object", "fenced", "embedded"}

(* _numeric_forms; a token of the wording has no sign *)
NumericForms(cell) ==
    IF cell.kind \in {"int", "whole", "digits"} /\ cell.n >= 0 THEN {cell.n} ELSE {}

(* Mutant: wording with a single number is not checked. *)
IntegersFitMany(ints, sample) ==
    \/ Cardinality(ints) < 2
    \/ ints \subseteq {Len(sample)} \cup UNION {NumericForms(c) : c \in Cells(sample)}

IntegersFit(ints, sample) ==
    ints \subseteq {Len(sample)} \cup UNION {NumericForms(c) : c \in Cells(sample)}

HasNumericColumn(sample) == \E c \in Cells(sample) : c.kind \in {"int", "whole", "ratio"}

ValidDecision(body, sample) ==
    /\ Parsed(body)
    /\ body.format \in {"paragraph", "list", "chart", "table"}
    /\ body.format = "paragraph" => body.content = "text"
    /\ body.format = "chart" => HasNumericColumn(sample)
    /\ body.content = "text" => IntegersFit(body.ints, sample)

(* _validated_column_labels drops what it does not know. *)
ValidatedLabels(labels, sample) ==
    {<<p[1], p[3]>> : p \in {q \in labels : q[1] \in Columns(sample) /\ q[2] = "good"}}

(* Only the content has passed _integers_fit: the reason and the labels    *)
(* are taken as they are worded.                                           *)
Decision(body, sample) ==
    IF ValidDecision(body, sample)
    THEN [format |-> body.format, content |-> body.content,
          ints |-> IF body.content = "text" THEN body.ints ELSE {},
          reason |-> IF body.reason = "text" THEN "model" ELSE "none",
          reasonInts |-> IF body.reason = "text" THEN body.reasonInts ELSE {},
          labels |-> ValidatedLabels(body.labels, sample)]
    ELSE Fallback

(* ResultRenderer: the reason is on the badge of a plan with a toggle. *)
MAX_SUMMARY_ONLY_ROWS == 2

ReasonShown(p, rs) ==
    /\ p.reason # "none"
    /\ \/ p.format \in {"paragraph", "list", "chart"}
       \/ p.format = "table" /\ p.content = "text" /\ Len(rs) <= MAX_SUMMARY_ONLY_ROWS

-----------------------------------------------------------------------------
(* The request.                                                            *)

(* Mutant: each attempt has a deadline, the whole has none. *)
DeadlinePerAttempt == wake + RequestTimeout

(* total_timeout *)
Deadline == RequestTimeout * Retries

Done(p) ==
    /\ pc' = "answered" /\ plan' = p
    /\ UNCHANGED <<config, question, rows, prompt, attempt, clock, wake>>

(* _execute_governed raises: the field is an error, and nothing is planned. *)
ExecutionFails ==
    /\ pc = "executing"
    /\ pc' = "failed"
    /\ UNCHANGED <<config, question, rows, prompt, attempt, clock, wake, seen, plan>>

(* decide: the early returns *)
Plans(rs) == config.enabled /\ config.key /\ rs # <<>>

ExecutionReturns ==
    /\ pc = "executing"
    /\ rows' \in Results
    /\ IF Plans(rows')
       THEN pc' = "posting" /\ prompt' = BuildContext(rows')
       ELSE pc' = "answered" /\ UNCHANGED prompt
    /\ UNCHANGED <<config, question, attempt, clock, wake, seen, plan>>

AttemptsLeft == attempt < Retries

(* _RetryableResponseError *)
Retryable(reply) == reply.status = "transient"

(* _complete, _extract_content_text: an unexpected shape raises through    *)
(* decide, and the controller answers without a presentation.              *)
Reply(reply) ==
    /\ pc = "posting"
    /\ seen' = Append(seen, reply.status)
    /\ CASE Retryable(reply) /\ AttemptsLeft ->
                /\ pc' = "backing_off" /\ wake' = clock + BackoffBase ^ attempt
                /\ UNCHANGED <<config, question, rows, prompt, attempt, clock, plan>>
         [] reply.status = "odd" -> Done(None)
         [] reply.status = "text" -> Done(Decision(reply.body, prompt.sample))
         [] OTHER -> Done(Fallback)

Retry ==
    /\ pc = "backing_off" /\ clock >= wake
    /\ pc' = "posting" /\ attempt' = attempt + 1
    /\ UNCHANGED <<config, question, rows, prompt, clock, wake, seen, plan>>

(* Mutant: the deadline is only looked at between attempts. *)
TimesOutBetween ==
    /\ pc = "backing_off" /\ clock >= Deadline
    /\ Done(Fallback)
    /\ UNCHANGED seen

(* asyncio.wait_for *)
TimesOut ==
    /\ pc \in {"posting", "backing_off"} /\ clock >= Deadline
    /\ Done(Fallback)
    /\ UNCHANGED seen

(* Time passes, but not beyond a timer that is due. *)
Tick ==
    /\ pc \in {"posting", "backing_off"} /\ clock < Deadline
    /\ pc = "backing_off" => clock < wake
    /\ clock' = clock + 1
    /\ UNCHANGED <<config, question, pc, rows, prompt, attempt, wake, seen, plan>>

PresentationNext ==
    \/ ExecutionFails \/ ExecutionReturns
    \/ \E reply \in Replies : Reply(reply)
    \/ Retry \/ TimesOut \/ Tick

PresentationSpec == PresentationInit /\ [][PresentationNext]_presentationVars

(* Assumed: the execution ends (StatementExecution says when it may not).  *)
(* Time passes and timers fire; the model's service need not answer.       *)
FairPresentationSpec ==
    /\ PresentationSpec
    /\ WF_presentationVars(ExecutionFails \/ ExecutionReturns)
    /\ WF_presentationVars(Tick) /\ WF_presentationVars(Retry) /\ WF_presentationVars(TimesOut)

-----------------------------------------------------------------------------
(* Correctness.                                                            *)

PresentationTypeOK ==
    /\ config \in Configs /\ question \in BOOLEAN
    /\ pc \in {"executing", "failed", "posting", "backing_off", "answered"}
    /\ rows \in Results \cup {<<>>}
    /\ Len(prompt.sample) <= Len(rows)
    /\ attempt \in 1 .. Retries
    /\ clock \in Nat /\ wake \in Nat
    /\ plan.format \in {"null", "paragraph", "list", "chart", "table"}

Facts(rs) == {Len(rs)} \cup UNION {NumericForms(c) : c \in Cells(rs)}

(* Whatever the model answers, after any retries and truncations, an       *)
(* integer in the content shown is a value of the result itself or its     *)
(* number of rows; only when rows were left out, and the prompt says so,   *)
(* it may be the number of rows sent.  The integers of the reason and of   *)
(* the labels may be any: no guard looks at them.                          *)
GroundedInResult ==
    plan.ints \subseteq Facts(rows) \cup (IF prompt.truncated THEN {Len(prompt.sample)} ELSE {})

(* A chart has a number of the result to plot, a paragraph has words, and  *)
(* labels are for columns of the result.                                   *)
PlanFitsResult ==
    /\ plan.format = "chart" => \E c \in Cells(rows) : c.kind \in {"int", "whole", "ratio"}
    /\ plan.format = "paragraph" => plan.content = "text"
    /\ {l[1] : l \in plan.labels} \subseteq Columns(rows)

(* The wording that no guard has looked at is shown only as part of a plan *)
(* that a reply of the model proposed and the guards accepted: the reason  *)
(* on the badge is never the service's account of a failure, and after a   *)
(* failed, timed out or rejected request no word of the model is shown.    *)
UnguardedWordingIsOfAPlan ==
    /\ ReasonShown(plan, rows) => plan.reason = "model"
    /\ plan.reason = "model" \/ plan.labels # {} \/ plan.reasonInts # {} =>
          /\ seen # <<>> /\ seen[Len(seen)] = "text"
          /\ plan.format = "chart" => HasNumericColumn(prompt.sample)
          /\ IntegersFit(plan.ints, prompt.sample)

(* The rows wait for their presentation at most request_timeout times the  *)
(* number of attempts, backoffs included.                                  *)
WithinBudget == clock <= RequestTimeout * Retries

(* The model is asked at most retries times, and again only after a        *)
(* transient reply.                                                        *)
AskedAgainOnlyIfTransient ==
    /\ Len(seen) <= Retries
    /\ \A i \in 1 .. Len(seen) - 1 : seen[i] = "transient"
    /\ pc \in {"posting", "backing_off"} /\ seen # <<>> => seen[Len(seen)] = "transient"

(* An answer without a presentation means that planning is off, there is   *)
(* nothing to show, or the service sent an unexpected shape; and when      *)
(* planning is off or there is nothing to show, nothing was sent.          *)
MissingPlanExplained ==
    LET off == ~config.enabled \/ ~config.key \/ rows = <<>>
    IN /\ pc = "answered" /\ plan = None => off \/ "odd" \in {seen[i] : i \in DOMAIN seen}
       /\ off => pc \notin {"posting", "backing_off"} /\ seen = <<>>

(* If the prompt does not say that rows are missing, all of them are there. *)
TruncationDeclared ==
    pc = "posting" /\ ~prompt.truncated => Len(prompt.sample) = Len(rows)

(* The result is returned even if the model's service never answers. *)
RowsDelivered == <>(pc \in {"answered", "failed"})

(* result_presentation_service.py, decide: whatever the model says, the    *)
(* content, the format and the labelled columns that are shown fit the     *)
(* rows, the rest of the wording comes with an accepted plan only, and the *)
(* absence of a plan is explained.                                         *)
PlanSound ==
    /\ PresentationTypeOK
    /\ GroundedInResult
    /\ PlanFitsResult
    /\ UnguardedWordingIsOfAPlan
    /\ TruncationDeclared
    /\ MissingPlanExplained

(* result_presentation_service.py:243: retries, backoffs and timeouts add  *)
(* up to no more than the configured budget.                               *)
RetriesBounded == WithinBudget /\ AskedAgainOnlyIfTransient
===============================================================================
