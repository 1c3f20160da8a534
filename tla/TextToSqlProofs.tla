-------------------------- MODULE TextToSqlProofs ---------------------------
(***************************************************************************)
(* Proofs about TextToSql for every number of provider tries, every set of *)
(* statements the model may answer and every answer of the query API.      *)
(***************************************************************************)
EXTENDS TextToSql, FiniteSetTheorems, TLAPS

Sent == [stmt : Candidates,
         answer : {"none", "rows", "refused", "withheld", "correctable", "other", "http"}]

Typed ==
    /\ pc \in {"embedding", "schema", "generating", "executing", "done"}
    /\ execute \in BOOLEAN /\ exposed \in BOOLEAN
    /\ attempt \in 1..3 /\ prompt \in 1..2 /\ try \in 1..Retries
    /\ resend \in 0..2
    /\ feedback \in Seq({"db", "precheck"} \X (1..3))
    /\ sql \in Candidates \cup {None}
    /\ sent \in Seq(Sent)
    /\ asked \in Nat
    /\ answer.status \in {0, 200, 400, 500}

(* The prompts written before the current one. *)
PromptsBefore == (attempt - 1) * 2 + (prompt - 1)

(* The requests one prompt may cost: three for every try. *)
PerPrompt == 3 * Retries

(* The requests made, counted by the loops. *)
EffortCounted ==
    /\ pc \in {"embedding", "schema"} => attempt = 1 /\ prompt = 1 /\ asked = 0
    /\ pc = "schema" => try = 1
    /\ pc = "generating" => asked <= PromptsBefore * PerPrompt + 3 * (try - 1) + resend
    /\ pc # "generating" => resend = 0
    /\ pc \in {"executing", "done"} => asked <= (PromptsBefore + 1) * PerPrompt

(* Attempts and statements sent go together; all but the last statement    *)
(* were rejected with a correctable error, and only the last may run.      *)
SendsCounted ==
    /\ pc \in {"embedding", "schema"} => sent = <<>>
    /\ pc = "generating" =>
           Len(sent) = attempt - 1 /\ \A i \in DOMAIN sent : sent[i].answer = "correctable"
    /\ pc = "executing" => Len(sent) = attempt
    /\ pc = "done" => Len(sent) <= attempt
    /\ \A i \in DOMAIN sent : i < Len(sent) => sent[i].answer = "correctable"
    /\ inflight \subseteq DOMAIN sent /\ inflight \subseteq {Len(sent)}
    /\ pc \notin {"executing", "done"} => inflight = {}
    /\ attempt > 1 => exposed
    /\ PrecheckedIsCleanable

(* The statement that is executed is the one sent last. *)
SentIsCurrent == pc = "executing" => execute /\ sent[Len(sent)].stmt = sql

(* Nothing is quoted before the first prompt. *)
QuotesFresh == FeedbackFresh /\ (pc \in {"embedding", "schema"} => feedback = <<>>)

Sound ==
    /\ Typed /\ EffortCounted /\ SendsCounted /\ SentIsCurrent /\ QuotesFresh
    /\ AnswerAboutLastStatement
-----------------------------------------------------------------------------
(* AI_RETRIES is at least one.                                             *)
LEMMA RetriesNat == Retries \in Nat /\ Retries >= 1 /\ PerPrompt \in Nat
BY TextToSqlAssumption DEF PerPrompt

(* The budget grows with the prompts and is six prompts at the end. *)
LEMMA Budget ==
    ASSUME NEW k \in 0..5
    PROVE  /\ (k + 1) * PerPrompt = k * PerPrompt + PerPrompt
           /\ k * PerPrompt \in Nat
           /\ (k + 1) * PerPrompt <= 6 * PerPrompt
<1>1. PerPrompt \in Nat
  BY RetriesNat
<1>2. PICK R \in Nat : R = PerPrompt
  BY <1>1
<1>3. k = 0 \/ k = 1 \/ k = 2 \/ k = 3 \/ k = 4 \/ k = 5
  OBVIOUS
<1>4. \A n \in {0, 1, 2, 3, 4, 5} : /\ (n + 1) * R = n * R + R
                                    /\ n * R \in Nat /\ (n + 1) * R <= 6 * R
  OBVIOUS
<1> QED BY <1>2, <1>3, <1>4

(* At most five prompts precede the one under way.                         *)
LEMMA PromptsInRange ==
    ASSUME Typed
    PROVE  PromptsBefore \in 0..5
BY DEF Typed, PromptsBefore

(* The request as it arrives has the types.                                *)
LEMMA TypedInit == Init => Typed
<1> SUFFICES ASSUME Init PROVE Typed
  OBVIOUS
<1>1. 1 \in 1..Retries
  BY RetriesNat
<1>2. answer.status = 0
  BY DEF Init, NoAnswer
<1> QED BY <1>1, <1>2 DEF Init, Typed

(* A response ends the request.                                            *)
LEMMA RespondTypes ==
    ASSUME NEW status \in {200, 400, 500}, NEW s, NEW rows, Respond(status, s, rows)
    PROVE  pc' = "done" /\ answer'.status = status /\ answer'.sql = s /\ answer'.rows = rows
           /\ answer' = [status |-> status, sql |-> s, rows |-> rows]
BY DEF Respond

(* The route turns an exception into a 500.                                *)
LEMMA FailTypes ==
    ASSUME Fail
    PROVE  pc' = "done" /\ answer'.status = 500
BY RespondTypes DEF Fail

(* A statement that passes the pre-check begins with select once the BFF   *)
(* has unwrapped it, so the repair of clean_sql leaves it as it is.        *)
LEMMA PrecheckedCleans ==
    ASSUME NEW s, PrecheckSql(s)
    PROVE  Cleanable(s.head)
<1>1. PICK h : h = Unprefixed(Unfenced(s.head))
  OBVIOUS
<1>2. h # <<>> /\ Head(h) = "select"
  BY <1>1 DEF PrecheckSql, StripSqlFraming, StartsWith
<1>3. Cleaned(s.head) = h
  BY <1>1, <1>2 DEF Cleaned, Repaired, StartsWith
<1> QED BY <1>2, <1>3 DEF Cleanable, StartsWith

(* Nothing was asked and nothing was sent.                                 *)
LEMMA InitSound == Init => Sound
<1> SUFFICES ASSUME Init PROVE Sound
  OBVIOUS
<1>1. Typed
  BY TypedInit
<1>2. EffortCounted /\ SentIsCurrent
  BY DEF Init, EffortCounted, SentIsCurrent
<1>3. SendsCounted
  BY DEF Init, SendsCounted, PrecheckedIsCleanable
<1>4. QuotesFresh /\ AnswerAboutLastStatement
  BY DEF Init, QuotesFresh, FeedbackFresh, AnswerAboutLastStatement
<1> QED BY <1>1, <1>2, <1>3, <1>4 DEF Sound

-----------------------------------------------------------------------------
(* One lemma per action.                                                   *)

(* The answer of a request that fails while it generates: nothing that was *)
(* sent has an error to be shown.                                          *)
LEMMA FailSound ==
    ASSUME Sound, pc # "executing", pc # "done", Fail, UNCHANGED <<config, sent, inflight>>
    PROVE  AnswerAboutLastStatement' /\ SentIsCurrent' /\ QuotesFresh'
<1>1. pc' = "done" /\ answer'.status = 500
  BY FailTypes
<1>2. pc \in {"embedding", "schema", "generating"}
  BY DEF Sound, Typed
<1>3. Len(sent) = 0 \/ Len(sent) = attempt - 1
  BY <1>2 DEF Sound, SendsCounted
<1>4. Len(sent) < 3 /\ sent \in Seq(Sent)
  BY <1>3 DEF Sound, Typed
<1>5. sent # <<>> => Last(sent).answer = "correctable"
  <2> SUFFICES ASSUME sent # <<>> PROVE Last(sent).answer = "correctable"
    OBVIOUS
  <2>1. pc = "generating"
    BY <1>2 DEF Sound, SendsCounted
  <2>2. Len(sent) \in DOMAIN sent
    BY <1>4
  <2> QED BY <2>1, <2>2 DEF Sound, SendsCounted, Last
<1>6. AnswerAboutLastStatement'
  <2>0. Len(sent) # MAX_EXECUTION_ATTEMPTS
    BY <1>4 DEF MAX_EXECUTION_ATTEMPTS
  <2>1. sent' = sent /\ answer'.status # 200
    BY <1>1 DEF config
  <2>2. sent # <<>> => sent[Len(sent)].answer # "other"
    BY <1>5 DEF Last
  <2> QED BY <2>0, <2>1, <2>2 DEF AnswerAboutLastStatement, Last
<1>7. SentIsCurrent' /\ QuotesFresh'
  BY <1>1 DEF SentIsCurrent, QuotesFresh, FeedbackFresh
<1> QED BY <1>6, <1>7

(* The embedding of the question keeps the invariant.                      *)
LEMMA EmbedSound ==
    ASSUME Sound, Embed
    PROVE  Sound'
<1>1. pc = "embedding" /\ UNCHANGED <<config, attempt, prompt, resend, feedback, sql, sent, inflight, asked>>
  BY DEF Embed
<1>2. pc' \in {"embedding", "schema", "done"} /\ try' \in 1..Retries /\ (pc' = "schema" => try' = 1)
  BY RetriesNat, FailTypes DEF Embed, Sound, Typed
<1>3. answer'.status \in {0, 200, 400, 500}
  BY FailTypes DEF Embed, Sound, Typed
<1>4. Typed'
  BY <1>1, <1>2, <1>3 DEF Sound, Typed, config
<1>5. EffortCounted'
  <2>1. attempt = 1 /\ prompt = 1 /\ asked = 0 /\ resend' = 0
    BY <1>1 DEF Sound, EffortCounted
  <2>2. (0 + 1) * PerPrompt = 0 * PerPrompt + PerPrompt /\ 0 * PerPrompt \in Nat
    BY Budget
  <2>3. PromptsBefore' = 0
    BY <1>1, <2>1 DEF PromptsBefore
  <2>4. asked' <= (PromptsBefore' + 1) * PerPrompt
    BY <1>1, <2>1, <2>2, <2>3, RetriesNat
  <2> QED BY <1>1, <1>2, <2>1, <2>4 DEF EffortCounted
<1>6. SendsCounted'
  <2>1. sent = <<>> /\ inflight = {} /\ attempt = 1
    BY <1>1 DEF Sound, SendsCounted, EffortCounted
  <2> QED BY <1>1, <1>2, <2>1 DEF SendsCounted, PrecheckedIsCleanable
<1>7. AnswerAboutLastStatement' /\ SentIsCurrent' /\ QuotesFresh'
  <2>1. CASE Fail
    BY <1>1, <2>1, FailSound
  <2>2. CASE ~Fail
    <3>1. pc' \in {"embedding", "schema"}
      BY <1>1, <2>2 DEF Embed
    <3>2. feedback = <<>>
      BY <1>1 DEF Sound, QuotesFresh
    <3> QED BY <1>1, <3>1, <3>2 DEF AnswerAboutLastStatement, SentIsCurrent, QuotesFresh, FeedbackFresh
  <2> QED BY <2>1, <2>2
<1> QED BY <1>4, <1>5, <1>6, <1>7 DEF Sound

(* The schema, or its absence, keeps the invariant.                        *)
LEMMA SchemaSound ==
    ASSUME Sound, GetRelevantSchema
    PROVE  Sound'
<1>1. pc = "schema" /\ UNCHANGED <<config, attempt, prompt, try, resend, feedback, sql, sent, inflight, asked>>
  BY DEF GetRelevantSchema, loopVars
<1>2. pc' \in {"generating", "done"}
  BY FailTypes DEF GetRelevantSchema
<1>3. answer'.status \in {0, 200, 400, 500}
  BY FailTypes DEF GetRelevantSchema, Sound, Typed
<1>4. Typed'
  BY <1>1, <1>2, <1>3 DEF Sound, Typed, config
<1>0. attempt = 1 /\ prompt = 1 /\ asked = 0 /\ try = 1 /\ resend = 0 /\ sent = <<>> /\ inflight = {} /\ feedback = <<>>
  BY <1>1 DEF Sound, EffortCounted, SendsCounted, QuotesFresh
<1>5. EffortCounted'
  <2>2. (0 + 1) * PerPrompt = 0 * PerPrompt + PerPrompt /\ 0 * PerPrompt \in Nat
    BY Budget
  <2>3. PromptsBefore' = 0
    BY <1>1, <1>0 DEF PromptsBefore
  <2> QED BY <1>1, <1>2, <1>0, <2>2, <2>3, RetriesNat DEF EffortCounted
<1>6. SendsCounted'
  BY <1>1, <1>2, <1>0 DEF SendsCounted, PrecheckedIsCleanable
<1>7. AnswerAboutLastStatement' /\ SentIsCurrent' /\ QuotesFresh'
  <2>1. CASE Fail
    BY <1>1, <2>1, FailSound
  <2>2. CASE ~Fail
    <3>1. pc' = "generating"
      BY <1>1, <2>2 DEF GetRelevantSchema
    <3> QED BY <1>1, <3>1, <1>0 DEF AnswerAboutLastStatement, SentIsCurrent, QuotesFresh, FeedbackFresh
  <2> QED BY <2>1, <2>2
<1> QED BY <1>4, <1>5, <1>6, <1>7 DEF Sound

(* A request to the model is within the budget of the current prompt. *)
LEMMA OneMoreAsked ==
    ASSUME Sound, pc = "generating", asked' = asked + 1
    PROVE  /\ asked' \in Nat
           /\ asked' <= PromptsBefore * PerPrompt + 3 * (try - 1) + resend + 1
           /\ asked' <= PromptsBefore * PerPrompt + 3 * try
           /\ asked' <= (PromptsBefore + 1) * PerPrompt
<1>1. PICK b \in 0..5 : b = PromptsBefore
  BY PromptsInRange DEF Sound
<1>2. (b + 1) * PerPrompt = b * PerPrompt + PerPrompt /\ b * PerPrompt \in Nat
  BY Budget
<1>3. /\ asked <= b * PerPrompt + 3 * (try - 1) + resend /\ asked \in Nat
      /\ try \in 1..Retries /\ resend \in 0..2
  BY <1>1 DEF Sound, EffortCounted, Typed
<1>4. PICK m \in Nat : m = b * PerPrompt
  BY <1>2
<1>5. 3 * try <= PerPrompt
  BY <1>3, RetriesNat DEF PerPrompt
<1> QED BY <1>1, <1>2, <1>3, <1>4, <1>5, RetriesNat

(* A model error that is not retried ends the request.                     *)
LEMMA ModelFailsSound ==
    ASSUME Sound, ModelFails
    PROVE  Sound'
<1>1. pc = "generating" /\ UNCHANGED <<config, attempt, prompt, try, feedback, sql, sent, inflight>>
      /\ asked' = asked + 1 /\ resend' = 0 /\ Fail
  BY DEF ModelFails, Ask, loopVars
<1>2. pc' = "done" /\ answer'.status = 500
  BY <1>1, FailTypes
<1>3. asked' \in Nat /\ asked' <= (PromptsBefore + 1) * PerPrompt
  BY <1>1, OneMoreAsked
<1>4. Typed'
  BY <1>1, <1>2, <1>3 DEF Sound, Typed, config
<1>5. EffortCounted'
  <2>1. PromptsBefore' = PromptsBefore
    BY <1>1 DEF PromptsBefore
  <2> QED BY <1>2, <1>3, <1>1, <2>1 DEF EffortCounted
<1>6. SendsCounted'
  BY <1>1, <1>2 DEF Sound, Typed, SendsCounted, PrecheckedIsCleanable, config
<1>7. AnswerAboutLastStatement' /\ SentIsCurrent' /\ QuotesFresh'
  BY <1>1, FailSound
<1> QED BY <1>4, <1>5, <1>6, <1>7 DEF Sound

(* A resend of the SDK counts one request of its try.                      *)
LEMMA SdkResendsSound ==
    ASSUME Sound, SdkResends
    PROVE  Sound'
<1>1. /\ pc = "generating" /\ resend < 2 /\ resend' = resend + 1 /\ asked' = asked + 1
      /\ UNCHANGED <<pc, config, attempt, prompt, try, feedback, sql, sent, inflight, answer>>
  BY DEF SdkResends, loopVars, DEFAULT_MAX_RETRIES
<1>2. asked' \in Nat /\ asked' <= PromptsBefore * PerPrompt + 3 * (try - 1) + resend + 1
  BY <1>1, OneMoreAsked
<1>3. resend \in 0..2 /\ resend' \in 0..2
  BY <1>1 DEF Sound, Typed
<1>4. Typed'
  BY <1>1, <1>2, <1>3 DEF Sound, Typed, config
<1>5. EffortCounted'
  <2>1. PromptsBefore' = PromptsBefore
    BY <1>1 DEF PromptsBefore
  <2>2. PICK m \in Nat : m = PromptsBefore * PerPrompt
    BY Budget, PromptsInRange DEF Sound
  <2>3. asked' <= PromptsBefore' * PerPrompt + 3 * (try' - 1) + resend'
    BY <1>1, <1>2, <1>3, <2>1, <2>2 DEF Sound, Typed
  <2> QED BY <1>1, <2>3 DEF EffortCounted
<1>6. SendsCounted'
  BY <1>1 DEF Sound, SendsCounted, PrecheckedIsCleanable, config
<1>7. AnswerAboutLastStatement' /\ SentIsCurrent' /\ QuotesFresh'
  BY <1>1 DEF Sound, AnswerAboutLastStatement, SentIsCurrent, QuotesFresh, FeedbackFresh
<1> QED BY <1>4, <1>5, <1>6, <1>7 DEF Sound

(* A retry of AIService counts one try.                                    *)
LEMMA ModelRetriesSound ==
    ASSUME Sound, ModelRetries
    PROVE  Sound'
<1>1. pc = "generating" /\ try < Retries /\ try' = try + 1 /\ asked' = asked + 1 /\ resend' = 0
      /\ UNCHANGED <<pc, config, attempt, prompt, feedback, sql, sent, inflight, answer>>
  BY DEF ModelRetries, Ask
<1>3. asked' \in Nat /\ asked' <= PromptsBefore * PerPrompt + 3 * try
  BY <1>1, OneMoreAsked
<1>t. try' \in 1..Retries /\ try' - 1 = try
  BY <1>1, RetriesNat DEF Sound, Typed
<1>4. Typed'
  BY <1>1, <1>3, <1>t DEF Sound, Typed, config
<1>5. EffortCounted'
  <2>1. PromptsBefore' = PromptsBefore
    BY <1>1 DEF PromptsBefore
  <2>2. PICK m \in Nat : m = PromptsBefore * PerPrompt
    BY Budget, PromptsInRange DEF Sound
  <2>3. asked' <= PromptsBefore' * PerPrompt + 3 * (try' - 1) + resend'
    BY <1>1, <1>3, <1>t, <2>1, <2>2 DEF Sound, Typed
  <2> QED BY <1>1, <2>3 DEF EffortCounted
<1>6. SendsCounted'
  BY <1>1 DEF Sound, SendsCounted, PrecheckedIsCleanable, config
<1>7. AnswerAboutLastStatement' /\ SentIsCurrent' /\ QuotesFresh'
  BY <1>1 DEF Sound, AnswerAboutLastStatement, SentIsCurrent, QuotesFresh, FeedbackFresh
<1> QED BY <1>4, <1>5, <1>6, <1>7 DEF Sound

(* A reply the pre-check rejects counts one prompt.                        *)
LEMMA RejectSound ==
    ASSUME Sound, NEW s \in Candidates, Reject(s)
    PROVE  Sound'
<1>1. /\ pc = "generating" /\ asked' = asked + 1 /\ resend' = 0
      /\ UNCHANGED <<config, attempt, sql, sent, inflight>>
  BY DEF Reject, Ask
<1>2. asked' \in Nat /\ asked' <= (PromptsBefore + 1) * PerPrompt
  BY <1>1, OneMoreAsked
<1>3. /\ attempt \in 1..3 /\ prompt \in 1..2
      /\ feedback \in Seq({"db", "precheck"} \X (1..3))
  BY DEF Sound, Typed
<1>4. CASE ~LastPrompt /\ prompt' = prompt + 1 /\ try' = 1
           /\ feedback' = Append(feedback, <<"precheck", attempt>>) /\ UNCHANGED <<pc, answer>>
  <2>1. prompt = 1 /\ prompt' = 2
    BY <1>3, <1>4 DEF LastPrompt
  <2>2. <<"precheck", attempt>> \in {"db", "precheck"} \X (1..3)
    BY <1>3
  <2>3. feedback' \in Seq({"db", "precheck"} \X (1..3))
    BY <1>3, <1>4, <2>2
  <2>4. Typed'
    BY <1>1, <1>2, <1>4, <2>1, <2>3, RetriesNat DEF Sound, Typed, config
  <2>5. EffortCounted'
    <3>1. PromptsBefore \in 0..5 /\ PromptsBefore' = PromptsBefore + 1
      BY <1>1, <1>3, <2>1 DEF PromptsBefore
    <3>2. PromptsBefore' \in 0..5
      BY <1>1, <1>3, <2>1 DEF PromptsBefore
    <3>3. PromptsBefore' * PerPrompt \in Nat
      BY <3>2, Budget
    <3>4. asked' <= PromptsBefore' * PerPrompt + 3 * (try' - 1) + resend'
      BY <1>1, <1>2, <1>4, <3>1, <3>3
    <3> QED BY <1>1, <1>4, <3>4 DEF EffortCounted
  <2>6. SendsCounted'
    BY <1>1, <1>4 DEF Sound, SendsCounted, PrecheckedIsCleanable, config
  <2>7. AnswerAboutLastStatement' /\ SentIsCurrent'
    BY <1>1, <1>4 DEF Sound, AnswerAboutLastStatement, SentIsCurrent
  <2>8. QuotesFresh'
    <3> SUFFICES ASSUME NEW i \in DOMAIN feedback'
                 PROVE  /\ feedback'[i][1] = "db" => i = 1 /\ feedback'[i][2] = attempt - 1
                        /\ feedback'[i][1] = "precheck" => feedback'[i][2] = attempt
      BY <1>1, <1>4 DEF QuotesFresh, FeedbackFresh
    <3>1. CASE i \in DOMAIN feedback
      <4>1. feedback'[i] = feedback[i]
        BY <1>3, <1>4, <2>2, <3>1
      <4> QED BY <1>1, <3>1, <4>1 DEF Sound, QuotesFresh, FeedbackFresh
    <3>2. CASE i \notin DOMAIN feedback
      <4>1. feedback'[i] = <<"precheck", attempt>>
        BY <1>3, <1>4, <2>2, <3>2
      <4> QED BY <4>1
    <3> QED BY <3>1, <3>2
  <2> QED BY <2>4, <2>5, <2>6, <2>7, <2>8 DEF Sound
<1>5. CASE Fail /\ UNCHANGED <<prompt, try, feedback>>
  <2>1. pc' = "done" /\ answer'.status = 500
    BY <1>5, FailTypes
  <2>2. Typed'
    BY <1>1, <1>2, <1>5, <2>1 DEF Sound, Typed, config
  <2>3. EffortCounted'
    <3>1. PromptsBefore' = PromptsBefore
      BY <1>1, <1>5 DEF PromptsBefore
    <3> QED BY <1>1, <1>2, <2>1, <3>1 DEF EffortCounted
  <2>4. SendsCounted'
    BY <1>1, <1>3, <2>1 DEF Sound, SendsCounted, PrecheckedIsCleanable, config
  <2>5. AnswerAboutLastStatement' /\ SentIsCurrent' /\ QuotesFresh'
    BY <1>1, <1>5, FailSound
  <2> QED BY <2>2, <2>3, <2>4, <2>5 DEF Sound
<1> QED BY <1>4, <1>5 DEF Reject

(* A reply that passes is sent, or answered if nothing is to be executed.  *)
LEMMA AcceptSound ==
    ASSUME Sound, NEW s \in Candidates, Accept(s)
    PROVE  Sound'
<1>1. /\ pc = "generating" /\ asked' = asked + 1 /\ resend' = 0 /\ sql' = s
      /\ PrecheckSql(s) /\ UNCHANGED <<config, attempt, prompt, try, feedback>>
  BY DEF Accept, Ask, loopVars
<1>2. asked' \in Nat /\ asked' <= (PromptsBefore + 1) * PerPrompt
  BY <1>1, OneMoreAsked
<1>3. PromptsBefore' = PromptsBefore
  BY <1>1 DEF PromptsBefore
<1>4. sent \in Seq(Sent) /\ Len(sent) = attempt - 1 /\ attempt \in 1..3
  BY <1>1 DEF Sound, Typed, SendsCounted
<1>5. CASE ~execute /\ Respond(200, s, 0) /\ UNCHANGED <<sent, inflight>>
  <2>1. pc' = "done" /\ answer'.status = 200
    BY <1>5, RespondTypes
  <2>2. Typed'
    BY <1>1, <1>2, <1>5, <2>1 DEF Sound, Typed, config
  <2>3. EffortCounted'
    BY <1>1, <1>2, <1>3, <2>1 DEF EffortCounted
  <2>4. SendsCounted'
    BY <1>1, <1>4, <1>5, <2>1 DEF Sound, SendsCounted, PrecheckedIsCleanable, config
  <2>5. AnswerAboutLastStatement' /\ SentIsCurrent' /\ QuotesFresh'
    BY <1>1, <1>5, <2>1 DEF AnswerAboutLastStatement, SentIsCurrent, QuotesFresh, FeedbackFresh, config
  <2> QED BY <2>2, <2>3, <2>4, <2>5 DEF Sound
<1>6. CASE /\ execute /\ pc' = "executing"
           /\ sent' = Append(sent, [stmt |-> s, answer |-> "none"])
           /\ inflight' = inflight \cup {Len(sent) + 1} /\ UNCHANGED answer
  <2>1. PICK o \in Sent : o = [stmt |-> s, answer |-> "none"]
    BY DEF Sent
  <2>2. o.stmt = s
    BY <2>1
  <2>3. sent' = Append(sent, o)
    BY <1>6, <2>1
  <2>4. /\ sent' \in Seq(Sent) /\ Len(sent') = Len(sent) + 1 /\ sent'[Len(sent) + 1] = o
        /\ \A i \in DOMAIN sent : i \in DOMAIN sent' /\ sent'[i] = sent[i]
        /\ \A i \in DOMAIN sent' : i \in DOMAIN sent \/ i = Len(sent')
        /\ Len(sent') \in DOMAIN sent'
    BY <1>4, <2>3
  <2>5. Typed'
    BY <1>1, <1>2, <1>6, <2>4 DEF Sound, Typed, config
  <2>6. EffortCounted'
    BY <1>1, <1>2, <1>3, <1>6 DEF EffortCounted
  <2>7. SendsCounted'
    <3>1. inflight' = {Len(sent')}
      BY <1>1, <1>6, <2>4 DEF Sound, SendsCounted
    <3>2. PrecheckedIsCleanable'
      <4> SUFFICES ASSUME NEW i \in DOMAIN sent' PROVE Cleanable(sent'[i].stmt.head)
        BY DEF PrecheckedIsCleanable
      <4>1. CASE i \in DOMAIN sent
        BY <4>1, <2>4 DEF Sound, SendsCounted, PrecheckedIsCleanable
      <4>2. CASE i = Len(sent')
        <5>1. sent'[i].stmt = s
          BY <4>2, <2>4, <2>2
        <5> QED BY <5>1, <1>1, PrecheckedCleans
      <4> QED BY <4>1, <4>2, <2>4
    <3>3. Len(sent') = attempt'
      BY <1>1, <1>4, <2>4
    <3>4. \A i \in DOMAIN sent' : i < Len(sent') => sent'[i].answer = "correctable"
      <4> SUFFICES ASSUME NEW i \in DOMAIN sent', i < Len(sent')
                   PROVE  sent'[i].answer = "correctable"
        OBVIOUS
      <4>1. i \in DOMAIN sent
        BY <2>4
      <4> QED BY <4>1, <2>4, <1>1 DEF Sound, SendsCounted
    <3>5. attempt' > 1 => exposed'
      BY <1>1 DEF Sound, SendsCounted, config
    <3> QED BY <1>6, <2>4, <3>1, <3>2, <3>3, <3>4, <3>5 DEF SendsCounted
  <2>8. SentIsCurrent'
    BY <1>1, <1>6, <2>4, <2>2 DEF SentIsCurrent, config
  <2>9. AnswerAboutLastStatement' /\ QuotesFresh'
    BY <1>6 DEF AnswerAboutLastStatement, QuotesFresh, FeedbackFresh
  <2> QED BY <2>5, <2>6, <2>7, <2>8, <2>9 DEF Sound
<1> QED BY <1>5, <1>6 DEF Accept

(* The query API finishing a statement nobody waits for keeps the          *)
(* invariant.                                                              *)
LEMMA ApiEndsSound ==
    ASSUME Sound, NEW i \in DOMAIN sent, ApiEnds(i)
    PROVE  Sound'
<1>1. /\ inflight' \subseteq inflight
      /\ UNCHANGED <<pc, config, attempt, prompt, try, resend, feedback, sql, sent, asked, answer>>
  BY DEF ApiEnds, loopVars
<1>2. Typed'
  BY <1>1 DEF Sound, Typed, config
<1>3. EffortCounted'
  BY <1>1 DEF Sound, EffortCounted, PromptsBefore
<1>4. SendsCounted'
  BY <1>1 DEF Sound, SendsCounted, PrecheckedIsCleanable, config
<1>5. SentIsCurrent' /\ QuotesFresh' /\ AnswerAboutLastStatement'
  BY <1>1 DEF Sound, SentIsCurrent, QuotesFresh, FeedbackFresh, AnswerAboutLastStatement, config
<1> QED BY <1>2, <1>3, <1>4, <1>5 DEF Sound

(* The answer of _execute_sql ends the request, or starts the next round   *)
(* with a correctable error as its only quotation.                         *)
LEMMA ExecutedSound ==
    ASSUME Sound, NEW a \in {"rows", "refused", "withheld", "correctable", "other", "http"},
           Executed(a)
    PROVE  Sound'
<1>1. /\ pc = "executing" /\ a \in ApiAnswers(sql)
      /\ sent' = [sent EXCEPT ![Len(sent)] = [sent[Len(sent)] EXCEPT !.answer = a]]
      /\ inflight' \subseteq inflight /\ (a # "http" => inflight' \subseteq inflight \ {Len(sent)})
      /\ UNCHANGED <<execute, exposed, resend, sql, asked>> /\ resend' = 0
  BY DEF Executed, config, Sound, EffortCounted
<1>2. /\ sent \in Seq(Sent) /\ Len(sent) = attempt /\ attempt \in 1..3
      /\ execute /\ sent[Len(sent)].stmt = sql
  BY <1>1 DEF Sound, Typed, SendsCounted, SentIsCurrent
<1>3. Len(sent) \in DOMAIN sent
  BY <1>2
<1>4. PICK o \in Sent : o = sent[Len(sent)]
  BY <1>2, <1>3
<1>5. PICK r : r = [o EXCEPT !.answer = a]
  OBVIOUS
<1>6. r \in Sent /\ r.stmt = sql /\ r.answer = a
  BY <1>2, <1>4, <1>5 DEF Sent
<1>7. sent' = [sent EXCEPT ![Len(sent)] = r]
  BY <1>1, <1>4, <1>5
<1>8. /\ sent' \in Seq(Sent) /\ Len(sent') = Len(sent) /\ DOMAIN sent' = DOMAIN sent
      /\ sent'[Len(sent)] = r
      /\ \A i \in DOMAIN sent : i # Len(sent) => sent'[i] = sent[i]
  BY <1>2, <1>3, <1>6, <1>7
<1>9. PrecheckedIsCleanable'
  <2> SUFFICES ASSUME NEW i \in DOMAIN sent PROVE Cleanable(sent'[i].stmt.head)
    BY <1>8 DEF PrecheckedIsCleanable
  <2>1. sent'[i].stmt = sent[i].stmt
    BY <1>2, <1>6, <1>8
  <2> QED BY <2>1 DEF Sound, SendsCounted, PrecheckedIsCleanable
<1>10. /\ \A i \in DOMAIN sent' : i < Len(sent') => sent'[i].answer = "correctable"
       /\ inflight' \subseteq DOMAIN sent' /\ inflight' \subseteq {Len(sent')}
       /\ a # "http" => inflight' = {}
  <2>1. \A i \in DOMAIN sent : i < Len(sent) => sent'[i].answer = "correctable"
    <3> SUFFICES ASSUME NEW i \in DOMAIN sent, i < Len(sent)
                 PROVE  sent'[i].answer = "correctable"
      OBVIOUS
    <3>1. sent'[i] = sent[i]
      BY <1>2, <1>8
    <3> QED BY <3>1 DEF Sound, SendsCounted
  <2>2. inflight \subseteq DOMAIN sent /\ inflight \subseteq {Len(sent)}
    BY DEF Sound, SendsCounted
  <2> QED BY <1>1, <1>8, <2>1, <2>2
<1>11. Last(sent') = r
  BY <1>8 DEF Last
<1>12. asked <= (PromptsBefore + 1) * PerPrompt
  BY <1>1 DEF Sound, EffortCounted
<1>13. a = "correctable" => exposed
  BY <1>1 DEF ApiAnswers
<1>14. (attempt > 1 => exposed) /\ asked \in Nat
  BY DEF Sound, SendsCounted, Typed
<1>15. CASE /\ Retryable(a) /\ ~LastAttempt
            /\ attempt' = attempt + 1 /\ prompt' = 1 /\ try' = 1
            /\ feedback' = Correction
            /\ pc' = "generating" /\ UNCHANGED answer
  <2>1. a = "correctable" /\ attempt \in 1..2
    BY <1>2, <1>15 DEF Retryable, LastAttempt, MAX_EXECUTION_ATTEMPTS
  <2>2. PICK q \in {"db", "precheck"} \X (1..3) : q = <<"db", attempt>>
    BY <1>2
  <2>3. feedback' = <<q>> /\ q[1] = "db" /\ q[2] = attempt
    BY <1>15, <2>2 DEF Correction
  <2>4. /\ feedback' \in Seq({"db", "precheck"} \X (1..3))
        /\ \A i \in DOMAIN feedback' : i = 1 /\ feedback'[i] = q
    BY <2>3
  <2>5. Typed'
    BY <1>1, <1>8, <1>14, <1>15, <2>1, <2>4, RetriesNat DEF Sound, Typed
  <2>6. EffortCounted'
    <3>1. prompt \in 1..2
      BY DEF Sound, Typed
    <3>2. PICK b \in 0..3 : b = PromptsBefore
      BY <2>1, <3>1 DEF PromptsBefore
    <3>3. PICK c \in 0..5 : c = PromptsBefore'
      BY <1>15, <2>1 DEF PromptsBefore
    <3>4. c = b + 1 \/ c = b + 2
      BY <1>15, <1>2, <3>1, <3>2, <3>3 DEF PromptsBefore
    <3>5. (b + 1) * PerPrompt = b * PerPrompt + PerPrompt /\ b * PerPrompt \in Nat
      BY Budget
    <3>6. (b + 1 + 1) * PerPrompt = (b + 1) * PerPrompt + PerPrompt /\ (b + 1) * PerPrompt \in Nat
      BY Budget
    <3>7. c * PerPrompt = (b + 1) * PerPrompt \/ c * PerPrompt = (b + 1) * PerPrompt + PerPrompt
      <4>1. CASE c = b + 1
        BY <4>1
      <4>2. CASE c = b + 2
        <5>1. c = b + 1 + 1
          BY <4>2
        <5> QED BY <5>1, <3>6
      <4> QED BY <3>4, <4>1, <4>2
    <3>8. PICK m \in Nat : m = (b + 1) * PerPrompt
      BY <3>6
    <3>9. asked <= m
      BY <1>12, <3>2, <3>8
    <3>10. PICK n \in Nat : n = c * PerPrompt /\ m <= n
      BY <3>7, <3>8, RetriesNat
    <3>11. asked <= n + 3 * (1 - 1) + 0
      BY <1>14, <3>9, <3>10
    <3>12. asked' <= PromptsBefore' * PerPrompt + 3 * (try' - 1) + resend'
      BY <1>1, <1>15, <3>3, <3>10, <3>11
    <3> QED BY <1>15, <3>12 DEF EffortCounted
  <2>7. SendsCounted'
    <3>1. Len(sent') = attempt' - 1
      BY <1>2, <1>8, <1>15
    <3>2. \A i \in DOMAIN sent' : sent'[i].answer = "correctable"
      <4> SUFFICES ASSUME NEW i \in DOMAIN sent' PROVE sent'[i].answer = "correctable"
        OBVIOUS
      <4>1. CASE i = Len(sent)
        BY <4>1, <1>6, <1>8, <2>1
      <4>2. CASE i # Len(sent)
        <5>1. i < Len(sent')
          BY <4>2, <1>2, <1>8
        <5> QED BY <5>1, <1>10
      <4> QED BY <4>1, <4>2
    <3>3. inflight' = {} /\ exposed'
      BY <1>1, <1>10, <1>13, <2>1
    <3> QED BY <1>9, <1>15, <3>1, <3>2, <3>3 DEF SendsCounted
  <2>8. SentIsCurrent' /\ AnswerAboutLastStatement'
    BY <1>15 DEF SentIsCurrent, AnswerAboutLastStatement
  <2>9. QuotesFresh'
    <3>1. attempt = attempt' - 1
      BY <1>2, <1>15
    <3>2. \A i \in DOMAIN feedback' :
              /\ feedback'[i][1] = "db" => i = 1 /\ feedback'[i][2] = attempt' - 1
              /\ feedback'[i][1] = "precheck" => feedback'[i][2] = attempt'
      BY <2>3, <2>4, <3>1
    <3> QED BY <1>15, <3>2 DEF QuotesFresh, FeedbackFresh
  <2> QED BY <2>5, <2>6, <2>7, <2>8, <2>9 DEF Sound
<1>16. ASSUME pc' = "done", answer'.status \in {200, 400, 500}, UNCHANGED loopVars,
              answer'.status = 200 => answer'.rows = Len(sent) /\ a = "rows" /\ answer'.sql = sql,
              a = "other" => answer' = [status |-> 500, sql |-> sql, rows |-> 0],
              a = "correctable" => answer'.sql = sql
       PROVE  Sound'
  <2>1. UNCHANGED <<attempt, prompt, try, feedback>>
    BY <1>16 DEF loopVars
  <2>2. Typed'
    BY <1>1, <1>8, <1>16, <2>1 DEF Sound, Typed
  <2>3. EffortCounted'
    <3>1. PromptsBefore' = PromptsBefore
      BY <2>1 DEF PromptsBefore
    <3> QED BY <1>1, <1>12, <1>16, <3>1 DEF EffortCounted
  <2>4. SendsCounted'
    <3>1. Len(sent') <= attempt'
      BY <1>2, <1>8, <2>1
    <3>2. attempt' > 1 => exposed'
      BY <1>1, <1>14, <2>1
    <3> QED BY <1>9, <1>10, <1>16, <3>1, <3>2 DEF SendsCounted
  <2>5. SentIsCurrent' /\ QuotesFresh'
    BY <1>16 DEF SentIsCurrent, QuotesFresh, FeedbackFresh
  <2>6. AnswerAboutLastStatement'
    BY <1>6, <1>8, <1>11, <1>16 DEF AnswerAboutLastStatement
  <2> QED BY <2>2, <2>3, <2>4, <2>5, <2>6 DEF Sound
<1>17. CASE a = "rows" /\ Respond(200, sql, Len(sent)) /\ UNCHANGED loopVars
  <2>1. pc' = "done" /\ answer'.status = 200 /\ answer'.sql = sql /\ answer'.rows = Len(sent)
    BY <1>17, RespondTypes
  <2> QED BY <1>16, <1>17, <2>1
<1>18. CASE /\ a \in {"correctable", "other"} /\ ShowDatabaseError /\ UNCHANGED loopVars
  <2>0. Respond(500, sql, 0)
    BY <1>18 DEF ShowDatabaseError
  <2>1. /\ pc' = "done" /\ answer'.status = 500 /\ answer'.sql = sql
        /\ answer' = [status |-> 500, sql |-> sql, rows |-> 0]
    BY <2>0, RespondTypes
  <2> QED BY <1>16, <1>18, <2>1
<1>19. CASE a \in {"refused", "withheld"} /\ Respond(400, sql, 0) /\ UNCHANGED loopVars
  <2>1. pc' = "done" /\ answer'.status = 400
    BY <1>19, RespondTypes
  <2> QED BY <1>16, <1>19, <2>1
<1>20. CASE a = "http" /\ Fail /\ UNCHANGED loopVars
  <2>1. pc' = "done" /\ answer'.status = 500
    BY <1>20, FailTypes
  <2> QED BY <1>16, <1>20, <2>1
<1> QED BY <1>15, <1>17, <1>18, <1>19, <1>20 DEF Executed

-----------------------------------------------------------------------------
(* The invariant is inductive.                                             *)
LEMMA StepSound ==
    ASSUME Sound, [Next]_vars
    PROVE  Sound'
<1>1. CASE Embed
  BY <1>1, EmbedSound
<1>2. CASE GetRelevantSchema
  BY <1>2, SchemaSound
<1>3. CASE Generate
  BY <1>3, SdkResendsSound, ModelFailsSound, ModelRetriesSound, RejectSound, AcceptSound DEF Generate
<1>4. CASE Execution
  BY <1>4, ExecutedSound DEF Execution
<1>5. CASE \E i \in DOMAIN sent : ApiEnds(i)
  BY <1>5, ApiEndsSound
<1>6. CASE UNCHANGED vars
  <2>1. UNCHANGED <<pc, execute, exposed, attempt, prompt, try, resend, feedback, sql, sent,
                    inflight, asked, answer>>
    BY <1>6 DEF vars
  <2>2. Typed' /\ EffortCounted'
    BY <2>1 DEF Sound, Typed, EffortCounted, PromptsBefore
  <2>3. SendsCounted' /\ SentIsCurrent'
    BY <2>1 DEF Sound, SendsCounted, PrecheckedIsCleanable, SentIsCurrent
  <2>4. QuotesFresh' /\ AnswerAboutLastStatement'
    BY <2>1 DEF Sound, QuotesFresh, FeedbackFresh, AnswerAboutLastStatement
  <2> QED BY <2>2, <2>3, <2>4 DEF Sound
<1> QED BY <1>1, <1>2, <1>3, <1>4, <1>5, <1>6 DEF Next

(* The rounds of generate_sql_from_text, in every reachable state. *)
LEMMA RoundsAreSound == Spec => []Sound
BY InitSound, StepSound, PTL DEF Spec

(* The counters of the four loops bound the effort.                        *)
LEMMA SoundBounds == Sound => LoopsBounded
<1> SUFFICES ASSUME Sound PROVE LoopsBounded
  OBVIOUS
<1>1. TypeOK
  BY DEF Sound, Typed, SendsCounted, TypeOK, MAX_EXECUTION_ATTEMPTS, DEFAULT_MAX_RETRIES
<1>2. Len(sent) <= 3
  <2>1. attempt \in 1..3 /\ sent \in Seq(Sent)
        /\ pc \in {"embedding", "schema", "generating", "executing", "done"}
    BY DEF Sound, Typed
  <2>2. /\ pc \in {"embedding", "schema"} => Len(sent) = 0
        /\ pc = "generating" => Len(sent) = attempt - 1
        /\ pc = "executing" => Len(sent) = attempt
        /\ pc = "done" => Len(sent) <= attempt
    BY DEF Sound, SendsCounted
  <2> QED BY <2>1, <2>2
<1>3. asked <= 6 * PerPrompt
  <2>1. PICK b \in 0..5 : b = PromptsBefore
    BY PromptsInRange DEF Sound
  <2>2. /\ (b + 1) * PerPrompt = b * PerPrompt + PerPrompt /\ b * PerPrompt \in Nat
        /\ (b + 1) * PerPrompt <= 6 * PerPrompt
    BY Budget
  <2>3. PICK m \in Nat : m = b * PerPrompt
    BY <2>2
  <2>4. asked = 0 \/ asked <= m + 3 * (try - 1) + resend \/ asked <= (b + 1) * PerPrompt
    BY <2>1, <2>3 DEF Sound, Typed, EffortCounted
  <2>5. try \in 1..Retries /\ asked \in Nat /\ resend \in 0..2
    BY DEF Sound, Typed
  <2>a. 3 * try <= PerPrompt
    BY <2>5, RetriesNat DEF PerPrompt
  <2>6. asked <= m + PerPrompt
    BY <2>2, <2>3, <2>4, <2>5, <2>a, RetriesNat
  <2>7. PICK n \in Nat : n = 6 * PerPrompt
    BY RetriesNat
  <2> QED BY <2>2, <2>3, <2>5, <2>6, <2>7, RetriesNat
<1>4. MAX_EXECUTION_ATTEMPTS * 2 * Retries * (1 + DEFAULT_MAX_RETRIES) = 6 * PerPrompt
  BY RetriesNat DEF MAX_EXECUTION_ATTEMPTS, DEFAULT_MAX_RETRIES, PerPrompt
<1> QED BY <1>1, <1>2, <1>3, <1>4 DEF LoopsBounded, EffortBounded, MAX_EXECUTION_ATTEMPTS

(* The history of sends follows the correction loop.                       *)
LEMMA SoundSends == Sound => SendJustified
<1> SUFFICES ASSUME Sound PROVE SendJustified
  OBVIOUS
<1>1. sent \in Seq(Sent)
  BY DEF Sound, Typed
<1>2. \A i \in 1 .. (Len(sent) - 1) : sent[i].answer = "correctable"
  <2> SUFFICES ASSUME NEW i \in 1 .. (Len(sent) - 1) PROVE sent[i].answer = "correctable"
    OBVIOUS
  <2>1. i \in DOMAIN sent /\ i < Len(sent)
    BY <1>1
  <2> QED BY <2>1 DEF Sound, SendsCounted
<1>3. Cardinality(inflight) <= 1
  <2>1. inflight \subseteq {Len(sent)}
    BY DEF Sound, SendsCounted
  <2>2. IsFiniteSet({Len(sent)}) /\ Cardinality({Len(sent)}) = 1
    BY FS_Singleton
  <2> QED BY <2>1, <2>2, FS_Subset
<1>4. ~exposed => Len(sent) <= 1
  <2>1. attempt \in 1..3 /\ pc \in {"embedding", "schema", "generating", "executing", "done"}
    BY DEF Sound, Typed
  <2>2. /\ pc \in {"embedding", "schema"} => Len(sent) = 0
        /\ pc = "generating" => Len(sent) = attempt - 1
        /\ pc = "executing" => Len(sent) = attempt
        /\ pc = "done" => Len(sent) <= attempt
        /\ attempt > 1 => exposed
    BY DEF Sound, SendsCounted
  <2>3. Len(sent) \in Nat
    BY <1>1
  <2> QED BY <2>1, <2>2, <2>3
<1>5. PrecheckedIsCleanable
  BY DEF Sound, SendsCounted
<1> QED BY <1>2, <1>3, <1>4, <1>5 DEF SendJustified, ResentOnlyAfterRejection, NoCorrectionWithoutDetail

(* text_to_sql_service.py, the loops of generate_sql_from_text, of         *)
(* _generate_sql_with_llm, of AIService and of the OpenAI SDK: whatever    *)
(* the model and the database answer, one request makes at most            *)
(* 3 * 2 * AI_RETRIES * 3 requests to the model and sends at most three    *)
(* statements.                                                             *)
THEOREM RequestsAreBounded == Spec => []LoopsBounded
BY RoundsAreSound, SoundBounds, PTL

(* text_to_sql_service.py, generate_sql_from_text: every statement sent    *)
(* can be unwrapped by the query API, follows a rejected one only when the *)
(* database said why, and never runs beside another.                       *)
THEOREM SendsAreJustified == Spec => []SendJustified
BY RoundsAreSound, SoundSends, PTL

(* text_to_sql_service.py, generate_sql_from_text: a prompt quotes the     *)
(* error of the statement executed last, and the answer is about it.       *)
THEOREM QuotationsAreFresh == Spec => []QuotesLastStatement
<1>1. Sound => QuotesLastStatement
  BY DEF Sound, QuotesFresh, QuotesLastStatement
<1> QED BY <1>1, RoundsAreSound, PTL
=============================================================================
