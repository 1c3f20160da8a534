---------------------------- MODULE DisplayProofs ---------------------------
(***************************************************************************)
(* Proofs about what a user is shown: Workspace, for every set of          *)
(* statements and every number of executions (the busy displays, the       *)
(* mix-ups of answers and the verdict); and ResultPresentation, for every  *)
(* result, every reply of the model's service and every configuration.     *)
(***************************************************************************)
EXTENDS Workspace, ResultPresentation, FiniteSetTheorems, SequenceTheorems,
        WellFoundedInduction, TLAPS

(* The sign-in. *)
AuthTyped ==
    /\ page \in {"workspace", "login", "callback"}
    /\ callback \in {"loading", "success", "error"}
    /\ token \in BOOLEAN /\ user \in BOOLEAN /\ leaving \in BOOLEAN
    /\ user => token

(* The editors and the generation. *)
EditorTyped ==
    /\ queryMode \in {"sql", "ask"} /\ sqlQuery \in Texts /\ generatedSql \in Texts
    /\ editing \in BOOLEAN /\ isGenerating \in BOOLEAN /\ asking \in BOOLEAN
    /\ runQuery \in Texts \cup {NoEditor} /\ (runQuery = NoEditor <=> ~Mounted)
    /\ isGenerating <=> asking

(* The executions and what is shown of them. *)
CoreTyped ==
    /\ calls \in Seq(Call)
    /\ queryResults \in 0 .. Len(calls)
    /\ regenerated \in BOOLEAN
    /\ executionStatus \in {"idle", "validating", "executing", "success", "error"}

(* An error is none, one without an execution, or that of an execution. *)
ErrorShaped ==
    \/ queryError = NoError
    \/ queryError = Cause("blank")
    \/ queryError = Cause("generation")
    \/ queryError \in [cause : {"execution"}, call : 1 .. Len(calls)]

(* A spinner belongs to a timer or a request. *)
SpinnerBacked ==
    /\ executionStatus = "validating" => \E k \in DOMAIN calls : calls[k].phase = "waiting"
    /\ executionStatus = "executing" => \E k \in DOMAIN calls : calls[k].phase = "posted"

(* Executions that are in flight together, or were overtaken, are marked. *)
OverlapMarked ==
    /\ \A k \in InFlight : k # Len(calls) => calls[k].over
    /\ \A j, k \in InFlight : j # k => calls[j].over

(* An error that is shown while something runs is of an overlapping one:   *)
(* whatever runs was started after the error was reset.                    *)
ErrorOverlaps ==
    (queryError.cause = "execution" /\ InFlight # {}) => calls[queryError.call].over

(* Without Cmd+Enter and Clear the status covers the one that runs. *)
Serial ==
    (\A k \in DOMAIN calls : calls[k].how = "button" /\ ~calls[k].cleared) =>
        /\ InFlight # {} => IsExecuting
        /\ \A j, k \in InFlight : j = k

(* The verdict of the last answer is shown or something explains why not.  *)
Explained ==
    \/ queryError.cause \in {"blank", "generation"}
    \/ regenerated
    \/ queryError.cause = "execution" /\ calls[queryError.call].over

VerdictKept ==
    /\ executionStatus = "success" =>
           (queryError = NoError /\ queryResults # 0) \/ Explained
    /\ executionStatus = "error" => queryError # NoError \/ Explained

Core ==
    /\ CoreTyped /\ ErrorShaped /\ SpinnerBacked /\ OverlapMarked /\ ErrorOverlaps
    /\ Serial /\ StaleOnlyByOverlap /\ ButtonRunsWhatIsShown /\ VerdictKept
-----------------------------------------------------------------------------
(* What a step does to the executions and their display.                   *)
coreVars == <<calls, queryResults, queryError, regenerated, executionStatus>>

Resets ==
    /\ calls' = <<>> /\ queryResults' = 0 /\ queryError' = NoError
    /\ regenerated' = FALSE /\ executionStatus' = "idle"

(* handleExecuteSql of a statement; the button needs an idle page. *)
Starts(how, shown) ==
    /\ how = "button" => shown /\ ~IsExecuting
    /\ executionStatus' = "validating"
    /\ queryError' = NoError /\ queryResults' = 0 /\ regenerated' = FALSE
    /\ calls' = [k \in DOMAIN calls |->
                    IF k \in InFlight THEN [calls[k] EXCEPT !.over = TRUE] ELSE calls[k]]
                \o <<[phase |-> "waiting", how |-> how, asShown |-> shown,
                      over |-> InFlight # {}, cleared |-> FALSE]>>

(* A blank statement or a failed generation sets its error. *)
Complains ==
    /\ queryError' \in {Cause("blank"), Cause("generation")}
    /\ UNCHANGED <<calls, queryResults, regenerated, executionStatus>>

Regenerates ==
    /\ queryError' = NoError /\ queryResults' = 0 /\ regenerated' = TRUE
    /\ UNCHANGED <<calls, executionStatus>>

Advances(k, phase) == calls' = [calls EXCEPT ![k] = [calls[k] EXCEPT !.phase = phase]]

Posts(k) ==
    /\ calls[k].phase = "waiting" /\ Advances(k, "posted")
    /\ executionStatus' = "executing"
    /\ UNCHANGED <<queryResults, queryError, regenerated>>

Succeeds(k) ==
    /\ calls[k].phase = "posted" /\ Advances(k, "done")
    /\ queryResults' = k /\ regenerated' = FALSE /\ executionStatus' = "success"
    /\ UNCHANGED queryError

Fails(k) ==
    /\ calls[k].phase = "posted" /\ Advances(k, "done")
    /\ queryError' = [cause |-> "execution", call |-> k]
    /\ regenerated' = FALSE /\ executionStatus' = "error"
    /\ UNCHANGED queryResults

Clears ==
    /\ queryResults' = 0 /\ queryError' = NoError /\ regenerated' = FALSE
    /\ executionStatus' = "idle"
    /\ calls' = [k \in DOMAIN calls |->
                    [calls[k] EXCEPT !.cleared = calls[k].cleared \/ k \in InFlight]]

Moves ==
    \/ UNCHANGED coreVars \/ Resets \/ Complains \/ Regenerates \/ Clears
    \/ \E how \in {"button", "shortcut"}, shown \in BOOLEAN : Starts(how, shown)
    \/ \E k \in DOMAIN calls : Posts(k) \/ Succeeds(k) \/ Fails(k)

(* Every step is, for the results, one of the moves above.                 *)
LEMMA StepMoves ==
    ASSUME [Next]_vars
    PROVE  Moves
<1>1. CASE UNCHANGED vars
  BY <1>1 DEF vars, verdictVars, Moves, coreVars
<1>2. CASE SwitchMode \/ ToggleEditing \/ (\E text \in Texts : Type(text))
  BY <1>2 DEF SwitchMode, ToggleEditing, Type, verdictVars, Moves, coreVars
<1>3. ASSUME NEW sql, NEW how \in {"button", "shortcut"},
             how = "button" => sql = EditorText /\ ~IsExecuting,
             HandleExecuteSql(sql, how)
      PROVE  Moves
  <2>1. CASE sql \notin Statements
    BY <1>3, <2>1 DEF HandleExecuteSql, Complains, Moves
  <2>2. CASE sql \in Statements
    <3>1. PICK shown \in BOOLEAN : shown = (sql = EditorText)
      OBVIOUS
    <3>2. Starts(how, shown)
      BY <1>3, <2>2, <3>1 DEF HandleExecuteSql, Starts, Overlapping
    <3> QED BY <3>2 DEF Moves
  <2> QED BY <2>1, <2>2
<1>4. CASE RunButton
  BY <1>3, <1>4 DEF RunButton, RunEnabled, ButtonSql
<1>5. CASE RunShortcut
  BY <1>3, <1>5 DEF RunShortcut
<1>6. CASE HandleClear
  BY <1>6 DEF HandleClear, Clears, Moves
<1>7. CASE GenerateSql
  BY <1>7 DEF GenerateSql, Regenerates, Moves
<1>8. CASE Logout \/ Navigate
  BY <1>8 DEF Logout, Navigate, FreshPage, Resets, Moves
<1>9. CASE Login \/ LeaveCallback
           \/ (\E accepted, complete \in BOOLEAN : HandleCallback(accepted, complete))
  BY <1>9 DEF Login, LeaveCallback, HandleCallback, verdictVars, Moves, coreVars
<1>10. ASSUME NEW k \in DOMAIN calls, Post(k) \/ Answer(k)
       PROVE  Moves
  <2>1. CASE Post(k)
    BY <2>1 DEF Post, Posts, Advances, Moves
  <2>2. CASE Succeed(k)
    BY <2>2 DEF Succeed, Succeeds, Advances, Moves
  <2>3. CASE \E unauthorized \in BOOLEAN : Fail(k, unauthorized)
    BY <2>3 DEF Fail, Caught, Fails, Advances, Moves
  <2> QED BY <1>10, <2>1, <2>2, <2>3 DEF Answer
<1>11. CASE \E text \in Statements : Generated(text)
  BY <1>11 DEF Generated, verdictVars, Moves, coreVars
<1>12. CASE \E unauthorized \in BOOLEAN : GenerateFailed(unauthorized)
  BY <1>12 DEF GenerateFailed, Complains, Moves
<1> QED BY <1>1, <1>2, <1>4, <1>5, <1>6, <1>7, <1>8, <1>9, <1>10, <1>11, <1>12
        DEF Next, UserStep, GenerationAnswer
-----------------------------------------------------------------------------
(* An execution has its fields.                                            *)
LEMMA CallFacts ==
    ASSUME CoreTyped, NEW k \in DOMAIN calls
    PROVE  /\ calls[k] \in Call /\ k \in 1..Len(calls) /\ Len(calls) \in Nat
           /\ calls[k].over \in BOOLEAN /\ calls[k].cleared \in BOOLEAN
           /\ calls[k].phase \in {"waiting", "posted", "done"}
           /\ calls[k].how \in {"button", "shortcut"} /\ calls[k].asShown \in BOOLEAN
<1>1. calls[k] \in Call /\ k \in 1..Len(calls) /\ Len(calls) \in Nat
  BY DEF CoreTyped
<1> QED BY <1>1 DEF Call

(* An execution moves on; nothing else about it or the others changes. *)
LEMMA AdvanceFacts ==
    ASSUME CoreTyped, NEW k \in DOMAIN calls, NEW phase \in {"posted", "done"},
           Advances(k, phase)
    PROVE  /\ calls' \in Seq(Call) /\ Len(calls') = Len(calls)
           /\ DOMAIN calls' = DOMAIN calls
           /\ calls'[k].phase = phase
           /\ \A j \in DOMAIN calls :
                 /\ calls'[j].over = calls[j].over
                 /\ calls'[j].cleared = calls[j].cleared
                 /\ calls'[j].how = calls[j].how
                 /\ calls'[j].asShown = calls[j].asShown
                 /\ j # k => calls'[j].phase = calls[j].phase
<1>1. PICK c : c = calls[k]
  OBVIOUS
<1>2. PICK d : d = [c EXCEPT !.phase = phase]
  OBVIOUS
<1>3. c \in Call
  BY <1>1, CallFacts
<1>4. /\ d \in Call /\ d.phase = phase /\ d.over = c.over /\ d.cleared = c.cleared
      /\ d.how = c.how /\ d.asShown = c.asShown
  BY <1>2, <1>3 DEF Call
<1>5. calls' = [calls EXCEPT ![k] = d]
  BY <1>1, <1>2 DEF Advances
<1>6. calls' \in Seq(Call) /\ Len(calls') = Len(calls) /\ DOMAIN calls' = DOMAIN calls
  BY <1>4, <1>5 DEF CoreTyped
<1>7. calls'[k] = d /\ \A j \in DOMAIN calls : j # k => calls'[j] = calls[j]
  BY <1>5 DEF CoreTyped
<1> QED BY <1>1, <1>4, <1>6, <1>7

(* What the invariants see of the executions in flight. *)
LEMMA InFlightFacts ==
    ASSUME NEW k
    PROVE  k \in InFlight <=> (k \in DOMAIN calls /\ calls[k].phase # "done")
BY DEF InFlight

(* Which executions are in flight after a step.                            *)
LEMMA InFlightNextFacts ==
    ASSUME NEW k
    PROVE  k \in InFlight' <=> (k \in DOMAIN calls' /\ calls'[k].phase # "done")
BY DEF InFlight

(* Errors of different causes differ.                                      *)
LEMMA CauseFacts ==
    /\ NoError.cause = "none" /\ Cause("blank").cause = "blank"
    /\ Cause("generation").cause = "generation"
    /\ Cause("blank") # NoError /\ Cause("generation") # NoError
BY DEF NoError, Cause

(* A page that is loaded starts with no execution.                         *)
LEMMA ResetsKeep ==
    ASSUME Resets
    PROVE  Core'
<1>1. calls' \in Seq(Call) /\ DOMAIN calls' = {} /\ Len(calls') = 0
  BY DEF Resets
<1>2. InFlight' = {}
  BY <1>1 DEF InFlight
<1>3. (CoreTyped /\ ErrorShaped /\ SpinnerBacked)'
  <2>1. queryResults' \in 0 .. Len(calls')
    BY <1>1 DEF Resets
  <2>2. CoreTyped'
    BY <1>1, <2>1 DEF Resets, CoreTyped
  <2> QED BY <2>2 DEF Resets, ErrorShaped, SpinnerBacked
<1>4. (OverlapMarked /\ ErrorOverlaps /\ Serial)'
  BY <1>2 DEF OverlapMarked, ErrorOverlaps, Serial
<1>5. (StaleOnlyByOverlap /\ ButtonRunsWhatIsShown /\ VerdictKept)'
  BY <1>1, CauseFacts DEF Resets, StaleOnlyByOverlap, ButtonRunsWhatIsShown, VerdictKept
<1> QED BY <1>3, <1>4, <1>5 DEF Core

(* A blank statement or a failed generation shows an error and runs        *)
(* nothing.                                                                *)
LEMMA ComplainsKeep ==
    ASSUME Core, Complains
    PROVE  Core'
<1>1. PICK c \in {"blank", "generation"} : queryError' = Cause(c)
  BY DEF Complains
<1>2. queryError'.cause \in {"blank", "generation"} /\ queryError' # NoError
  BY <1>1, CauseFacts
<1>3. InFlight' = InFlight /\ (IsExecuting' <=> IsExecuting)
  BY DEF Complains, InFlight, IsExecuting
<1>4. CoreTyped' /\ ErrorShaped'
  BY <1>1 DEF Core, Complains, CoreTyped, ErrorShaped
<1>5. (SpinnerBacked /\ OverlapMarked /\ Serial)'
  BY <1>3 DEF Core, Complains, SpinnerBacked, OverlapMarked, Serial
<1>6. (ErrorOverlaps /\ StaleOnlyByOverlap /\ ButtonRunsWhatIsShown)'
  BY <1>2 DEF Core, Complains, ErrorOverlaps, StaleOnlyByOverlap, ButtonRunsWhatIsShown
<1>7. VerdictKept'
  BY <1>2 DEF VerdictKept, Explained
<1> QED BY <1>4, <1>5, <1>6, <1>7 DEF Core

(* A generation resets what is shown.                                      *)
LEMMA RegeneratesKeep ==
    ASSUME Core, Regenerates
    PROVE  Core'
<1>1. queryError' = NoError /\ queryError'.cause = "none"
  BY CauseFacts DEF Regenerates
<1>2. InFlight' = InFlight /\ (IsExecuting' <=> IsExecuting)
  BY DEF Regenerates, InFlight, IsExecuting
<1>3. CoreTyped' /\ ErrorShaped'
  BY <1>1 DEF Core, Regenerates, CoreTyped, ErrorShaped
<1>4. (SpinnerBacked /\ OverlapMarked /\ Serial)'
  BY <1>2 DEF Core, Regenerates, SpinnerBacked, OverlapMarked, Serial
<1>5. (ErrorOverlaps /\ StaleOnlyByOverlap /\ ButtonRunsWhatIsShown)'
  BY <1>1 DEF Core, Regenerates, ErrorOverlaps, StaleOnlyByOverlap, ButtonRunsWhatIsShown
<1>6. VerdictKept'
  BY DEF Regenerates, VerdictKept, Explained
<1> QED BY <1>3, <1>4, <1>5, <1>6 DEF Core

(* What an answer, or the end of the timer, leaves of the marks. *)
LEMMA AdvanceKeeps ==
    ASSUME Core, NEW k \in DOMAIN calls, calls[k].phase # "done",
           NEW phase \in {"posted", "done"}, Advances(k, phase),
           phase = "done" \/ executionStatus' = "executing"
    PROVE  /\ OverlapMarked' /\ Serial' /\ ButtonRunsWhatIsShown'
           /\ InFlight' \subseteq InFlight
<1>1. CoreTyped /\ OverlapMarked /\ Serial /\ ButtonRunsWhatIsShown
  BY DEF Core
<1>2. /\ calls' \in Seq(Call) /\ Len(calls') = Len(calls)
      /\ DOMAIN calls' = DOMAIN calls
      /\ calls'[k].phase = phase
      /\ \A j \in DOMAIN calls :
            /\ calls'[j].over = calls[j].over
            /\ calls'[j].cleared = calls[j].cleared
            /\ calls'[j].how = calls[j].how
            /\ calls'[j].asShown = calls[j].asShown
            /\ j # k => calls'[j].phase = calls[j].phase
  BY <1>1, AdvanceFacts
<1>3. InFlight' \subseteq InFlight /\ k \in InFlight
      /\ (phase = "done" => k \notin InFlight')
  BY <1>2, InFlightFacts, InFlightNextFacts
<1>4. InFlight \subseteq DOMAIN calls
  BY DEF InFlight
<1>5. OverlapMarked'
  BY <1>1, <1>2, <1>3, <1>4 DEF OverlapMarked
<1>6. Serial'
  <2> SUFFICES ASSUME \A j \in DOMAIN calls' : calls'[j].how = "button" /\ ~calls'[j].cleared
               PROVE  /\ InFlight' # {} => IsExecuting'
                      /\ \A i, j \in InFlight' : i = j
    BY DEF Serial
  <2>1. \A i, j \in InFlight : i = j
    BY <1>1, <1>2 DEF Serial
  <2>2. phase = "done" => InFlight' = {}
    BY <1>3, <2>1
  <2> QED BY <1>3, <2>1, <2>2 DEF IsExecuting
<1>7. ButtonRunsWhatIsShown'
  BY <1>1, <1>2 DEF ButtonRunsWhatIsShown
<1> QED BY <1>3, <1>5, <1>6, <1>7

(* The timer of an execution fires: its request is sent.                   *)
LEMMA PostsKeep ==
    ASSUME Core, NEW k \in DOMAIN calls, Posts(k)
    PROVE  Core'
<1>1. /\ OverlapMarked' /\ Serial' /\ ButtonRunsWhatIsShown'
      /\ InFlight' \subseteq InFlight
  BY AdvanceKeeps DEF Posts
<1>2. /\ calls' \in Seq(Call) /\ Len(calls') = Len(calls)
      /\ DOMAIN calls' = DOMAIN calls /\ calls'[k].phase = "posted"
      /\ \A j \in DOMAIN calls : calls'[j].over = calls[j].over
  BY AdvanceFacts DEF Posts, Core
<1>3. CoreTyped' /\ SpinnerBacked'
  BY <1>2 DEF Posts, Core, CoreTyped, SpinnerBacked
<1>4. ErrorShaped' /\ (queryError.cause = "execution" => queryError.call \in DOMAIN calls)
  <2>1. DOMAIN calls = 1..Len(calls)
    BY DEF Core, CoreTyped
  <2> QED BY <1>2, <2>1, CauseFacts DEF Posts, Core, ErrorShaped
<1>5. ErrorOverlaps'
  BY <1>1, <1>2, <1>4 DEF Posts, Core, ErrorOverlaps
<1>6. StaleOnlyByOverlap'
  <2>1. queryResults # 0 => queryResults \in DOMAIN calls
    BY DEF Core, CoreTyped
  <2> QED BY <1>2, <1>4, <2>1 DEF Posts, Core, StaleOnlyByOverlap
<1>7. VerdictKept'
  BY DEF Posts, VerdictKept
<1> QED BY <1>1, <1>3, <1>4, <1>5, <1>6, <1>7 DEF Core

(* Rows arrive and are shown, the latest or not.                           *)
LEMMA SucceedsKeep ==
    ASSUME Core, NEW k \in DOMAIN calls, Succeeds(k)
    PROVE  Core'
<1>1. /\ OverlapMarked' /\ Serial' /\ ButtonRunsWhatIsShown'
      /\ InFlight' \subseteq InFlight
  BY AdvanceKeeps DEF Succeeds
<1>2. /\ calls' \in Seq(Call) /\ Len(calls') = Len(calls)
      /\ DOMAIN calls' = DOMAIN calls
      /\ \A j \in DOMAIN calls : calls'[j].over = calls[j].over
  BY AdvanceFacts DEF Succeeds, Core
<1>3. k \in 1..Len(calls) /\ k \in InFlight
  BY CallFacts, InFlightFacts DEF Succeeds, Core
<1>4. CoreTyped' /\ SpinnerBacked'
  <2>1. queryResults' \in 0 .. Len(calls')
    BY <1>2, <1>3 DEF Succeeds
  <2> QED BY <1>2, <2>1 DEF Succeeds, CoreTyped, SpinnerBacked
<1>5. ErrorShaped' /\ (queryError.cause = "execution" => queryError.call \in DOMAIN calls)
  <2>1. DOMAIN calls = 1..Len(calls)
    BY DEF Core, CoreTyped
  <2> QED BY <1>2, <2>1, CauseFacts DEF Succeeds, Core, ErrorShaped
<1>6. ErrorOverlaps'
  BY <1>1, <1>2, <1>5 DEF Succeeds, Core, ErrorOverlaps
<1>7. StaleOnlyByOverlap'
  <2>1. k # Len(calls) => calls[k].over
    BY <1>3 DEF Core, OverlapMarked
  <2> QED BY <1>2, <1>5, <2>1 DEF Succeeds, Core, StaleOnlyByOverlap
<1>8. VerdictKept'
  <2>1. queryError.cause = "execution" => calls'[queryError.call].over
    BY <1>2, <1>3, <1>5 DEF Core, ErrorOverlaps
  <2>2. queryError = NoError \/ queryError.cause \in {"blank", "generation", "execution"}
    BY CauseFacts DEF Core, ErrorShaped
  <2>3. queryResults' # 0
    BY <1>3 DEF Succeeds
  <2> QED BY <2>1, <2>2, <2>3 DEF Succeeds, VerdictKept, Explained
<1> QED BY <1>1, <1>4, <1>5, <1>6, <1>7, <1>8 DEF Core

(* An error arrives and is shown, the latest or not.                       *)
LEMMA FailsKeep ==
    ASSUME Core, NEW k \in DOMAIN calls, Fails(k)
    PROVE  Core'
<1>1. /\ OverlapMarked' /\ Serial' /\ ButtonRunsWhatIsShown'
      /\ InFlight' \subseteq InFlight
  BY AdvanceKeeps DEF Fails
<1>2. /\ calls' \in Seq(Call) /\ Len(calls') = Len(calls)
      /\ DOMAIN calls' = DOMAIN calls /\ calls'[k].phase = "done"
      /\ \A j \in DOMAIN calls : calls'[j].over = calls[j].over
  BY AdvanceFacts DEF Fails, Core
<1>3. k \in 1..Len(calls) /\ k \in InFlight /\ k \notin InFlight'
  BY <1>2, CallFacts, InFlightFacts, InFlightNextFacts DEF Fails, Core
<1>4. CoreTyped' /\ SpinnerBacked'
  BY <1>2 DEF Fails, Core, CoreTyped, SpinnerBacked
<1>5. /\ ErrorShaped' /\ queryError'.cause = "execution" /\ queryError'.call = k
      /\ queryError' # NoError
  BY <1>2, <1>3, CauseFacts DEF Fails, ErrorShaped
<1>6. ErrorOverlaps'
  <2>1. ASSUME InFlight' # {} PROVE calls[k].over
    BY <1>1, <1>3, <2>1 DEF Core, OverlapMarked
  <2> QED BY <1>2, <1>5, <2>1 DEF ErrorOverlaps
<1>7. StaleOnlyByOverlap'
  <2>1. k # Len(calls) => calls[k].over
    BY <1>3 DEF Core, OverlapMarked
  <2>2. queryResults # 0 => queryResults \in DOMAIN calls
    BY DEF Core, CoreTyped
  <2> QED BY <1>2, <1>5, <2>1, <2>2 DEF Fails, Core, StaleOnlyByOverlap
<1>8. VerdictKept'
  BY <1>5 DEF Fails, VerdictKept
<1> QED BY <1>1, <1>4, <1>5, <1>6, <1>7, <1>8 DEF Core

(* Clear empties the panel under executions in flight.                     *)
LEMMA ClearsKeep ==
    ASSUME Core, Clears
    PROVE  Core'
<1>1. CoreTyped /\ OverlapMarked /\ ButtonRunsWhatIsShown
  BY DEF Core
<1>2. PICK n \in Nat : n = Len(calls) /\ DOMAIN calls = 1..n
  BY <1>1 DEF CoreTyped
<1>3. ASSUME NEW k \in DOMAIN calls
      PROVE  /\ calls'[k] \in Call
             /\ calls'[k].over = calls[k].over /\ calls'[k].how = calls[k].how
             /\ calls'[k].asShown = calls[k].asShown /\ calls'[k].phase = calls[k].phase
             /\ calls'[k].cleared = (calls[k].cleared \/ k \in InFlight)
  <2>1. PICK c : c = calls[k]
    OBVIOUS
  <2>2. PICK b \in BOOLEAN : b = (calls[k].cleared \/ k \in InFlight)
    OBVIOUS
  <2>3. calls'[k] = [c EXCEPT !.cleared = b]
    BY <2>1, <2>2 DEF Clears
  <2>4. c \in Call
    BY <1>1, <2>1, CallFacts
  <2> QED BY <2>1, <2>2, <2>3, <2>4 DEF Call
<1>4. DOMAIN calls' = 1..n /\ calls' \in Seq(Call) /\ Len(calls') = n
  <2>1. calls' \in [1..n -> Call]
    BY <1>2, <1>3 DEF Clears
  <2> QED BY <2>1
<1>5. InFlight' = InFlight
  BY <1>2, <1>3, <1>4 DEF InFlight
<1>6. CoreTyped' /\ ErrorShaped' /\ SpinnerBacked'
  <2>1. queryResults' \in 0 .. Len(calls')
    BY <1>4 DEF Clears
  <2> QED BY <1>4, <2>1 DEF Clears, CoreTyped, ErrorShaped, SpinnerBacked
<1>7. OverlapMarked' /\ ButtonRunsWhatIsShown'
  <2>1. InFlight \subseteq DOMAIN calls
    BY DEF InFlight
  <2> QED BY <1>1, <1>2, <1>3, <1>4, <1>5, <2>1 DEF OverlapMarked, ButtonRunsWhatIsShown
<1>8. Serial'
  <2>1. ASSUME \A k \in DOMAIN calls' : calls'[k].how = "button" /\ ~calls'[k].cleared
        PROVE  InFlight' = {}
    <3>1. InFlight \subseteq DOMAIN calls
      BY DEF InFlight
    <3> QED BY <1>2, <1>3, <1>4, <1>5, <2>1, <3>1
  <2> QED BY <2>1 DEF Serial
<1>9. (ErrorOverlaps /\ StaleOnlyByOverlap /\ VerdictKept)'
  BY CauseFacts DEF Clears, ErrorOverlaps, StaleOnlyByOverlap, VerdictKept
<1> QED BY <1>6, <1>7, <1>8, <1>9 DEF Core

(* An execution starts, by button or shortcut, over another or not.        *)
LEMMA StartsKeep ==
    ASSUME Core, NEW how \in {"button", "shortcut"}, NEW shown \in BOOLEAN,
           Starts(how, shown)
    PROVE  Core'
<1>1. CoreTyped /\ OverlapMarked /\ ButtonRunsWhatIsShown /\ Serial
  BY DEF Core
<1>2. PICK n \in Nat : n = Len(calls) /\ DOMAIN calls = 1..n
  BY <1>1 DEF CoreTyped
<1>3. PICK old : old = [k \in DOMAIN calls |->
                          IF k \in InFlight THEN [calls[k] EXCEPT !.over = TRUE] ELSE calls[k]]
  OBVIOUS
<1>4. PICK b \in BOOLEAN : b = (InFlight # {})
  OBVIOUS
<1>5. PICK new : new = [phase |-> "waiting", how |-> how, asShown |-> shown,
                        over |-> b, cleared |-> FALSE]
  OBVIOUS
<1>6. /\ new \in Call /\ new.phase = "waiting" /\ new.how = how /\ new.asShown = shown
      /\ new.over = b /\ new.cleared = FALSE
  BY <1>5 DEF Call
<1>7. ASSUME NEW k \in DOMAIN calls
      PROVE  /\ old[k] \in Call
             /\ old[k].over = (calls[k].over \/ k \in InFlight)
             /\ old[k].how = calls[k].how /\ old[k].asShown = calls[k].asShown
             /\ old[k].phase = calls[k].phase /\ old[k].cleared = calls[k].cleared
  <2>1. PICK c : c = calls[k]
    OBVIOUS
  <2>2. c \in Call
    BY <1>1, <2>1, CallFacts
  <2>3. CASE k \in InFlight
    <3>1. old[k] = [c EXCEPT !.over = TRUE]
      BY <1>3, <2>1, <2>3
    <3> QED BY <2>1, <2>2, <2>3, <3>1 DEF Call
  <2>4. CASE k \notin InFlight
    <3>1. old[k] = c
      BY <1>3, <2>1, <2>4
    <3>2. c.over \in BOOLEAN
      BY <2>2 DEF Call
    <3> QED BY <2>1, <2>2, <2>4, <3>1, <3>2
  <2> QED BY <2>3, <2>4
<1>8. old \in Seq(Call) /\ Len(old) = n
  <2>1. old \in [1..n -> Call]
    BY <1>2, <1>3, <1>7
  <2> QED BY <2>1
<1>9. calls' = old \o <<new>>
  BY <1>3, <1>4, <1>5 DEF Starts
<1>10. /\ calls' \in Seq(Call) /\ Len(calls') = n + 1
       /\ DOMAIN calls' = DOMAIN calls \cup {n + 1}
       /\ calls'[n + 1] = new /\ n + 1 \notin DOMAIN calls
       /\ \A k \in DOMAIN calls : calls'[k] = old[k]
  <2>1. calls' = Append(old, new)
    BY <1>6, <1>8, <1>9
  <2> QED BY <1>2, <1>6, <1>8, <2>1
<1>11. InFlight' = InFlight \cup {n + 1} /\ InFlight \subseteq DOMAIN calls
  BY <1>6, <1>7, <1>10 DEF InFlight
<1>12. queryError' = NoError /\ queryError'.cause = "none" /\ queryResults' = 0
       /\ executionStatus' = "validating" /\ regenerated' = FALSE
  BY CauseFacts DEF Starts
<1>13. CoreTyped' /\ ErrorShaped' /\ SpinnerBacked'
  <2>1. queryResults' \in 0 .. Len(calls')
    BY <1>10, <1>12
  <2>2. n + 1 \in DOMAIN calls' /\ calls'[n + 1].phase = "waiting"
    BY <1>6, <1>10
  <2> QED BY <1>10, <1>12, <2>1, <2>2 DEF CoreTyped, ErrorShaped, SpinnerBacked
<1>14. OverlapMarked'
  <2>1. \A k \in InFlight : calls'[k].over = TRUE
    BY <1>7, <1>10, <1>11
  <2>2. InFlight # {} => calls'[n + 1].over = TRUE
    BY <1>4, <1>6, <1>10
  <2> QED BY <1>10, <1>11, <2>1, <2>2 DEF OverlapMarked
<1>15. ButtonRunsWhatIsShown'
  <2>1. ASSUME NEW k \in DOMAIN calls', calls'[k].how = "button"
        PROVE  calls'[k].asShown
    <3>1. CASE k \in DOMAIN calls
      BY <1>1, <1>7, <1>10, <2>1, <3>1 DEF ButtonRunsWhatIsShown
    <3>2. CASE k = n + 1
      BY <1>6, <1>10, <2>1, <3>2 DEF Starts
    <3> QED BY <1>10, <3>1, <3>2
  <2> QED BY <2>1 DEF ButtonRunsWhatIsShown
<1>16. Serial'
  <2>1. ASSUME \A k \in DOMAIN calls' : calls'[k].how = "button" /\ ~calls'[k].cleared
        PROVE  InFlight' = {n + 1}
    <3>1. how = "button"
      BY <1>6, <1>10, <2>1
    <3>2. \A k \in DOMAIN calls : calls[k].how = "button" /\ ~calls[k].cleared
      BY <1>7, <1>10, <2>1
    <3>3. InFlight = {}
      BY <1>1, <3>1, <3>2 DEF Serial, Starts
    <3> QED BY <1>11, <3>3
  <2> QED BY <1>12, <2>1 DEF Serial, IsExecuting
<1>17. (ErrorOverlaps /\ StaleOnlyByOverlap /\ VerdictKept)'
  BY <1>12 DEF ErrorOverlaps, StaleOnlyByOverlap, VerdictKept
<1> QED BY <1>13, <1>14, <1>15, <1>16, <1>17 DEF Core

(* The invariant of results and executions is inductive.                   *)
LEMMA CoreStep ==
    ASSUME Core, [Next]_vars
    PROVE  Core'
<1>1. CASE UNCHANGED coreVars
  <2>1. InFlight' = InFlight /\ (IsExecuting' <=> IsExecuting)
    BY <1>1 DEF coreVars, InFlight, IsExecuting
  <2> QED BY <1>1, <2>1 DEF coreVars, Core, CoreTyped, ErrorShaped, SpinnerBacked,
             OverlapMarked, ErrorOverlaps, Serial, StaleOnlyByOverlap,
             ButtonRunsWhatIsShown, VerdictKept, Explained
<1> QED BY <1>1, StepMoves, ResetsKeep, ComplainsKeep, RegeneratesKeep, ClearsKeep,
           StartsKeep, PostsKeep, SucceedsKeep, FailsKeep DEF Moves
-----------------------------------------------------------------------------
(* Cmd+Enter is registered exactly for the editor on the page. *)
LEMMA RegisterTyped ==
    ASSUME EditorTyped, queryMode' \in {"sql", "ask"}, sqlQuery' \in Texts,
           generatedSql' \in Texts, RegisterRunQuery
    PROVE  runQuery' \in Texts \cup {NoEditor} /\ (runQuery' = NoEditor <=> ~Mounted')
<1>1. EditorText' \in Texts
  BY DEF EditorText
<1>2. Mounted => runQuery \in Texts
  BY DEF EditorTyped
<1>3. NoEditor \notin Texts
  BY WorkspaceAssumption
<1>4. CASE ~Mounted'
  BY <1>4 DEF RegisterRunQuery
<1>5. CASE Mounted' /\ Kept
  BY <1>2, <1>3, <1>5 DEF RegisterRunQuery, Kept
<1>6. CASE Mounted' /\ ~Kept
  BY <1>1, <1>3, <1>6 DEF RegisterRunQuery
<1> QED BY <1>4, <1>5, <1>6

(* The editors keep their types, and Cmd+Enter exists while an editor      *)
(* does.                                                                   *)
LEMMA EditorStep ==
    ASSUME EditorTyped, [Next]_vars
    PROVE  EditorTyped'
<1>1. ASSUME UNCHANGED <<editorVars, isGenerating, asking>>
      PROVE  EditorTyped'
  BY <1>1 DEF editorVars, EditorTyped, Mounted
<1>2. Empty \in Texts /\ Statements \subseteq Texts /\ NoEditor \notin Texts
  BY WorkspaceAssumption DEF Texts
<1>3. CASE UNCHANGED vars
  BY <1>1, <1>3 DEF vars
<1>4. ASSUME NEW text \in Texts, Type(text)
      PROVE  EditorTyped'
  <2>1. /\ queryMode' \in {"sql", "ask"} /\ sqlQuery' \in Texts /\ generatedSql' \in Texts
        /\ editing' \in BOOLEAN /\ UNCHANGED <<isGenerating, asking>> /\ RegisterRunQuery
    BY <1>4 DEF Type, EditorTyped
  <2> QED BY <2>1, RegisterTyped DEF EditorTyped
<1>5. CASE SwitchMode \/ ToggleEditing
  <2>1. /\ queryMode' \in {"sql", "ask"} /\ sqlQuery' \in Texts /\ generatedSql' \in Texts
        /\ editing' \in BOOLEAN /\ UNCHANGED <<isGenerating, asking>> /\ RegisterRunQuery
    BY <1>5 DEF SwitchMode, ToggleEditing, EditorTyped
  <2> QED BY <2>1, RegisterTyped DEF EditorTyped
<1>6. CASE RunButton \/ RunShortcut
  BY <1>1, <1>6 DEF RunButton, RunShortcut
<1>7. CASE HandleClear
  <2>1. /\ queryMode' \in {"sql", "ask"} /\ sqlQuery' \in Texts /\ generatedSql' \in Texts
        /\ editing' \in BOOLEAN /\ UNCHANGED <<isGenerating, asking>> /\ RegisterRunQuery
    BY <1>2, <1>7 DEF HandleClear, EditorTyped
  <2> QED BY <2>1, RegisterTyped DEF EditorTyped
<1>8. CASE GenerateSql
  <2>1. /\ queryMode' \in {"sql", "ask"} /\ sqlQuery' \in Texts /\ generatedSql' \in Texts
        /\ editing' \in BOOLEAN /\ isGenerating' = TRUE /\ asking' = TRUE /\ RegisterRunQuery
    BY <1>2, <1>8 DEF GenerateSql, EditorTyped
  <2> QED BY <2>1, RegisterTyped DEF EditorTyped
<1>9. CASE Logout \/ Navigate
  <2>1. /\ queryMode' = "sql" /\ sqlQuery' = Empty /\ generatedSql' = Empty
        /\ editing' = FALSE /\ runQuery' = Empty /\ isGenerating' = FALSE /\ asking' = FALSE
    BY <1>9 DEF Logout, Navigate, FreshPage
  <2> QED BY <1>2, <2>1 DEF EditorTyped, Mounted
<1>10. CASE Login \/ LeaveCallback
            \/ (\E accepted, complete \in BOOLEAN : HandleCallback(accepted, complete))
  BY <1>1, <1>10 DEF Login, LeaveCallback, HandleCallback
<1>11. ASSUME NEW k \in DOMAIN calls, Post(k) \/ Answer(k)
       PROVE  EditorTyped'
  BY <1>1, <1>11 DEF Post, Answer, Succeed, Fail
<1>12. ASSUME NEW text \in Statements, Generated(text)
       PROVE  EditorTyped'
  <2>1. /\ queryMode' \in {"sql", "ask"} /\ sqlQuery' \in Texts /\ generatedSql' \in Texts
        /\ editing' \in BOOLEAN /\ isGenerating' = FALSE /\ asking' = FALSE /\ RegisterRunQuery
    BY <1>2, <1>12 DEF Generated, EditorTyped
  <2> QED BY <2>1, RegisterTyped DEF EditorTyped
<1>13. CASE \E unauthorized \in BOOLEAN : GenerateFailed(unauthorized)
  <2>1. UNCHANGED editorVars /\ isGenerating' = FALSE /\ asking' = FALSE
    BY <1>13 DEF GenerateFailed
  <2> QED BY <2>1 DEF editorVars, EditorTyped, Mounted
<1> QED BY <1>3, <1>4, <1>5, <1>6, <1>7, <1>8, <1>9, <1>10, <1>11, <1>12, <1>13
        DEF Next, UserStep, GenerationAnswer

(* The sign-in flag and the profile keep their types.                      *)
LEMMA AuthStep ==
    ASSUME AuthTyped, [Next]_vars
    PROVE  AuthTyped'
<1>1. ASSUME UNCHANGED authVars
      PROVE  AuthTyped'
  BY <1>1 DEF authVars, AuthTyped
<1>2. ASSUME NEW unauthorized \in BOOLEAN, Intercept(unauthorized)
      PROVE  AuthTyped'
  BY <1>2 DEF Intercept, AuthTyped
<1>3. CASE UNCHANGED vars
  BY <1>1, <1>3 DEF vars
<1>4. CASE UserStep
  <2>1. CASE Logout
    BY <2>1 DEF Logout, AuthTyped
  <2>2. CASE Login
    BY <2>2 DEF Login, AuthTyped
  <2>3. CASE LeaveCallback
    BY <2>3 DEF LeaveCallback, AuthTyped
  <2>4. CASE SwitchMode \/ ToggleEditing \/ (\E text \in Texts : Type(text))
    BY <1>1, <2>4 DEF SwitchMode, ToggleEditing, Type, Input, Handler
  <2>5. CASE RunButton \/ RunShortcut \/ HandleClear \/ GenerateSql
    BY <1>1, <2>5 DEF RunButton, RunShortcut, HandleClear, GenerateSql, Input, Handler
  <2> QED BY <1>4, <2>1, <2>2, <2>3, <2>4, <2>5 DEF UserStep
<1>5. ASSUME NEW k \in DOMAIN calls, Post(k) \/ Answer(k)
      PROVE  AuthTyped'
  <2>1. CASE Post(k) \/ Succeed(k)
    BY <1>1, <2>1 DEF Post, Succeed, Handler
  <2>2. CASE \E unauthorized \in BOOLEAN : Fail(k, unauthorized)
    BY <1>2, <2>2 DEF Fail
  <2> QED BY <1>5, <2>1, <2>2 DEF Answer
<1>6. CASE GenerationAnswer
  BY <1>1, <1>2, <1>6 DEF GenerationAnswer, Generated, GenerateFailed, Handler
<1>7. CASE Navigate
  BY <1>7 DEF Navigate, AuthTyped
<1>8. ASSUME NEW accepted \in BOOLEAN, NEW complete \in BOOLEAN,
             HandleCallback(accepted, complete)
      PROVE  AuthTyped'
  BY <1>8 DEF HandleCallback, AuthTyped
<1> QED BY <1>3, <1>4, <1>5, <1>6, <1>7, <1>8 DEF Next

(* The inductive invariant. *)
Sound == AuthTyped /\ EditorTyped /\ Core

(* The three parts hold in every reachable state.                          *)
LEMMA SoundAlways == Spec => []Sound
<1>1. Init => Sound
  <2> SUFFICES ASSUME Init PROVE Sound
    OBVIOUS
  <2>1. AuthTyped
    BY DEF Init, AuthTyped
  <2>2. EditorTyped
    <3>1. Empty \in Texts /\ Empty # NoEditor
      BY WorkspaceAssumption DEF Texts
    <3> QED BY <3>1 DEF Init, EditorTyped, Mounted
  <2>3. calls \in Seq(Call) /\ DOMAIN calls = {} /\ Len(calls) = 0
    BY DEF Init
  <2>4. InFlight = {}
    BY <2>3 DEF InFlight
  <2>5. CoreTyped /\ ErrorShaped /\ SpinnerBacked
    <3>1. queryResults \in 0 .. Len(calls)
      BY <2>3 DEF Init
    <3> QED BY <2>3, <3>1 DEF Init, CoreTyped, ErrorShaped, SpinnerBacked
  <2>6. OverlapMarked /\ ErrorOverlaps /\ Serial
    BY <2>4 DEF OverlapMarked, ErrorOverlaps, Serial
  <2>7. StaleOnlyByOverlap /\ ButtonRunsWhatIsShown /\ VerdictKept
    BY <2>3, CauseFacts DEF Init, StaleOnlyByOverlap, ButtonRunsWhatIsShown, VerdictKept
  <2> QED BY <2>1, <2>2, <2>5, <2>6, <2>7 DEF Sound, Core
<1>2. Sound /\ [Next]_vars => Sound'
  BY AuthStep, EditorStep, CoreStep DEF Sound
<1> QED BY <1>1, <1>2, PTL DEF Spec

(* dashboard.tsx, handleExecuteSql, handleGenerateSql: however many        *)
(* executions overlap and whatever is cleared, a spinner on the page       *)
(* belongs to a timer or request that is still to end.                     *)
THEOREM SpinnersAreTruthful == Spec => []BusyTruthful
<1>1. Sound => BusyTruthful
  <2> SUFFICES ASSUME Sound PROVE TypeOK /\ FeedbackTruthful
    BY DEF BusyTruthful
  <2>1. queryError \in [cause : {"none", "blank", "generation", "execution"},
                        call : 0 .. Len(calls)]
    <3>1. Len(calls) \in Nat
      BY DEF Sound, Core, CoreTyped
    <3> QED BY <3>1 DEF Sound, Core, ErrorShaped, NoError, Cause
  <2>2. TypeOK
    BY <2>1 DEF Sound, Core, AuthTyped, EditorTyped, CoreTyped, TypeOK
  <2>3. FeedbackTruthful
    BY DEF Sound, Core, EditorTyped, SpinnerBacked, FeedbackTruthful, InFlight
  <2> QED BY <2>2, <2>3
<1> QED BY <1>1, SoundAlways, PTL

(* dashboard.tsx:72: rows or an error of another execution than the latest *)
(* are shown only if the two overlapped, the Run button alone never makes  *)
(* two overlap, and it always runs the text on the page.                   *)
THEOREM MixUpsAreExplained == Spec => []MixUpsHaveCause
<1>1. Sound => MixUpsHaveCause
  <2> SUFFICES ASSUME Sound PROVE ButtonAloneSerial
    BY DEF Sound, Core, MixUpsHaveCause
  <2>1. ASSUME \A k \in DOMAIN calls : calls[k].how # "shortcut" /\ ~calls[k].cleared
        PROVE  ~(Cardinality(InFlight) > 1)
    <3>1. \A k \in DOMAIN calls : calls[k].how = "button" /\ ~calls[k].cleared
      BY <2>1, CallFacts DEF Sound, Core
    <3>2. \A j, k \in InFlight : j = k
      BY <3>1 DEF Sound, Core, Serial
    <3>3. CASE InFlight = {}
      BY <3>3, FS_EmptySet
    <3>4. CASE InFlight # {}
      <4>1. PICK k : InFlight = {k}
        BY <3>2, <3>4
      <4>2. Cardinality({k}) = 1
        BY FS_Singleton
      <4> QED BY <4>1, <4>2
    <3> QED BY <3>3, <3>4
  <2> QED BY <2>1 DEF ButtonAloneSerial
<1> QED BY <1>1, SoundAlways, PTL

(* ResultsPanel: after the last answer the panel shows its verdict, unless *)
(* a blank Cmd+Enter, a generation or an overlapping execution explains    *)
(* what is there instead.                                                  *)
THEOREM VerdictIsShown == Spec => []VerdictShown
<1>1. Sound => VerdictShown
  <2> SUFFICES ASSUME Sound
               PROVE  /\ executionStatus = "success" => (Panel = "result" \/ Explained)
                      /\ executionStatus = "error" => (Panel = "error" \/ Explained)
    BY DEF VerdictShown, Explained
  <2>1. VerdictKept
    BY DEF Sound, Core
  <2>2. executionStatus \in {"success", "error"} => ~IsExecuting
    BY DEF IsExecuting
  <2>3. (~IsExecuting /\ queryError # NoError) => Panel = "error"
    BY DEF Panel
  <2>4. (~IsExecuting /\ queryError = NoError /\ queryResults # 0) => Panel = "result"
    BY DEF Panel
  <2> QED BY <2>1, <2>2, <2>3, <2>4 DEF VerdictKept
<1> QED BY <1>1, SoundAlways, PTL
-----------------------------------------------------------------------------
(* A request to the model is pending. *)
Waiting == pc \in {"posting", "backing_off"}

(* The sample sent is a prefix of the rows, each truncated. *)
SampleOfRows ==
    /\ prompt.sample \in Seq({Truncated(rows[i]) : i \in DOMAIN rows})
    /\ Len(prompt.sample) <= Len(rows)
    /\ \A i \in DOMAIN prompt.sample : prompt.sample[i] = Truncated(rows[i])
    /\ Waiting => (prompt.truncated <=> Len(prompt.sample) < Len(rows))

(* Nothing is planned before the end; a request is pending only if there   *)
(* is something to plan for.                                               *)
Progress ==
    /\ pc # "answered" => plan = None
    /\ pc = "executing" => attempt = 1 /\ rows = <<>>
    /\ Waiting => Plans(rows)
    /\ pc = "failed" => rows = <<>>

(* One reply per attempt so far, all of them transient. *)
RepliesCounted ==
    /\ seen \in Seq({r.status : r \in Replies})
    /\ pc = "posting" => Len(seen) = attempt - 1
    /\ pc = "backing_off" => Len(seen) = attempt /\ AttemptsLeft
    /\ Waiting => \A i \in DOMAIN seen : seen[i] = "transient"
    /\ pc \in {"executing", "failed"} => seen = <<>>

PresentationInv ==
    /\ PresentationTypeOK /\ SampleOfRows /\ Progress /\ RepliesCounted
-----------------------------------------------------------------------------
(* A bounded set of counts has a largest one. *)
LEMMA LargestCount ==
    ASSUME NEW n \in Nat, NEW S \in SUBSET (0..n), S # {}
    PROVE  Max(S) \in S
<1> DEFINE T == {n - i : i \in S}
           R == {ss \in Nat \X Nat : ss[1] < ss[2]}
<1>1. T \subseteq Nat /\ T # {}
  <2>1. \A i \in S : n - i \in Nat
    OBVIOUS
  <2> QED BY <2>1
<1>2. IsWellFoundedOn(R, Nat)
  <2>1. OpToRel(<, Nat) = R
    BY Zenon DEF OpToRel
  <2> QED BY <2>1, NatLessThanWellFounded, Zenon
<1> HIDE DEF T
<1>3. PICK x \in T : \A y \in T : <<y, x>> \notin R
  <2> HIDE DEF R
  <2> QED BY <1>1, <1>2, WFMin
<1>4. \A y \in T : ~(y < x)
  BY <1>1, <1>3
<1>5. PICK i \in S : x = n - i
  BY DEF T
<1>6. \A j \in S : n - j \in T
  BY DEF T
<1>7. \A j \in S : i >= j
  BY <1>4, <1>5, <1>6
<1> QED BY <1>7 DEF Max

(* The larger and the smaller of two numbers. *)
LEMMA OfTwo ==
    ASSUME NEW a \in Int, NEW b \in Int
    PROVE  /\ Max({a, b}) \in {a, b} /\ Max({a, b}) >= a /\ Max({a, b}) >= b
           /\ Min({a, b}) \in {a, b} /\ Min({a, b}) <= a /\ Min({a, b}) <= b
<1>1. \E x \in {a, b} : \A y \in {a, b} : x >= y
  OBVIOUS
<1>2. \E x \in {a, b} : \A y \in {a, b} : x =< y
  OBVIOUS
<1>3. Max({a, b}) \in {a, b} /\ \A y \in {a, b} : Max({a, b}) >= y
  BY <1>1, Zenon DEF Max
<1>4. Min({a, b}) \in {a, b} /\ \A y \in {a, b} : Min({a, b}) =< y
  BY <1>2, Zenon DEF Min
<1> QED BY <1>3, <1>4

(* The clamped settings are positive. *)
LEMMA Clamped ==
    ASSUME config \in Configs
    PROVE  /\ Retries \in Nat \ {0} /\ (Retries = 1 \/ Retries = config.retries)
           /\ SampleRows \in Nat \ {0}
           /\ Deadline \in Nat /\ Deadline = RequestTimeout * Retries
<1>1. config.retries \in Int /\ config.sampleRows \in Int /\ 1 \in Int
  BY PresentationAssumption
<1>2. Retries \in {1, config.retries} /\ Retries >= 1
  BY <1>1, OfTwo, Zenon DEF Retries
<1>3. SampleRows \in {1, config.sampleRows} /\ SampleRows >= 1
  BY <1>1, OfTwo, Zenon DEF SampleRows
<1>4. Retries \in Nat \ {0} /\ SampleRows \in Nat \ {0}
  BY <1>1, <1>2, <1>3
<1>5. RequestTimeout * Retries \in Nat
  <2>1. \A a, b \in Nat : a * b \in Nat
    OBVIOUS
  <2> QED BY <1>4, <2>1, PresentationAssumption
<1> QED BY <1>2, <1>4, <1>5 DEF Deadline

(* _build_context sends a prefix of the rows, with long cells cut. *)
LEMMA SampleIsPrefix ==
    ASSUME config \in Configs, NEW rs, rs \in Seq({rs[i] : i \in DOMAIN rs})
    PROVE  /\ Sample(rs) \in Seq({Truncated(rs[i]) : i \in DOMAIN rs})
           /\ Len(Sample(rs)) <= Len(rs)
           /\ \A i \in DOMAIN Sample(rs) : Sample(rs)[i] = Truncated(rs[i])
<1> DEFINE p    == Min({Len(rs), SampleRows})
           cut  == [i \in 1..p |-> Truncated(rs[i])]
           fits == {n \in 0..Len(cut) : n = 0 \/ SizeOf(SubSeq(cut, 1, n)) <= Payload}
           m    == Max(fits)
           T    == {Truncated(rs[i]) : i \in DOMAIN rs}
<1>1. Sample(rs) = SubSeq(cut, 1, m)
  BY DEF Sample
<1>2. Len(rs) \in Nat /\ DOMAIN rs = 1..Len(rs) /\ SampleRows \in Nat
  BY Clamped
<1>3. p \in Nat /\ p <= Len(rs)
  <2>1. Len(rs) \in Int /\ SampleRows \in Int
    BY <1>2
  <2>2. p \in {Len(rs), SampleRows} /\ p <= Len(rs)
    BY <2>1, OfTwo, Zenon
  <2> QED BY <1>2, <2>2
<1> HIDE DEF p
<1>4. \A i \in 1..p : i \in DOMAIN rs /\ Truncated(rs[i]) \in T
  BY <1>2, <1>3
<1> HIDE DEF T
<1>5. cut \in Seq(T) /\ Len(cut) = p
  BY <1>3, <1>4
<1>6. \A i \in 1..p : cut[i] = Truncated(rs[i])
  OBVIOUS
<1> HIDE DEF cut
<1>7. m \in 0..p
  <2>1. fits \in SUBSET (0..p) /\ 0 \in fits
    BY <1>3, <1>5
  <2> HIDE DEF fits
  <2> QED BY <1>3, <2>1, LargestCount
<1> HIDE DEF m
<1>8. /\ SubSeq(cut, 1, m) \in Seq(T) /\ Len(SubSeq(cut, 1, m)) = m
      /\ \A i \in 1..m : SubSeq(cut, 1, m)[i] = cut[i]
  BY <1>3, <1>5, <1>7
<1>9. \A i \in 1..m : i \in 1..p
  BY <1>3, <1>7
<1>10. m <= Len(rs) /\ DOMAIN SubSeq(cut, 1, m) = 1..m
  BY <1>2, <1>3, <1>7, <1>8
<1> QED BY <1>1, <1>6, <1>8, <1>9, <1>10 DEF T
-----------------------------------------------------------------------------
(* What the sample says, the rows say: cutting a long cell adds no number. *)
LEMMA SampleSaysLess ==
    ASSUME SampleOfRows, rows \in Seq({rows[i] : i \in DOMAIN rows})
    PROVE  /\ UNION {NumericForms(c) : c \in Cells(prompt.sample)}
                 \subseteq UNION {NumericForms(c) : c \in Cells(rows)}
           /\ HasNumericColumn(prompt.sample)
                 => \E c \in Cells(rows) : c.kind \in {"int", "whole", "ratio"}
           /\ Columns(prompt.sample) \subseteq Columns(rows)
<1> DEFINE sm == prompt.sample
           Cut == [kind |-> "cut", n |-> 0]
<1>1. /\ DOMAIN sm \subseteq DOMAIN rows
      /\ \A i \in DOMAIN sm : sm[i] = Truncated(rows[i])
  <2>1. Len(sm) \in Nat /\ DOMAIN sm = 1..Len(sm) /\ Len(sm) <= Len(rows)
    BY DEF SampleOfRows
  <2>2. Len(rows) \in Nat /\ DOMAIN rows = 1..Len(rows)
    OBVIOUS
  <2> HIDE DEF sm
  <2>3. DOMAIN sm \subseteq DOMAIN rows
    BY <2>1, <2>2
  <2> QED BY <2>3 DEF SampleOfRows, sm
<1> HIDE DEF sm
<1>2. \A i \in DOMAIN sm : DOMAIN sm[i] = DOMAIN rows[i]
  BY <1>1 DEF Truncated
<1>3. Columns(sm) \subseteq Columns(rows)
  BY <1>1, <1>2 DEF Columns
<1>4. \A c \in Cells(sm) : c = Cut \/ c \in Cells(rows)
  <2> SUFFICES ASSUME NEW i \in DOMAIN sm, NEW c \in DOMAIN sm[i]
               PROVE  sm[i][c] = Cut \/ sm[i][c] \in Cells(rows)
    BY DEF Cells
  <2>1. i \in DOMAIN rows /\ c \in DOMAIN rows[i] /\ sm[i] = Truncated(rows[i])
    BY <1>1, <1>2
  <2>2. sm[i][c] = Cut \/ sm[i][c] = rows[i][c]
    BY <2>1 DEF Truncated
  <2>3. rows[i][c] \in Cells(rows)
    BY <2>1 DEF Cells
  <2> QED BY <2>2, <2>3
<1>5. NumericForms(Cut) = {} /\ Cut.kind \notin {"int", "whole", "ratio"}
  BY DEF NumericForms
<1> HIDE DEF Cut
<1>6. UNION {NumericForms(c) : c \in Cells(sm)} \subseteq UNION {NumericForms(c) : c \in Cells(rows)}
  BY <1>4, <1>5
<1>7. HasNumericColumn(sm) => \E c \in Cells(rows) : c.kind \in {"int", "whole", "ratio"}
  BY <1>4, <1>5 DEF HasNumericColumn
<1> QED BY <1>3, <1>6, <1>7 DEF sm
-----------------------------------------------------------------------------
(* A reply either leads to another attempt or ends the request. *)
LEMMA ReplyOutcomes ==
    ASSUME NEW reply, Reply(reply)
    PROVE  /\ pc = "posting" /\ seen' = Append(seen, reply.status)
           /\ \/ /\ reply.status = "transient" /\ AttemptsLeft /\ pc' = "backing_off"
                 /\ wake' = clock + BackoffBase ^ attempt
                 /\ UNCHANGED <<config, question, rows, prompt, attempt, clock, plan>>
              \/ reply.status = "odd" /\ Done(None)
              \/ reply.status = "text" /\ Done(Decision(reply.body, prompt.sample))
              \/ Done(Fallback)
BY DEF Reply, Retryable

(* An ended request is one of Reply or of the timeout. *)
LEMMA EndStep ==
    ASSUME NEW p, Done(p)
    PROVE  /\ pc' = "answered" /\ plan' = p
           /\ config' = config /\ question' = question /\ rows' = rows /\ prompt' = prompt
           /\ attempt' = attempt /\ clock' = clock /\ wake' = wake
           /\ Retries' = Retries
BY DEF Done, Retries

(* What the gateway returned is a sequence of rows. *)
LEMMA RowsAreSequences ==
    ASSUME NEW rs \in Results \cup {<<>>}
    PROVE  rs \in Seq({rs[i] : i \in DOMAIN rs})
<1>1. CASE rs \in Results
  BY <1>1, PresentationAssumption
<1>2. CASE rs = <<>>
  BY <1>2
<1> QED BY <1>1, <1>2

(* What _validate_decision lets through. *)
LEMMA DecisionFormats ==
    ASSUME NEW body, NEW sample
    PROVE  /\ Decision(body, sample).format \in {"paragraph", "list", "chart", "table"}
           /\ Decision(body, sample).format = "paragraph" => Decision(body, sample).content = "text"
           /\ Decision(body, sample).format = "chart" => HasNumericColumn(sample)
           /\ Decision(body, sample).ints
                 \subseteq {Len(sample)} \cup UNION {NumericForms(c) : c \in Cells(sample)}
           /\ {l[1] : l \in Decision(body, sample).labels} \subseteq Columns(sample)
           /\ \/ Decision(body, sample).reason \in {"none", "model"}
              \/ Decision(body, sample) = Fallback
<1>1. CASE ValidDecision(body, sample)
  <2> DEFINE D == [format |-> body.format, content |-> body.content,
                   ints |-> IF body.content = "text" THEN body.ints ELSE {},
                   reason |-> IF body.reason = "text" THEN "model" ELSE "none",
                   reasonInts |-> IF body.reason = "text" THEN body.reasonInts ELSE {},
                   labels |-> ValidatedLabels(body.labels, sample)]
  <2>1. Decision(body, sample) = D
    BY <1>1 DEF Decision
  <2>2. /\ body.format \in {"paragraph", "list", "chart", "table"}
        /\ body.format = "paragraph" => body.content = "text"
        /\ body.format = "chart" => HasNumericColumn(sample)
        /\ body.content = "text" => IntegersFit(body.ints, sample)
    BY <1>1 DEF ValidDecision
  <2>3. {l[1] : l \in ValidatedLabels(body.labels, sample)} \subseteq Columns(sample)
    BY DEF ValidatedLabels
  <2>4. /\ D.format = body.format /\ D.content = body.content
        /\ D.ints = (IF body.content = "text" THEN body.ints ELSE {})
        /\ D.labels = ValidatedLabels(body.labels, sample)
        /\ D.reason \in {"none", "model"}
    OBVIOUS
  <2> HIDE DEF D
  <2>5. D.ints \subseteq {Len(sample)} \cup UNION {NumericForms(c) : c \in Cells(sample)}
    <3>1. CASE body.content = "text"
      BY <2>2, <2>4, <3>1 DEF IntegersFit
    <3>2. CASE body.content # "text"
      BY <2>4, <3>2
    <3> QED BY <3>1, <3>2
  <2> QED BY <2>1, <2>2, <2>3, <2>4, <2>5
<1>2. CASE ~ValidDecision(body, sample)
  <2>1. Decision(body, sample) = Fallback
    BY <1>2 DEF Decision
  <2>2. Fallback.format = "table" /\ Fallback.ints = {} /\ Fallback.labels = {}
    BY DEF Fallback, None
  <2>3. {l[1] : l \in Fallback.labels} = {}
    BY <2>2
  <2> QED BY <2>1, <2>2, <2>3
<1> QED BY <1>1, <1>2

(* Neither the missing plan nor the fallback says anything of the rows. *)
LEMMA NoPlan ==
    /\ None.format = "null" /\ None.ints = {} /\ None.labels = {}
    /\ None.reason = "none" /\ None.reasonInts = {}
    /\ Fallback.format = "table" /\ Fallback.ints = {} /\ Fallback.labels = {}
    /\ Fallback.reason = "own" /\ Fallback.reasonInts = {} /\ Fallback.content = "none"
BY DEF None, Fallback
-----------------------------------------------------------------------------
(* The invariant holds at the start. *)
LEMMA PresentationInvInit == PresentationInit => PresentationInv
<1> SUFFICES ASSUME PresentationInit PROVE PresentationInv
  OBVIOUS
<1>1. /\ config \in Configs /\ question \in BOOLEAN /\ pc = "executing" /\ rows = <<>>
      /\ attempt = 1 /\ clock = 0 /\ wake = 0 /\ seen = <<>> /\ plan = None
      /\ prompt.sample = <<>>
  BY DEF PresentationInit, NoPrompt
<1>2. PresentationTypeOK
  <2>1. Retries \in Nat \ {0}
    BY <1>1, Clamped
  <2>2. attempt \in 1..Retries
    BY <1>1, <2>1
  <2> QED BY <1>1, <2>2, NoPlan DEF PresentationTypeOK
<1>3. SampleOfRows
  BY <1>1 DEF SampleOfRows, Waiting
<1>4. Progress
  BY <1>1 DEF Progress, Waiting
<1>5. RepliesCounted
  BY <1>1 DEF RepliesCounted, Waiting
<1> QED BY <1>2, <1>3, <1>4, <1>5 DEF PresentationInv

(* A request that ends keeps the invariant. *)
LEMMA EndKeepsInv ==
    ASSUME PresentationInv, Waiting, NEW p, Done(p),
           p.format \in {"null", "paragraph", "list", "chart", "table"},
           seen' \in Seq({r.status : r \in Replies})
    PROVE  PresentationInv'
<1>1. /\ pc' = "answered" /\ plan' = p
      /\ config' = config /\ question' = question /\ rows' = rows /\ prompt' = prompt
      /\ attempt' = attempt /\ clock' = clock /\ wake' = wake /\ Retries' = Retries
  BY EndStep
<1>2. PresentationTypeOK'
  BY <1>1 DEF PresentationInv, PresentationTypeOK
<1>3. SampleOfRows'
  BY <1>1 DEF PresentationInv, SampleOfRows, Waiting
<1>4. Progress' /\ RepliesCounted'
  BY <1>1 DEF Progress, RepliesCounted, Waiting
<1> QED BY <1>2, <1>3, <1>4 DEF PresentationInv

(* One case per action. *)
LEMMA PresentationInvNext ==
    PresentationInv /\ [PresentationNext]_presentationVars => PresentationInv'
<1> SUFFICES ASSUME PresentationInv, [PresentationNext]_presentationVars
             PROVE  PresentationInv'
  OBVIOUS
<1>1. config \in Configs /\ Retries \in Nat \ {0} /\ attempt \in 1..Retries /\ Deadline \in Nat
  BY Clamped DEF PresentationInv, PresentationTypeOK
<1>2. CASE ExecutionFails
  <2>1. /\ pc = "executing" /\ pc' = "failed"
        /\ UNCHANGED <<config, question, rows, prompt, attempt, clock, wake, seen, plan>>
    BY <1>2 DEF ExecutionFails
  <2>2. Retries' = Retries
    BY <2>1 DEF Retries
  <2>3. PresentationTypeOK'
    BY <2>1, <2>2 DEF PresentationInv, PresentationTypeOK
  <2>4. SampleOfRows'
    BY <2>1 DEF PresentationInv, SampleOfRows, Waiting
  <2>5. Progress' /\ RepliesCounted'
    BY <2>1 DEF PresentationInv, Progress, RepliesCounted, Waiting
  <2> QED BY <2>3, <2>4, <2>5 DEF PresentationInv
<1>3. CASE ExecutionReturns
  <2>1. /\ pc = "executing" /\ rows' \in Results
        /\ UNCHANGED <<config, question, attempt, clock, wake, seen, plan>>
        /\ IF Plans(rows') THEN pc' = "posting" /\ prompt' = BuildContext(rows')
           ELSE pc' = "answered" /\ prompt' = prompt
    BY <1>3 DEF ExecutionReturns
  <2>2. Retries' = Retries
    BY <2>1 DEF Retries
  <2>3. rows' \in Seq({rows'[i] : i \in DOMAIN rows'})
    BY <2>1, RowsAreSequences
  <2>4. /\ prompt'.sample \in Seq({Truncated(rows'[i]) : i \in DOMAIN rows'})
        /\ Len(prompt'.sample) <= Len(rows')
        /\ \A i \in DOMAIN prompt'.sample : prompt'.sample[i] = Truncated(rows'[i])
        /\ pc' = "posting" => (prompt'.truncated <=> Len(prompt'.sample) < Len(rows'))
    <3>1. CASE Plans(rows')
      <4>1. /\ prompt'.sample = Sample(rows')
            /\ prompt'.truncated = (Len(rows') > Len(Sample(rows')))
        BY <2>1, <3>1 DEF BuildContext
      <4>2. /\ Sample(rows') \in Seq({Truncated(rows'[i]) : i \in DOMAIN rows'})
            /\ Len(Sample(rows')) <= Len(rows')
            /\ \A i \in DOMAIN Sample(rows') : Sample(rows')[i] = Truncated(rows'[i])
        BY <1>1, <2>3, SampleIsPrefix
      <4>3. Len(rows') \in Nat /\ Len(Sample(rows')) \in Nat
        BY <2>3, <4>2
      <4>4. Len(rows') > Len(Sample(rows')) <=> Len(Sample(rows')) < Len(rows')
        BY <4>3
      <4> QED BY <4>1, <4>2, <4>4
    <3>2. CASE ~Plans(rows')
      <4>1. prompt' = prompt /\ pc' = "answered"
        BY <2>1, <3>2
      <4>2. prompt.sample = <<>>
        BY <2>1 DEF PresentationInv, SampleOfRows, Progress
      <4>3. Len(rows') \in Nat
        BY <2>3
      <4> QED BY <4>1, <4>2, <4>3
    <3> QED BY <3>1, <3>2
  <2>5. pc' \in {"posting", "answered"} /\ (pc' = "posting" => Plans(rows'))
    BY <2>1
  <2>6. PresentationTypeOK'
    BY <2>1, <2>2, <2>4, <2>5 DEF PresentationInv, PresentationTypeOK
  <2>7. SampleOfRows'
    BY <2>4, <2>5 DEF SampleOfRows, Waiting
  <2>8. Progress'
    BY <2>1, <2>5 DEF PresentationInv, Progress, Waiting, Plans
  <2>9. RepliesCounted'
    <3>1. seen = <<>> /\ attempt = 1
      BY <2>1 DEF PresentationInv, RepliesCounted, Progress
    <3> QED BY <2>1, <2>5, <3>1 DEF PresentationInv, RepliesCounted, Waiting
  <2> QED BY <2>6, <2>7, <2>8, <2>9 DEF PresentationInv
<1>4. ASSUME NEW reply \in Replies, Reply(reply)
      PROVE  PresentationInv'
  <2>1. pc = "posting" /\ Waiting /\ seen' = Append(seen, reply.status)
    BY <1>4, ReplyOutcomes DEF Waiting
  <2>2. /\ seen \in Seq({r.status : r \in Replies}) /\ Len(seen) = attempt - 1
        /\ \A i \in DOMAIN seen : seen[i] = "transient"
    BY <2>1 DEF PresentationInv, RepliesCounted
  <2>3. /\ seen' \in Seq({r.status : r \in Replies}) /\ Len(seen') = attempt
        /\ \A i \in DOMAIN seen' : seen'[i] = "transient" \/ seen'[i] = reply.status
    BY <1>1, <2>1, <2>2
  <2>4. CASE /\ reply.status = "transient" /\ AttemptsLeft /\ pc' = "backing_off"
             /\ wake' = clock + BackoffBase ^ attempt
             /\ UNCHANGED <<config, question, rows, prompt, attempt, clock, plan>>
    <3>1. Retries' = Retries /\ AttemptsLeft' /\ attempt < Retries
      BY <2>4 DEF Retries, AttemptsLeft
    <3>2. wake' \in Nat
      <4>1. attempt \in 1..config.retries
        BY <1>1, <3>1, Clamped, PresentationAssumption
      <4>2. BackoffBase ^ attempt \in Nat
        BY <1>1, <4>1, PresentationAssumption
      <4>3. clock \in Nat
        BY DEF PresentationInv, PresentationTypeOK
      <4> DEFINE b == BackoffBase ^ attempt
      <4> HIDE DEF b
      <4>4. b \in Nat /\ wake' = clock + b
        BY <2>4, <4>2 DEF b
      <4> QED BY <4>3, <4>4
    <3>3. PresentationTypeOK'
      BY <2>4, <3>1, <3>2 DEF PresentationInv, PresentationTypeOK
    <3>4. SampleOfRows'
      BY <2>1, <2>4 DEF PresentationInv, SampleOfRows, Waiting
    <3>5. Progress'
      BY <2>1, <2>4 DEF PresentationInv, Progress, Waiting, Plans
    <3>6. RepliesCounted'
      BY <2>3, <2>4, <3>1 DEF RepliesCounted, Waiting
    <3> QED BY <3>3, <3>4, <3>5, <3>6 DEF PresentationInv
  <2>5. CASE reply.status = "odd" /\ Done(None)
    BY <2>1, <2>3, <2>5, EndKeepsInv, NoPlan
  <2>6. CASE Done(Decision(reply.body, prompt.sample))
    BY <2>1, <2>3, <2>6, EndKeepsInv, DecisionFormats
  <2>7. CASE Done(Fallback)
    BY <2>1, <2>3, <2>7, EndKeepsInv, NoPlan
  <2> QED BY <1>4, <2>4, <2>5, <2>6, <2>7, ReplyOutcomes
<1>5. CASE Retry
  <2>1. /\ pc = "backing_off" /\ pc' = "posting" /\ attempt' = attempt + 1
        /\ UNCHANGED <<config, question, rows, prompt, clock, wake, seen, plan>>
    BY <1>5 DEF Retry
  <2>2. Retries' = Retries /\ AttemptsLeft /\ Len(seen) = attempt
    BY <2>1 DEF Retries, PresentationInv, RepliesCounted
  <2>3. attempt' \in 1..Retries /\ Len(seen) = attempt' - 1
    BY <1>1, <2>1, <2>2 DEF AttemptsLeft
  <2>4. PresentationTypeOK'
    BY <2>1, <2>2, <2>3 DEF PresentationInv, PresentationTypeOK
  <2>5. SampleOfRows'
    BY <2>1 DEF PresentationInv, SampleOfRows, Waiting
  <2>6. Progress'
    BY <2>1 DEF PresentationInv, Progress, Waiting, Plans
  <2>7. RepliesCounted'
    BY <2>1, <2>3 DEF PresentationInv, RepliesCounted, Waiting
  <2> QED BY <2>4, <2>5, <2>6, <2>7 DEF PresentationInv
<1>6. CASE TimesOut
  <2>1. Waiting /\ Done(Fallback) /\ seen' = seen
    BY <1>6 DEF TimesOut, Waiting
  <2> QED BY <2>1, EndKeepsInv, NoPlan DEF PresentationInv, RepliesCounted
<1>7. CASE Tick
  <2>1. /\ clock' = clock + 1
        /\ UNCHANGED <<config, question, pc, rows, prompt, attempt, wake, seen, plan>>
    BY <1>7 DEF Tick
  <2>2. Retries' = Retries /\ (AttemptsLeft <=> AttemptsLeft')
    BY <2>1 DEF Retries, AttemptsLeft
  <2>3. PresentationTypeOK'
    BY <2>1, <2>2 DEF PresentationInv, PresentationTypeOK
  <2>4. SampleOfRows' /\ Progress'
    BY <2>1 DEF PresentationInv, SampleOfRows, Progress, Waiting, Plans
  <2>5. RepliesCounted'
    BY <2>1, <2>2 DEF PresentationInv, RepliesCounted, Waiting
  <2> QED BY <2>3, <2>4, <2>5 DEF PresentationInv
<1>8. CASE UNCHANGED presentationVars
  <2>1. UNCHANGED <<config, question, pc, rows, prompt, attempt, clock, wake, seen, plan>>
    BY <1>8 DEF presentationVars
  <2>2. Retries' = Retries /\ (AttemptsLeft <=> AttemptsLeft')
    BY <2>1 DEF Retries, AttemptsLeft
  <2>3. PresentationTypeOK'
    BY <2>1, <2>2 DEF PresentationInv, PresentationTypeOK
  <2>4. SampleOfRows' /\ Progress'
    BY <2>1 DEF PresentationInv, SampleOfRows, Progress, Waiting, Plans
  <2>5. RepliesCounted'
    BY <2>1, <2>2 DEF PresentationInv, RepliesCounted, Waiting
  <2> QED BY <2>3, <2>4, <2>5 DEF PresentationInv
<1> QED BY <1>2, <1>3, <1>4, <1>5, <1>6, <1>7, <1>8 DEF PresentationNext

(* The invariant holds in every reachable state. *)
LEMMA PresentationInvAlways == PresentationSpec => []PresentationInv
<1> QED BY PresentationInvInit, PresentationInvNext, PTL DEF PresentationSpec
-----------------------------------------------------------------------------
(* The content of the plan p says nothing that the rows rs and the prompt  *)
(* pr do not, and its other words come with a reply, the last of sn.       *)
FitsRows(p, rs, pr, sn) ==
    /\ p.ints \subseteq Facts(rs) \cup (IF pr.truncated THEN {Len(pr.sample)} ELSE {})
    /\ p.format = "chart" => \E c \in Cells(rs) : c.kind \in {"int", "whole", "ratio"}
    /\ p.format = "paragraph" => p.content = "text"
    /\ {l[1] : l \in p.labels} \subseteq Columns(rs)
    /\ ReasonShown(p, rs) => p.reason = "model"
    /\ p.reason = "model" \/ p.labels # {} \/ p.reasonInts # {} =>
          /\ sn # <<>> /\ sn[Len(sn)] = "text"
          /\ p.format = "chart" => HasNumericColumn(pr.sample)
          /\ IntegersFit(p.ints, pr.sample)

(* A validated decision fits the rows, though only a truncated sample of   *)
(* them was checked.                                                       *)
LEMMA DecisionFits ==
    ASSUME PresentationInv, Waiting, NEW body, NEW sn, sn # <<>>, sn[Len(sn)] = "text"
    PROVE  FitsRows(Decision(body, prompt.sample), rows, prompt, sn)
<1> DEFINE D == Decision(body, prompt.sample)
<1>1. /\ D.format = "paragraph" => D.content = "text"
      /\ D.format = "chart" => HasNumericColumn(prompt.sample)
      /\ D.ints \subseteq {Len(prompt.sample)}
                            \cup UNION {NumericForms(c) : c \in Cells(prompt.sample)}
      /\ {l[1] : l \in D.labels} \subseteq Columns(prompt.sample)
      /\ D.reason \in {"none", "model"} \/ D = Fallback
  BY DecisionFormats
<1>2. rows \in Seq({rows[i] : i \in DOMAIN rows})
  BY RowsAreSequences DEF PresentationInv, PresentationTypeOK
<1>3. /\ UNION {NumericForms(c) : c \in Cells(prompt.sample)}
            \subseteq UNION {NumericForms(c) : c \in Cells(rows)}
      /\ HasNumericColumn(prompt.sample)
            => \E c \in Cells(rows) : c.kind \in {"int", "whole", "ratio"}
      /\ Columns(prompt.sample) \subseteq Columns(rows)
  BY <1>2, SampleSaysLess DEF PresentationInv
<1>4. prompt.truncated \/ Len(prompt.sample) = Len(rows)
  BY <1>2 DEF PresentationInv, SampleOfRows
<1> HIDE DEF D
<1>5. D.ints \subseteq Facts(rows)
                \cup (IF prompt.truncated THEN {Len(prompt.sample)} ELSE {})
  BY <1>1, <1>3, <1>4 DEF Facts
<1>6. IntegersFit(D.ints, prompt.sample)
  BY <1>1 DEF IntegersFit
<1>7. ReasonShown(D, rows) => D.reason = "model"
  <2>1. CASE D.reason \in {"none", "model"}
    BY <2>1 DEF ReasonShown
  <2>2. CASE D = Fallback
    BY <2>2, NoPlan DEF ReasonShown
  <2> QED BY <1>1, <2>1, <2>2
<1>8. {l[1] : l \in D.labels} \subseteq Columns(rows)
  BY <1>1, <1>3
<1>9. FitsRows(D, rows, prompt, sn)
  BY <1>1, <1>3, <1>5, <1>6, <1>7, <1>8 DEF FitsRows
<1> QED BY <1>9 DEF D

(* A plan that says nothing fits any rows. *)
LEMMA NoPlanFits ==
    ASSUME NEW rs, NEW pr, NEW sn
    PROVE  FitsRows(None, rs, pr, sn) /\ FitsRows(Fallback, rs, pr, sn)
<1>1. {l[1] : l \in None.labels} = {} /\ {l[1] : l \in Fallback.labels} = {}
  BY NoPlan
<1>2. ~ReasonShown(None, rs) /\ ~ReasonShown(Fallback, rs)
  BY NoPlan DEF ReasonShown
<1> QED BY <1>1, <1>2, NoPlan DEF FitsRows

(* The plan shown fits the rows, step by step. *)
LEMMA FitsNext ==
    PresentationInv /\ FitsRows(plan, rows, prompt, seen) /\ [PresentationNext]_presentationVars
        => FitsRows(plan, rows, prompt, seen)'
<1> SUFFICES ASSUME PresentationInv, FitsRows(plan, rows, prompt, seen),
                    [PresentationNext]_presentationVars
             PROVE  FitsRows(plan', rows', prompt', seen')
  OBVIOUS
<1>1. CASE ExecutionFails \/ ExecutionReturns
  <2>1. plan' = None
    BY <1>1 DEF ExecutionFails, ExecutionReturns, PresentationInv, Progress
  <2> QED BY <2>1, NoPlanFits
<1>2. ASSUME NEW p, Done(p), FitsRows(p, rows, prompt, seen')
      PROVE  FitsRows(plan', rows', prompt', seen')
  BY <1>2, EndStep
<1>3. ASSUME NEW reply \in Replies, Reply(reply)
      PROVE  FitsRows(plan', rows', prompt', seen')
  <2>1. Waiting /\ seen' = Append(seen, reply.status)
    BY <1>3, ReplyOutcomes DEF Waiting
  <2>2. CASE UNCHANGED <<config, question, rows, prompt, attempt, clock, plan>>
    <3>1. plan' = None
      BY <2>1, <2>2 DEF PresentationInv, Progress, Waiting
    <3> QED BY <3>1, NoPlanFits
  <2>3. CASE Done(None) \/ Done(Fallback)
    BY <1>2, <2>3, NoPlanFits
  <2>4. CASE reply.status = "text" /\ Done(Decision(reply.body, prompt.sample))
    <3>1. seen \in Seq({r.status : r \in Replies}) /\ reply.status \in {r.status : r \in Replies}
      BY DEF PresentationInv, RepliesCounted
    <3>2. seen' # <<>> /\ seen'[Len(seen')] = "text"
      BY <2>1, <2>4, <3>1
    <3> QED BY <1>2, <2>1, <2>4, <3>2, DecisionFits
  <2> QED BY <1>3, <2>2, <2>3, <2>4, ReplyOutcomes
<1>4. CASE TimesOut
  BY <1>2, <1>4, NoPlanFits DEF TimesOut
<1>5. CASE Retry \/ Tick \/ UNCHANGED presentationVars
  <2>1. plan' = plan /\ rows' = rows /\ prompt' = prompt /\ seen' = seen
    BY <1>5 DEF Retry, Tick, presentationVars
  <2> QED BY <2>1
<1> QED BY <1>1, <1>3, <1>4, <1>5 DEF PresentationNext

(* A missing plan keeps its reason. *)
LEMMA ExplainedNext ==
    PresentationInv /\ MissingPlanExplained /\ [PresentationNext]_presentationVars
        => MissingPlanExplained'
<1> DEFINE Off == ~config.enabled \/ ~config.key \/ rows = <<>>
           Odd == \E i \in DOMAIN seen : seen[i] = "odd"
           Accounted == /\ pc = "answered" /\ plan = None => Off \/ Odd
                        /\ Off => pc \notin {"posting", "backing_off"} /\ seen = <<>>
<1>1. MissingPlanExplained <=> Accounted
  BY DEF MissingPlanExplained
<1>2. MissingPlanExplained' <=> Accounted'
  BY DEF MissingPlanExplained
<1> SUFFICES ASSUME PresentationInv, Accounted, [PresentationNext]_presentationVars
             PROVE  Accounted'
  BY <1>1, <1>2
<1>3. CASE ExecutionFails
  <2>1. pc' = "failed" /\ seen' = seen /\ config' = config /\ rows' = rows /\ seen = <<>>
    BY <1>3 DEF ExecutionFails, PresentationInv, RepliesCounted
  <2> QED BY <2>1
<1>4. CASE ExecutionReturns
  <2>1. /\ seen' = seen /\ config' = config /\ seen = <<>>
        /\ (Plans(rows') /\ pc' = "posting") \/ (~Plans(rows') /\ pc' = "answered")
    BY <1>4 DEF ExecutionReturns, PresentationInv, RepliesCounted
  <2>2. Plans(rows') <=> ~Off'
    BY <2>1 DEF Plans
  <2> QED BY <2>1, <2>2
<1>5. ASSUME Waiting, NEW p, Done(p), p # None \/ Odd'
      PROVE  Accounted'
  <2>1. pc' = "answered" /\ plan' = p /\ config' = config /\ rows' = rows
    BY <1>5, EndStep
  <2>2. ~Off
    BY <1>5 DEF Waiting
  <2> QED BY <1>5, <2>1, <2>2
<1>6. ASSUME NEW reply \in Replies, Reply(reply)
      PROVE  Accounted'
  <2>1. Waiting /\ seen' = Append(seen, reply.status)
    BY <1>6, ReplyOutcomes DEF Waiting
  <2>2. CASE /\ pc' = "backing_off"
             /\ UNCHANGED <<config, question, rows, prompt, attempt, clock, plan>>
    <3>1. ~Off
      BY <2>1 DEF Waiting
    <3> QED BY <2>2, <3>1
  <2>3. CASE reply.status = "odd" /\ Done(None)
    <3>1. seen \in Seq({r.status : r \in Replies})
      BY DEF PresentationInv, RepliesCounted
    <3>2. Len(seen) + 1 \in DOMAIN seen' /\ seen'[Len(seen) + 1] = "odd"
      BY <2>1, <2>3, <3>1
    <3>3. Odd'
      BY <3>2
    <3> QED BY <1>5, <2>1, <2>3, <3>3
  <2>4. CASE Done(Decision(reply.body, prompt.sample))
    <3>1. Decision(reply.body, prompt.sample) # None
      BY DecisionFormats, NoPlan
    <3> QED BY <1>5, <2>1, <2>4, <3>1
  <2>5. CASE Done(Fallback)
    <3>1. Fallback # None
      BY NoPlan
    <3> QED BY <1>5, <2>1, <2>5, <3>1
  <2> QED BY <1>6, <2>2, <2>3, <2>4, <2>5, ReplyOutcomes
<1>7. CASE Retry
  <2>1. /\ pc = "backing_off" /\ pc' = "posting" /\ seen' = seen
        /\ config' = config /\ rows' = rows
    BY <1>7 DEF Retry
  <2> QED BY <2>1
<1>8. CASE TimesOut
  <2>1. Waiting /\ Done(Fallback) /\ Fallback # None
    BY <1>8, NoPlan DEF TimesOut, Waiting
  <2> QED BY <1>5, <2>1
<1>9. CASE Tick \/ UNCHANGED presentationVars
  <2>1. pc' = pc /\ seen' = seen /\ config' = config /\ rows' = rows /\ plan' = plan
    BY <1>9 DEF Tick, presentationVars
  <2> QED BY <2>1
<1> QED BY <1>3, <1>4, <1>6, <1>7, <1>8, <1>9 DEF PresentationNext

(* No step exceeds the budget of requests or of time. *)
LEMMA BudgetNext ==
    PresentationInv /\ RetriesBounded /\ [PresentationNext]_presentationVars
        => RetriesBounded'
<1> SUFFICES ASSUME PresentationInv, RetriesBounded, [PresentationNext]_presentationVars
             PROVE  RetriesBounded'
  OBVIOUS
<1>1. /\ config \in Configs /\ Retries \in Nat \ {0} /\ attempt \in 1..Retries
      /\ Deadline \in Nat /\ Deadline = RequestTimeout * Retries /\ clock \in Nat
      /\ seen \in Seq({r.status : r \in Replies})
  BY Clamped DEF PresentationInv, PresentationTypeOK, RepliesCounted
<1>2. config' = config
  BY DEF PresentationNext, ExecutionFails, ExecutionReturns, Reply, Retry, TimesOut, Tick,
         Done, presentationVars
<1>3. Retries' = Retries /\ Deadline' = Deadline
  BY <1>2 DEF Retries, Deadline
<1>4. WithinBudget'
  <2>1. clock' = clock \/ Tick
    BY EndStep, ReplyOutcomes
    DEF PresentationNext, ExecutionFails, ExecutionReturns, Retry, TimesOut, presentationVars
  <2>2. clock <= Deadline
    BY <1>1 DEF RetriesBounded, WithinBudget
  <2>3. clock' <= Deadline
    BY <1>1, <2>1, <2>2 DEF Tick
  <2> QED BY <1>1, <1>3, <2>3 DEF WithinBudget
<1>5. AskedAgainOnlyIfTransient'
  <2>1. /\ Len(seen) <= Retries
        /\ \A i \in 1 .. Len(seen) - 1 : seen[i] = "transient"
        /\ Waiting /\ seen # <<>> => seen[Len(seen)] = "transient"
    BY DEF RetriesBounded, AskedAgainOnlyIfTransient, Waiting
  <2>2. ASSUME NEW reply \in Replies, Reply(reply)
        PROVE  AskedAgainOnlyIfTransient'
    <3>1. /\ pc = "posting" /\ Waiting /\ seen' = Append(seen, reply.status)
          /\ pc' = "answered" \/ reply.status = "transient"
      BY <2>2, ReplyOutcomes, EndStep DEF Waiting
    <3>2. Len(seen) = attempt - 1 /\ \A i \in DOMAIN seen : seen[i] = "transient"
      BY <3>1 DEF PresentationInv, RepliesCounted
    <3>3. /\ Len(seen') = attempt
          /\ \A i \in 1 .. Len(seen') - 1 : seen'[i] = "transient"
          /\ seen'[Len(seen')] = reply.status
      BY <1>1, <3>1, <3>2
    <3>4. Len(seen') <= Retries
      BY <1>1, <3>3
    <3> QED BY <1>3, <3>1, <3>3, <3>4 DEF AskedAgainOnlyIfTransient
  <2>3. CASE ExecutionFails \/ ExecutionReturns
    <3>1. seen' = seen /\ seen = <<>>
      BY <2>3 DEF ExecutionFails, ExecutionReturns, PresentationInv, RepliesCounted
    <3> QED BY <1>3, <2>1, <3>1 DEF AskedAgainOnlyIfTransient
  <2>4. CASE Retry \/ TimesOut \/ Tick \/ UNCHANGED presentationVars
    <3>1. seen' = seen /\ (pc' \in {"posting", "backing_off"} => Waiting)
      BY <2>4, EndStep DEF Retry, TimesOut, Tick, presentationVars, Waiting
    <3> QED BY <1>3, <2>1, <3>1 DEF AskedAgainOnlyIfTransient
  <2> QED BY <2>2, <2>3, <2>4 DEF PresentationNext
<1> QED BY <1>4, <1>5 DEF RetriesBounded
-----------------------------------------------------------------------------
(* result_presentation_service.py, decide: for every result, every reply   *)
(* of the model's service and every configuration, an integer in the       *)
(* content is in the rows or counts them, a chart has numbers to plot,     *)
(* labels name real columns, rows left out are declared, a missing plan is *)
(* explained, and the wording no guard looks at (the reason on the badge   *)
(* and the labels, whose integers may be any) comes with an accepted plan. *)
THEOREM PlansAreSound == PresentationSpec => []PlanSound
<1>1. PresentationInit => FitsRows(plan, rows, prompt, seen)
  BY NoPlanFits DEF PresentationInit
<1>2. PresentationInit => MissingPlanExplained
  BY DEF PresentationInit, MissingPlanExplained
<1>3. PresentationSpec => []FitsRows(plan, rows, prompt, seen)
  BY <1>1, FitsNext, PresentationInvAlways, PTL DEF PresentationSpec
<1>4. PresentationSpec => []MissingPlanExplained
  BY <1>2, ExplainedNext, PresentationInvAlways, PTL DEF PresentationSpec
<1>5. PresentationInv /\ FitsRows(plan, rows, prompt, seen) /\ MissingPlanExplained => PlanSound
  <2> SUFFICES ASSUME PresentationInv, FitsRows(plan, rows, prompt, seen), MissingPlanExplained
               PROVE  PlanSound
    OBVIOUS
  <2>1. GroundedInResult /\ PlanFitsResult /\ UnguardedWordingIsOfAPlan
    BY DEF FitsRows, GroundedInResult, PlanFitsResult, UnguardedWordingIsOfAPlan
  <2>2. TruncationDeclared
    <3>1. rows \in Seq({rows[i] : i \in DOMAIN rows})
      BY RowsAreSequences DEF PresentationInv, PresentationTypeOK
    <3> QED BY <3>1 DEF PresentationInv, SampleOfRows, Waiting, TruncationDeclared
  <2> QED BY <2>1, <2>2 DEF PlanSound, PresentationInv
<1> QED BY <1>3, <1>4, <1>5, PresentationInvAlways, PTL

(* result_presentation_service.py, _complete and decide: the model is      *)
(* asked at most `retries' times, again only after a transient reply, and  *)
(* the rows wait for their presentation at most request_timeout times the  *)
(* number of attempts, backoffs included.                                  *)
THEOREM BudgetIsKept == PresentationSpec => []RetriesBounded
<1>1. PresentationInit => RetriesBounded
  <2> SUFFICES ASSUME PresentationInit PROVE RetriesBounded
    OBVIOUS
  <2>1. config \in Configs /\ clock = 0 /\ seen = <<>>
    BY DEF PresentationInit
  <2>2. Retries \in Nat /\ RequestTimeout * Retries \in Nat
    BY <2>1, Clamped
  <2> QED BY <2>1, <2>2 DEF RetriesBounded, WithinBudget, AskedAgainOnlyIfTransient
<1> QED BY <1>1, BudgetNext, PresentationInvAlways, PTL DEF PresentationSpec
=============================================================================
