----------------------------- MODULE Workspace ------------------------------
(***************************************************************************)
(* web-app: the query workspace (dashboard.tsx and its editors), the API   *)
(* client's handling of a 401, and the pages around it (login, callback).  *)
(*                                                                         *)
(* JavaScript runs one handler at a time; what interleaves are the user's  *)
(* clicks and keys, the 300 ms timer of an execution, the answers to the   *)
(* requests in flight and the browser's navigation.  An execution is its   *)
(* index in `calls'.  null, '' and white space are one value, Empty: no    *)
(* request is sent for any of them.  One tab.                              *)
(***************************************************************************)
EXTENDS Integers, Sequences, FiniteSets

CONSTANTS
    Statements,   \* SQL texts with something in them
    Empty,        \* no text
    NoEditor,     \* no Monaco editor is on the page
    MaxRuns       \* bound: executions started per page load

Texts == Statements \cup {Empty}

ASSUME WorkspaceAssumption ==
    /\ Empty \notin Statements
    /\ NoEditor \notin Texts
    /\ MaxRuns \in Nat \ {0}

VARIABLES
    queryMode,      \* "sql" or "ask"
    sqlQuery,       \* text of the SQL editor
    generatedSql,   \* text of the generated statement
    editing,        \* AskEditor: editingGenerated
    runQuery,       \* the text the Cmd+Enter action of the mounted editor runs
    isGenerating,
    asking,         \* a text-to-SQL request is in flight
    calls,          \* the executions, in the order they were started
    queryResults,   \* the execution whose rows are shown, 0 for null
    queryError,     \* what the error text is about
    regenerated,    \* results and error were reset by handleGenerateSql last
    executionStatus,
    page,           \* "workspace", "login" or "callback"
    callback,       \* AuthCallback's status
    token, user,    \* localStorage has app_jwt_exists, has user
    leaving         \* window.location.href is set to another page

editorVars  == <<queryMode, sqlQuery, generatedSql, editing, runQuery>>
verdictVars == <<queryResults, queryError, regenerated, executionStatus>>
authVars    == <<page, callback, token, user, leaving>>
vars == <<editorVars, isGenerating, asking, calls, verdictVars, authVars>>

NoError == [cause |-> "none", call |-> 0]
Cause(c) == [cause |-> c, call |-> 0]

-----------------------------------------------------------------------------
(* useState of Dashboard and AskEditor. *)
Init ==
    /\ queryMode = "sql" /\ sqlQuery = Empty
    /\ generatedSql = Empty /\ editing = FALSE /\ runQuery = Empty
    /\ isGenerating = FALSE /\ asking = FALSE /\ calls = <<>>
    /\ queryResults = 0 /\ queryError = NoError /\ regenerated = FALSE
    /\ executionStatus = "idle"
    /\ page = "login" /\ callback = "loading"
    /\ token = FALSE /\ user = FALSE /\ leaving = FALSE

(* A page is loaded, or the dashboard unmounted: its state starts afresh. *)
FreshPage ==
    /\ queryMode' = "sql" /\ sqlQuery' = Empty
    /\ generatedSql' = Empty /\ editing' = FALSE /\ runQuery' = Empty
    /\ isGenerating' = FALSE /\ asking' = FALSE /\ calls' = <<>>
    /\ queryResults' = 0 /\ queryError' = NoError /\ regenerated' = FALSE
    /\ executionStatus' = "idle"

IsExecuting == executionStatus \in {"validating", "executing"}

InFlight == {k \in DOMAIN calls : calls[k].phase # "done"}

(* The editor on the page: always one in SQL mode; in Ask mode the one of  *)
(* the generated statement, while there is one and it is being edited.     *)
Mounted == queryMode = "sql" \/ (generatedSql # Empty /\ editing)
EditorText == IF queryMode = "sql" THEN sqlQuery ELSE generatedSql

(* The editor component stays the same one over this step. *)
Kept == Mounted /\ Mounted' /\ queryMode' = queryMode

(* handleMount registers Cmd+Enter once, when the editor is mounted (the   *)
(* Monaco component keeps the onMount of its first render): the action     *)
(* runs the text of that moment for as long as the editor stays.           *)
RegisterRunQuery ==
    runQuery' = IF ~Mounted' THEN NoEditor
                ELSE IF Kept THEN runQuery ELSE EditorText'

(* Code that runs in the workspace and does not touch the sign-in. *)
Handler == page = "workspace" /\ UNCHANGED authVars

(* A handler of the user's input.  Once another location is set only the   *)
(* answers that still come in are considered.                              *)
Input == Handler /\ ~leaving

-----------------------------------------------------------------------------
(* The user types in the SQL editor or in the generated statement, or      *)
(* inserts a name of the schema (handleInsertIdentifier, SQL mode only).   *)
Type(text) ==
    /\ Input /\ Mounted /\ text # EditorText
    /\ IF queryMode = "sql"
       THEN sqlQuery' = text /\ UNCHANGED generatedSql
       ELSE generatedSql' = text /\ UNCHANGED sqlQuery
    /\ UNCHANGED <<queryMode, editing>>
    /\ RegisterRunQuery
    /\ UNCHANGED <<isGenerating, asking, calls, verdictVars>>

(* setQueryMode: the other editor is mounted, AskEditor with fresh state.  *)
SwitchMode ==
    /\ Input
    /\ queryMode' = IF queryMode = "sql" THEN "ask" ELSE "sql"
    /\ editing' = FALSE
    /\ UNCHANGED <<sqlQuery, generatedSql>>
    /\ RegisterRunQuery
    /\ UNCHANGED <<isGenerating, asking, calls, verdictVars>>

(* The Edit / Done button of the generated statement. *)
ToggleEditing ==
    /\ Input /\ queryMode = "ask" /\ generatedSql # Empty
    /\ editing' = ~editing
    /\ UNCHANGED <<queryMode, sqlQuery, generatedSql>>
    /\ RegisterRunQuery
    /\ UNCHANGED <<isGenerating, asking, calls, verdictVars>>

-----------------------------------------------------------------------------
(* The records of the executions in flight once another one joins them. *)
Overlapping(how, sql) ==
    [k \in DOMAIN calls |-> IF k \in InFlight THEN [calls[k] EXCEPT !.over = TRUE]
                            ELSE calls[k]]
    \o <<[phase |-> "waiting", how |-> how, asShown |-> sql = EditorText,
          over |-> InFlight # {}, cleared |-> FALSE]>>

(* Mutant: the previous error stays. *)
HandleExecuteSqlKeepingError(sql, how) ==
    /\ sql \in Statements /\ Len(calls) < MaxRuns
    /\ executionStatus' = "validating"
    /\ queryResults' = 0 /\ regenerated' = FALSE
    /\ calls' = Overlapping(how, sql)
    /\ UNCHANGED queryError

(* handleExecuteSql up to the timer: a blank statement only sets the error. *)
HandleExecuteSql(sql, how) ==
    \/ /\ sql \notin Statements
       /\ queryError' = Cause("blank")
       /\ UNCHANGED <<calls, queryResults, regenerated, executionStatus>>
    \/ /\ sql \in Statements /\ Len(calls) < MaxRuns
       /\ executionStatus' = "validating"
       /\ queryError' = NoError /\ queryResults' = 0 /\ regenerated' = FALSE
       /\ calls' = Overlapping(how, sql)

(* Mutant: the button is not disabled while a statement runs. *)
RunEnabledAlways == EditorText \in Statements

(* disabled={isExecuting || !sql.trim()} *)
RunEnabled == ~IsExecuting /\ EditorText \in Statements

(* handleExecuteDirectSql, handleExecuteNaturalLanguage of this render. *)
ButtonSql == EditorText

RunButton ==
    /\ Input /\ RunEnabled
    /\ HandleExecuteSql(ButtonSql, "button")
    /\ UNCHANGED <<editorVars, isGenerating, asking>>

(* Cmd+Enter in the editor: no guard, and the text of its mount. *)
RunShortcut ==
    /\ Input /\ Mounted
    /\ HandleExecuteSql(runQuery, "shortcut")
    /\ UNCHANGED <<editorVars, isGenerating, asking>>

(* The timer of execution k ends: the request is sent. *)
Post(k) ==
    /\ Handler /\ calls[k].phase = "waiting"
    /\ executionStatus' = "executing"
    /\ calls' = [calls EXCEPT ![k] = [calls[k] EXCEPT !.phase = "posted"]]
    /\ UNCHANGED <<editorVars, isGenerating, asking, queryResults, queryError,
                   regenerated>>

(* executeSqlQuery returns rows. *)
Succeed(k) ==
    /\ Handler /\ calls[k].phase = "posted"
    /\ calls' = [calls EXCEPT ![k] = [calls[k] EXCEPT !.phase = "done"]]
    /\ queryResults' = k /\ regenerated' = FALSE
    /\ executionStatus' = "success"
    /\ UNCHANGED <<editorVars, isGenerating, asking, queryError>>

(* Mutant: the catch block leaves the status alone. *)
CaughtQuietly(k) ==
    /\ queryError' = [cause |-> "execution", call |-> k]
    /\ regenerated' = FALSE
    /\ UNCHANGED executionStatus

(* The catch block of handleExecuteSql. *)
Caught(k) ==
    /\ queryError' = [cause |-> "execution", call |-> k]
    /\ regenerated' = FALSE
    /\ executionStatus' = "error"

(* The response interceptor of the API client, before the error reaches    *)
(* the caller: a 401 clears the sign-in and sets the location.             *)
Intercept(unauthorized) ==
    /\ token' = (token /\ ~unauthorized) /\ user' = (user /\ ~unauthorized)
    /\ leaving' = (leaving \/ unauthorized)
    /\ UNCHANGED <<page, callback>>

(* executeSqlQuery throws: GraphQL errors, no data, an HTTP or a network   *)
(* error.                                                                  *)
Fail(k, unauthorized) ==
    /\ page = "workspace" /\ calls[k].phase = "posted"
    /\ Intercept(unauthorized)
    /\ calls' = [calls EXCEPT ![k] = [calls[k] EXCEPT !.phase = "done"]]
    /\ Caught(k)
    /\ UNCHANGED <<editorVars, isGenerating, asking, queryResults>>

(* handleClear: no guard, and no word to the execution in flight. *)
HandleClear ==
    /\ Input
    /\ queryMode = "sql" \/ generatedSql # Empty
    /\ IF queryMode = "sql"
       THEN sqlQuery' = Empty /\ UNCHANGED generatedSql
       ELSE generatedSql' = Empty /\ UNCHANGED sqlQuery
    /\ UNCHANGED <<queryMode, editing>>
    /\ RegisterRunQuery
    /\ queryResults' = 0 /\ queryError' = NoError /\ regenerated' = FALSE
    /\ executionStatus' = "idle"
    /\ calls' = [k \in DOMAIN calls |->
                    [calls[k] EXCEPT !.cleared = calls[k].cleared \/ k \in InFlight]]
    /\ UNCHANGED <<isGenerating, asking>>

-----------------------------------------------------------------------------
(* handleGenerateSql of a question: disabled={isGenerating || ...}. *)
GenerateSql ==
    /\ Input /\ queryMode = "ask" /\ ~isGenerating
    /\ isGenerating' = TRUE /\ asking' = TRUE
    /\ generatedSql' = Empty
    /\ UNCHANGED <<queryMode, sqlQuery, editing>>
    /\ RegisterRunQuery
    /\ queryError' = NoError /\ queryResults' = 0 /\ regenerated' = TRUE
    /\ UNCHANGED <<calls, executionStatus>>

(* The answer has a statement. *)
Generated(text) ==
    /\ Handler /\ asking
    /\ generatedSql' = text
    /\ isGenerating' = FALSE /\ asking' = FALSE
    /\ UNCHANGED <<queryMode, sqlQuery, editing>>
    /\ RegisterRunQuery
    /\ UNCHANGED <<calls, verdictVars>>

(* Mutant: no finally. *)
GenerateFailedStuck(unauthorized) ==
    /\ page = "workspace" /\ asking
    /\ Intercept(unauthorized)
    /\ queryError' = Cause("generation")
    /\ asking' = FALSE
    /\ UNCHANGED <<editorVars, isGenerating, calls, queryResults, regenerated,
                   executionStatus>>

(* The answer has an error or no statement, or generateSql throws. *)
GenerateFailed(unauthorized) ==
    /\ page = "workspace" /\ asking
    /\ Intercept(unauthorized)
    /\ queryError' = Cause("generation")
    /\ isGenerating' = FALSE /\ asking' = FALSE
    /\ UNCHANGED <<editorVars, calls, queryResults, regenerated, executionStatus>>

-----------------------------------------------------------------------------

(* AuthProvider.logout: local only; without a user the route shows /login. *)
Logout ==
    /\ page = "workspace" /\ ~leaving
    /\ token' = FALSE /\ user' = FALSE
    /\ page' = "login" /\ leaving' = FALSE
    /\ FreshPage
    /\ UNCHANGED callback

(* The browser loads the page the location was set to: /login after a 401, *)
(* / after a callback.  The routes show the workspace to a stored user and *)
(* the login page to anyone else.                                          *)
Navigate ==
    /\ leaving
    /\ leaving' = FALSE
    /\ page' = IF user THEN "workspace" ELSE "login"
    /\ FreshPage
    /\ UNCHANGED <<callback, token, user>>

(* The login page sends the browser to /api/login, which ends at /auth.    *)
Login ==
    /\ page = "login"
    /\ page' = "callback" /\ callback' = "loading"
    /\ UNCHANGED <<token, user, leaving, editorVars, isGenerating, asking, calls,
                   verdictVars>>

(* handleCallback: an error parameter, a response that is not JSON, not ok *)
(* or without a user ends in "error"; otherwise the flag is set, the       *)
(* profile is stored if it is complete, and the location is set after      *)
(* 1500 ms.                                                                *)
HandleCallback(accepted, complete) ==
    /\ page = "callback" /\ callback = "loading"
    /\ callback' = IF accepted THEN "success" ELSE "error"
    /\ token' = (token \/ accepted)
    /\ user' = (user \/ (accepted /\ complete))
    /\ leaving' = accepted
    /\ UNCHANGED <<page, editorVars, isGenerating, asking, calls, verdictVars>>

(* "Back to Login" and "Home" after an error. *)
LeaveCallback ==
    /\ page = "callback" /\ callback = "error" /\ ~leaving
    /\ leaving' = TRUE
    /\ UNCHANGED <<page, callback, token, user, editorVars, isGenerating, asking,
                   calls, verdictVars>>

UserStep ==
    \/ SwitchMode \/ ToggleEditing
    \/ \E text \in Texts : Type(text)
    \/ RunButton \/ RunShortcut \/ HandleClear \/ GenerateSql
    \/ Logout \/ Login \/ LeaveCallback

Answer(k) == Succeed(k) \/ \E unauthorized \in BOOLEAN : Fail(k, unauthorized)

GenerationAnswer ==
    \/ \E text \in Statements : Generated(text)
    \/ \E unauthorized \in BOOLEAN : GenerateFailed(unauthorized)

Next ==
    \/ UserStep
    \/ \E k \in DOMAIN calls : Post(k) \/ Answer(k)
    \/ GenerationAnswer
    \/ Navigate
    \/ \E accepted, complete \in BOOLEAN : HandleCallback(accepted, complete)

Spec == Init /\ [][Next]_vars

(* Timers fire, the browser navigates, and every request is answered or    *)
(* fails: the services answer, as their own models show, and a connection  *)
(* that breaks is an answer.  The user need not do anything.               *)
FairSpec ==
    /\ Spec
    /\ \A k \in 1 .. MaxRuns :
          /\ WF_vars(k \in DOMAIN calls /\ Post(k))
          /\ WF_vars(k \in DOMAIN calls /\ Answer(k))
    /\ WF_vars(GenerationAnswer)
    /\ WF_vars(Navigate)
-----------------------------------------------------------------------------
(* What ResultsPanel shows. *)
Panel ==
    CASE IsExecuting -> "loading"
      [] ~IsExecuting /\ queryError # NoError -> "error"
      [] ~IsExecuting /\ queryError = NoError ->
             IF queryResults # 0 THEN "result" ELSE "empty"

(* An execution: where it is and how it was started, and whether its text  *)
(* was the one shown, it overlapped another, it was in flight at a Clear.  *)
Call == [phase : {"waiting", "posted", "done"}, how : {"button", "shortcut"},
         asShown : BOOLEAN, over : BOOLEAN, cleared : BOOLEAN]

(* The variables hold values of their types; a profile is stored only      *)
(* beside the flag, and Cmd+Enter exists exactly while an editor does.     *)
TypeOK ==
    /\ queryMode \in {"sql", "ask"} /\ sqlQuery \in Texts /\ generatedSql \in Texts
    /\ {editing, isGenerating, asking, regenerated, token, user, leaving}
           \subseteq BOOLEAN
    /\ runQuery \in Texts \cup {NoEditor} /\ (runQuery = NoEditor <=> ~Mounted)
    /\ calls \in Seq(Call)
    /\ queryResults \in 0 .. Len(calls)
    /\ queryError \in [cause : {"none", "blank", "generation", "execution"},
                        call : 0 .. Len(calls)]
    /\ executionStatus \in {"idle", "validating", "executing", "success", "error"}
    /\ page \in {"workspace", "login", "callback"}
    /\ callback \in {"loading", "success", "error"}
    /\ user => token

(* handleExecuteSql, handleGenerateSql: the page says it is busy only      *)
(* while there is something to wait for.  However executions overlap and   *)
(* whatever is cleared, a spinner belongs to a timer or a request that is  *)
(* still to end.                                                           *)
FeedbackTruthful ==
    /\ executionStatus = "validating" => \E k \in InFlight : calls[k].phase = "waiting"
    /\ executionStatus = "executing" => \E k \in InFlight : calls[k].phase = "posted"
    /\ isGenerating <=> asking

(* dashboard.tsx:73: an answer is shown without asking whose it is.  Rows  *)
(* or an error of an execution that is not the latest are on the page only *)
(* if the two were in flight together.                                     *)
StaleOnlyByOverlap ==
    /\ queryResults \notin {0, Len(calls)} => calls[queryResults].over
    /\ (queryError.cause = "execution" /\ queryError.call # Len(calls)) =>
           calls[queryError.call].over

(* SqlEditor.tsx:36, AskEditor.tsx:105: who only uses the Run button and   *)
(* never clears a running statement has one execution in flight at a time, *)
(* in whichever mode it was started and whatever is generated meanwhile.   *)
ButtonAloneSerial ==
    Cardinality(InFlight) > 1 =>
        \E k \in DOMAIN calls : calls[k].how = "shortcut" \/ calls[k].cleared

(* An execution whose statement was not the text on the page was started   *)
(* with Cmd+Enter, whose action keeps the text its editor was mounted with *)
(* (SqlMonacoEditor.tsx:55); the button always runs what is shown.         *)
ButtonRunsWhatIsShown ==
    \A k \in DOMAIN calls : calls[k].how = "button" => calls[k].asShown

(* The verdict of the last answer is what the panel shows, except when a   *)
(* blank Cmd+Enter, a generation or an overlapping execution has left its  *)
(* own error or cleared the panel: none of them resets the status.         *)
VerdictShown ==
    LET explained ==
            \/ queryError.cause \in {"blank", "generation"}
            \/ regenerated
            \/ queryError.cause = "execution" /\ calls[queryError.call].over IN
    /\ executionStatus = "success" => (Panel = "result" \/ explained)
    /\ executionStatus = "error" => (Panel = "error" \/ explained)

(* Neither spinner turns for ever, even if the statement that was running  *)
(* is cleared, overtaken or refused.                                       *)
FeedbackEnds ==
    /\ IsExecuting ~> ~IsExecuting
    /\ isGenerating ~> ~isGenerating

(* api-client.ts:56: once a 401 has removed the stored profile, the        *)
(* workspace does not stay on the screen.                                  *)
UnauthorizedLeaves == (page = "workspace" /\ ~user) ~> (page # "workspace")

(* dashboard.tsx: busy displays are truthful in every well-typed state.    *)
BusyTruthful == TypeOK /\ FeedbackTruthful

(* dashboard.tsx:72: answers are mixed up only by overlapping executions,  *)
(* and overlaps and unseen statements only come from Cmd+Enter or Clear.   *)
MixUpsHaveCause == StaleOnlyByOverlap /\ ButtonAloneSerial /\ ButtonRunsWhatIsShown

(* dashboard.tsx:75, api-client.ts:56: spinners end, and so does the       *)
(* workspace of a user whose sign-in was refused.                          *)
PageSettles == FeedbackEnds /\ UnauthorizedLeaves
=============================================================================
