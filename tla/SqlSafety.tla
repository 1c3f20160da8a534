------------------------------ MODULE SqlSafety ------------------------------
(***************************************************************************)
(* repositories/sql_validators: clean_sql, the rules of                    *)
(* DefaultSqlSafetyChecker and the sqlglot checks of AstSqlAnalyzer.       *)
(*                                                                         *)
(* A statement is what the checks can tell apart of its text:              *)
(*   head        how the text begins, a sequence of "fence" (a ``` line),  *)
(*               "SQL" (the prefix SQL: or SQL ), "elect", "select",       *)
(*               "with" and "other"                                        *)
(*   defects     a subset of {"blank", "nul", "long", "comment",           *)
(*               "unparsable"}                                             *)
(*   statements  how many statements sqlparse finds                        *)
(*   kind        sqlparse's type: "SELECT", "UNKNOWN" or another one       *)
(*   selects     is the word SELECT in the text                            *)
(*   keywords    its keyword tokens          nodes    its AST node classes *)
(*   functions   the functions it calls      tables   the tables it names  *)
(*   ctes        its common table expressions                              *)
(*   columns     the projected columns, <<qualifier, column>>, with the    *)
(*               qualifier "*" for none and the column "*" for all         *)
(***************************************************************************)
EXTENDS Integers, Sequences, FiniteSets

CONSTANTS
    SystemTables,       \* tables and schemas that begin with pg_ or information_schema
    TableAllowlist,     \* SQL_ALLOWED_TABLES, {} for none
    ColumnAllowlist     \* SQL_ALLOWED_COLUMNS: function from tables to column sets

-----------------------------------------------------------------------------
(* clean_sql.                                                              *)
StartsWith(head, w) == head # <<>> /\ Head(head) = w

(* ``` lines go only when the text begins with one. *)
Unfenced(head) ==
    IF StartsWith(head, "fence") THEN SelectSeq(head, LAMBDA w : w # "fence") ELSE head

Unprefixed(head) == IF StartsWith(head, "SQL") THEN Tail(head) ELSE head

(* ELECT -> SELECT *)
Repaired(head) ==
    IF StartsWith(head, "elect") THEN <<"select">> \o Tail(head) ELSE head

Cleaned(head) == Repaired(Unprefixed(Unfenced(head)))

(* clean_sql does not raise. *)
Cleanable(head) ==
    StartsWith(Cleaned(head), "select") \/ StartsWith(Cleaned(head), "with")

-----------------------------------------------------------------------------
(* The rules, in the order of DefaultSqlSafetyChecker.rules.               *)
MustBeSelect(s) == s.kind = "SELECT" \/ (s.kind = "UNKNOWN" /\ s.selects)

Mutations ==
    {"delete", "insert", "update", "drop", "create", "alter", "commit", "rollback",
     "truncate", "grant", "revoke", "merge", "call", "execute"}

NoForbiddenKeywords(s) == s.keywords \cap (Mutations \cup {"copy"}) = {}

(* ast_analyzer.FORBIDDEN_FUNCTIONS, one function of each group. *)
FORBIDDEN_FUNCTIONS ==
    {"pg_read_file", "pg_sleep", "pg_advisory_lock", "dblink", "lo_import", "query_to_xml"}

ForbiddenFunctions(s) == s.functions \cap FORBIDDEN_FUNCTIONS # {}

ForbiddenTable(s) == s.tables \cap SystemTables # {}

Rules(s) ==
    /\ s.statements = 1
    /\ MustBeSelect(s)
    /\ "comment" \notin s.defects
    /\ NoForbiddenKeywords(s)
    /\ "unparsable" \notin s.defects
    /\ ~ForbiddenFunctions(s)
    /\ ~ForbiddenTable(s)

(* AstSqlAnalyzer.is_strictly_read_only *)
MutationNodes ==
    {"Insert", "Update", "Delete", "Drop", "Create", "Alter", "Command",
     "TruncateTable", "Merge", "Into"}

StrictlyReadOnly(s) ==
    /\ "Query" \in s.nodes
    /\ s.nodes \cap (MutationNodes \cup {"Lock"}) = {}
    /\ ~ForbiddenFunctions(s)

(* extract_tables: CTE aliases are not tables. *)
PhysicalTables(s) == s.tables \ s.ctes

(* The columns requested of table t: unqualified, or qualified by t. *)
Requested(s, t) == {c[2] : c \in {d \in s.columns : d[1] \in {"*", t}}}

(* _enforces_allowlist *)
EnforcesAllowlist(s) ==
    /\ TableAllowlist # {} => PhysicalTables(s) \subseteq TableAllowlist
    /\ DOMAIN ColumnAllowlist # {} =>
          /\ \A c \in s.columns : c[2] # "*"
          /\ \A t \in DOMAIN ColumnAllowlist \cap PhysicalTables(s) :
                 Requested(s, t) \subseteq ColumnAllowlist[t]

(* Mutant: the rules look at the text only, the AST is not walked. *)
IsSafeSelectQueryByText(s) ==
    /\ s.defects \cap {"blank", "nul", "long"} = {}
    /\ Rules(s)
    /\ EnforcesAllowlist(s)

(* is_safe_select_query; an exception of a parser counts as a refusal. *)
IsSafeSelectQuery(s) ==
    /\ s.defects \cap {"blank", "nul", "long"} = {}
    /\ Rules(s)
    /\ s.keywords \cap Mutations = {}
    /\ StrictlyReadOnly(s)
    /\ EnforcesAllowlist(s)

(* clean_and_validate_sql returns. *)
CleanAndValidate(s) == Cleanable(s.head) /\ IsSafeSelectQuery(s)
=============================================================================
