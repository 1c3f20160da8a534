---------------------------- MODULE PolicyEngine ----------------------------
(***************************************************************************)
(* The two policy evaluators and what the gateway makes of their decision: *)
(* PolicyEvaluator (services/policy_engine.py), the in-process fallback,   *)
(* and OpaPolicyEvaluator (services/opa_policy_engine.py) with the Rego    *)
(* policy it asks (opa/policies/gateway.rego).                             *)
(*                                                                         *)
(* A document is a JSON object as it stands in data.json or in             *)
(* POLICY_POLICIES_JSON: a field is Absent, Null or has a value, and names *)
(* may be written in either case.  Policy.from_dict normalises it for the  *)
(* Python evaluator; Rego reads it as it is.  row_scope is a set of        *)
(* <<column, subject attribute>> pairs; its columns and the masked ones    *)
(* are lower-cased where they are enforced, and are lower case here.       *)
(* Statements, principals and their roles come lower-cased from elsewhere. *)
(***************************************************************************)
EXTENDS Integers, Sequences

CONSTANTS
    Absent, Null,  \* a field that is left out, a field that is null
    Lower(_),      \* lower-casing
    Documents,     \* the policy documents that may be published
    Principals,    \* [org, user, roles, attributes]
    Databases, Tables, Columns,
    MaxPolicies    \* bound: documents in force

(* What `or` passes over. *)
Falsy == {Absent, Null, ""}

LowerAll(S) == {Lower(x) : x \in S}

(* An array or object of a document, empty when there is none: count,      *)
(* iteration and `or []` treat the three alike.                            *)
Listed(x) == IF x \in {Absent, Null} THEN {} ELSE x

ASSUME PolicyAssumption ==
    /\ Absent # Null /\ {"", "allow", "deny", "select", "*"} \cap {Absent, Null} = {}
    /\ Falsy \cap Tables = {}
    /\ \A x \in Tables \cup Columns \cup {"", "allow", "deny", "*"} : Lower(x) = x
    /\ \A p \in Documents :
          /\ p.table \notin Falsy => Lower(p.table) \notin Falsy
          /\ Lower(p.action) = "*" => p.action = "*"
          /\ \A s, t \in Listed(p.row_scope) : s[1] = t[1] => s = t
    /\ \A pr \in Principals :
          /\ pr = [org |-> pr.org, user |-> pr.user, roles |-> pr.roles,
                   attributes |-> pr.attributes]
          /\ LowerAll(pr.roles) = pr.roles
          /\ {pr.org, pr.user} \cap Falsy = {}

VARIABLE policies    \* the documents in force, in order

Init == policies = <<>>

(* A document is added to the bundle OPA polls, or to POLICY_POLICIES_JSON *)
(* before a restart.                                                       *)
Publish(p) ==
    /\ Len(policies) < MaxPolicies
    /\ policies' = Append(policies, p)

Next == \E p \in Documents : Publish(p)

Spec == Init /\ [][Next]_policies

-----------------------------------------------------------------------------
Denied == [allowed |-> FALSE, row |-> {}, masked |-> {}]

(* What is taken from the documents I of ps, a reading of those in force:  *)
(* Loaded by Policy.from_dict or Served by OPA.                            *)
TablesOf(ps, I)  == {ps[i].table : i \in I}
ColumnsOf(ps, I) == UNION {ps[i].columns : i \in I}

(* Mutant: a column masked by one document and granted by another is not   *)
(* masked.                                                                 *)
MaskedOfEvery(ps, I) ==
    {c \in UNION {ps[i].masked_columns : i \in I} :
        \A i \in I : c \in ps[i].masked_columns}

(* masked.update(policy.masked_columns); collect_masked_columns *)
MaskedOf(ps, I) == UNION {ps[i].masked_columns : i \in I}

(* collect_row_restrictions *)
RowScopes(ps, I) == UNION {ps[i].row_scope : i \in I}

(* The column whitelists of the documents I, as one union. *)
ColumnsAllowed(ps, I, C) ==
    LET listed == {i \in I : ps[i].columns # {}} IN
    C = {} \/ listed = {} \/ C \subseteq ColumnsOf(ps, listed)

Denies(ps, I) == {i \in I : ps[i].effect = "deny"}

(* The grants: allow documents that name a table. *)
TablePolicies(ps, I) ==
    {i \in I : ps[i].effect = "allow" /\ ps[i].table \notin {Absent, Null}}

(* Every subject attribute a row restriction names is in the token. *)
AttributesPresent(row, pr) == \A s \in row : s[2] \in pr.attributes

-----------------------------------------------------------------------------
(* PolicyEvaluator.                                                        *)

(* The value of `a or b`, a null or missing b being None. *)
Or(a, b) == IF a \notin Falsy THEN a ELSE IF b = Null THEN Absent ELSE b

(* Policy.from_dict; None is Absent. *)
FromDict(d) ==
    [effect   |-> IF d.effect = Absent THEN "allow" ELSE Lower(d.effect),
     org      |-> Or(d.org_id, d.organisation_id),
     user     |-> Or(d.principal_id, d.user_id),
     roles    |-> LowerAll(Listed(d.roles)),
     database |-> IF d.database_id = Null THEN Absent ELSE d.database_id,
     table    |-> IF d.table \in Falsy THEN Absent ELSE Lower(d.table),
     columns  |-> LowerAll(Listed(d.columns)),
     masked_columns |-> Listed(d.masked_columns),
     row_scope      |-> Listed(d.row_scope),
     action   |-> IF Or(d.action, d.actions) \in Falsy THEN "select"
                  ELSE Lower(Or(d.action, d.actions))]

Loaded == [i \in DOMAIN policies |-> FromDict(policies[i])]

(* All of _matches except the table. *)
MatchesSubject(p, pr, db) ==
    /\ p.org \in {Absent, pr.org}
    /\ p.user \in {Absent, pr.user}
    /\ p.roles = {} \/ p.roles \cap pr.roles # {}
    /\ p.database \in {Absent, db}
    /\ p.action \in {"select", "*"}

Matches(p, pr, db, t) == MatchesSubject(p, pr, db) /\ p.table \in {Absent, t}

Applicable(pr, db, T) ==
    LET ps == Loaded IN
    {i \in DOMAIN policies : \E t \in T : Matches(ps[i], pr, db, t)}

(* row_restrictions.update(policy.row_scope): the last document that       *)
(* scopes a column decides by which attribute.                             *)
RowRestrictions(ps, I) ==
    {s \in RowScopes(ps, I) :
        \E i \in I : /\ s \in ps[i].row_scope
                     /\ \A j \in I : j > i =>
                            \A r \in ps[j].row_scope : r[1] # s[1]}

(* evaluate: tables T, referenced columns C. *)
Evaluate(pr, db, T, C) ==
    LET ps == Loaded
        I == Applicable(pr, db, T)
        A == TablePolicies(ps, I)
        row == RowRestrictions(ps, A) IN
    IF /\ T # {}
       /\ Denies(ps, I) = {}
       /\ A # {}
       /\ T \subseteq TablesOf(ps, A)
       /\ ColumnsAllowed(ps, A, C)
       /\ AttributesPresent(row, pr)
    THEN [allowed |-> TRUE, row |-> row, masked |-> MaskedOf(ps, A)]
    ELSE Denied

(* Mutant: denied tables stay visible. *)
AccessibleIgnoringDenies(ps, allows, denies) == TablesOf(ps, allows)

(* accessible_tables, in both evaluators: granted, not denied, and no      *)
(* deny document without a table.                                          *)
Accessible(ps, allows, denies) ==
    IF Absent \in TablesOf(ps, denies) THEN {}
    ELSE TablesOf(ps, allows) \ TablesOf(ps, denies)

(* effective_access: here every effect but deny grants. *)
EffectiveAccess(pr, db) ==
    LET ps == Loaded
        I == {i \in DOMAIN policies : MatchesSubject(ps[i], pr, db)}
        A == {i \in I : ps[i].effect # "deny" /\ ps[i].table # Absent} IN
    [tables |-> Accessible(ps, A, Denies(ps, I)),
     columns |-> ColumnsOf(ps, A),
     masked |-> MaskedOf(ps, A)]

(* EffectiveAccess.column_accessible *)
ColumnAccessible(access, t, c) ==
    /\ t \in access.tables
    /\ access.columns = {} \/ c \in access.columns

-----------------------------------------------------------------------------
(* gateway.rego, and OpaPolicyEvaluator around it.                         *)

(* role_hierarchy, expanded_roles; sod_constraints is empty. *)
ExpandedRoles(roles) == roles \cup (IF "admin" \in roles THEN {"viewer"} ELSE {})

(* A field that is left out matches anything, null matches nothing. *)
FieldMatches(x, v) == x = Absent \/ (x # Null /\ x = v)

(* An empty or null list of roles matches nobody. *)
RolesMatch(roles, pr) ==
    \/ roles = Absent
    \/ /\ roles # Null
       /\ LowerAll(roles) \cap LowerAll(ExpandedRoles(pr.roles)) # {}

ActionMatches(action) == action \in {Absent, Null, "*"} \/ Lower(action) = "select"

(* Mutant: a document without an org_id matches no organisation. *)
RegoMatchesNamedOrg(d, pr, db) ==
    /\ d.org_id = pr.org
    /\ FieldMatches(d.principal_id, pr.user)
    /\ RolesMatch(d.roles, pr)
    /\ FieldMatches(d.database_id, db)
    /\ ActionMatches(d.action)

(* matches_policy_for_access: all of matches_policy except the table. *)
RegoMatchesSubject(d, pr, db) ==
    /\ FieldMatches(d.org_id, pr.org)
    /\ FieldMatches(d.principal_id, pr.user)
    /\ RolesMatch(d.roles, pr)
    /\ FieldMatches(d.database_id, db)
    /\ ActionMatches(d.action)

(* matches_policy; the table of the document is compared as written. *)
RegoApplicable(pr, db, T) ==
    {i \in DOMAIN policies :
        /\ RegoMatchesSubject(policies[i], pr, db)
        /\ \/ policies[i].table = Absent
           \/ policies[i].table # Null /\ policies[i].table \in T}

(* The fields the rules take from a document they selected. *)
Served ==
    [i \in DOMAIN policies |->
        [effect |-> policies[i].effect,
         table |-> policies[i].table,
         columns |-> Listed(policies[i].columns),
         masked_columns |-> Listed(policies[i].masked_columns),
         row_scope |-> Listed(policies[i].row_scope)]]

(* Two documents that scope one column by different attributes make the    *)
(* object comprehension of collect_row_restrictions fail: OPA answers 500. *)
Conflict(scopes) == \E s, t \in scopes : s[1] = t[1] /\ s # t

(* data.gateway.evaluate; an evaluation error counts as a denial, because  *)
(* _query_opa returns None for it.                                         *)
RegoEvaluate(pr, db, T, C) ==
    LET ps == Served
        I == RegoApplicable(pr, db, T)
        A == TablePolicies(ps, I) IN
    IF /\ Denies(ps, I) = {}
       /\ A # {}
       /\ T \subseteq TablesOf(ps, A)
       /\ ColumnsAllowed(ps, A, C)
       /\ ~Conflict(RowScopes(ps, A))
    THEN [allowed |-> TRUE, row |-> RowScopes(ps, A), masked |-> MaskedOf(ps, A)]
    ELSE Denied

(* Mutant: an OPA that cannot be reached allows. *)
OpaEvaluateFailOpen(answer, pr, db, T, C) ==
    IF answer = "decision" THEN RegoEvaluate(pr, db, T, C)
    ELSE [allowed |-> TRUE, row |-> {}, masked |-> {}]

(* OpaPolicyEvaluator.evaluate: without tables nothing is asked, and every *)
(* answer but a well-formed decision denies.                               *)
OpaEvaluate(answer, pr, db, T, C) ==
    IF T # {} /\ answer = "decision" THEN RegoEvaluate(pr, db, T, C) ELSE Denied

(* decision: HTTP 200 with a decision object.  unreachable: a timeout or   *)
(* connection error.  http_error, undefined (no result), malformed (a      *)
(* result of another shape, or fields that are not arrays or objects).     *)
OpaAnswers == {"decision", "unreachable", "http_error", "undefined", "malformed"}

RegoEffectiveAccess(pr, db) ==
    LET ps == Served
        I == {i \in DOMAIN policies : RegoMatchesSubject(policies[i], pr, db)}
        A == TablePolicies(ps, I)
        D == Denies(ps, I) IN
    IF Absent \in TablesOf(ps, D)
    THEN [tables |-> {}, columns |-> {}, masked |-> {}]
    ELSE [tables |-> Accessible(ps, A, D),
          columns |-> ColumnsOf(ps, A),
          masked |-> MaskedOf(ps, A)]

-----------------------------------------------------------------------------
(* What GovernedQueryGateway.execute sends to the database under a         *)
(* decision: apply_row_restrictions refuses when an attribute is absent.   *)
Enforced(decision, pr) ==
    IF decision.allowed /\ AttributesPresent(decision.row, pr)
    THEN decision ELSE Denied

Inline(pr, db, T, C) == Enforced(Evaluate(pr, db, T, C), pr)
Opa(answer, pr, db, T, C) == Enforced(OpaEvaluate(answer, pr, db, T, C), pr)
-----------------------------------------------------------------------------
(* The variable holds a value of its type. *)
TypeOK == policies \in Seq(Documents) /\ Len(policies) <= MaxPolicies

(* A document that means the same to both readers: no field is null or     *)
(* empty, none is given under the second name only from_dict knows, the    *)
(* effect is spelled out and names are in lower case.                      *)
Portable(d) ==
    /\ d.effect \in {"allow", "deny"}
    /\ d.org_id \notin Falsy \/ (d.org_id = Absent /\ d.organisation_id \in {Absent, Null})
    /\ d.principal_id \notin Falsy \/ (d.principal_id = Absent /\ d.user_id \in {Absent, Null})
    /\ d.roles \notin {Null, {}}
    /\ d.database_id # Null
    /\ d.table = Absent \/ (d.table \notin Falsy /\ Lower(d.table) = d.table)
    /\ LowerAll(Listed(d.columns)) = Listed(d.columns)
    /\ d.action # "" /\ (d.action \in {Absent, Null} => d.actions \in Falsy)

(* A document that only grants tables, however it is written, as long as   *)
(* it uses the names Rego knows.                                           *)
BareGrant(d) ==
    /\ FromDict(d).effect = "allow"
    /\ Listed(d.columns) = {} /\ Listed(d.masked_columns) = {} /\ Listed(d.row_scope) = {}
    /\ d.org_id = Absent => d.organisation_id \in {Absent, Null}
    /\ d.principal_id = Absent => d.user_id \in {Absent, Null}
    /\ d.action \in {Absent, Null} => d.actions \in Falsy

(* What the migration from POLICY_POLICIES_JSON to OPA may change, for a   *)
(* principal whose roles inherit nothing and as long as no two applicable  *)
(* documents scope one column differently.  With portable documents both   *)
(* evaluators let the same statements through with the same row predicates *)
(* and masks - the absent attribute included, which one checks in the      *)
(* evaluator and the other in apply_row_restrictions.  With bare grants    *)
(* that are not portable OPA only loses grants: what it still lets through *)
(* passes the Python evaluator under the same predicates and masks.  A     *)
(* deny, whitelist, mask or row scope that is not portable is in neither   *)
(* case: Rego may pass over it.                                            *)
EvaluatorsAgree ==
    \A pr \in Principals, db \in Databases, T \in SUBSET Tables, C \in SUBSET Columns :
        (/\ ExpandedRoles(pr.roles) = pr.roles
         /\ ~Conflict(RowScopes(Loaded, TablePolicies(Loaded, Applicable(pr, db, T)))))
            => LET opa == Opa("decision", pr, db, T, C)
                   inline == Inline(pr, db, T, C) IN
               /\ (\A i \in DOMAIN policies : Portable(policies[i])) => opa = inline
               /\ (/\ \A i \in DOMAIN policies : Portable(policies[i]) \/ BareGrant(policies[i])
                   /\ opa.allowed)
                      => opa = inline

(* Whatever OPA answers, and whether or not it answers, a statement runs   *)
(* only if every table it touches is granted by a document that applies to *)
(* the principal, none is denied, and every row predicate has a value.     *)
RunsOnlyIfGranted ==
    \A answer \in OpaAnswers, pr \in Principals, db \in Databases,
       T \in SUBSET Tables, C \in SUBSET Columns :
        LET decision == Opa(answer, pr, db, T, C) IN
        decision.allowed =>
            /\ T # {}
            /\ \A t \in T :
                /\ \E i \in DOMAIN policies :
                      /\ policies[i].effect = "allow" /\ policies[i].table = t
                      /\ RegoMatchesSubject(policies[i], pr, db)
                /\ \A i \in DOMAIN policies :
                      (policies[i].effect = "deny" /\ policies[i].table \in {t, Absent})
                          => ~RegoMatchesSubject(policies[i], pr, db)
            /\ \A s \in decision.row : s[2] \in pr.attributes

(* evaluate knows no third effect, effective_access takes one for a grant. *)
EffectsKnown == \A i \in DOMAIN policies : Loaded[i].effect \in {"allow", "deny"}

(* The schema a principal is shown and the tables it can query are the     *)
(* same, in both evaluators: a table is accessible exactly when a query of *)
(* that table alone is allowed (for a principal with every attribute).     *)
TablesMirrored ==
    \A pr \in Principals, db \in Databases, t \in Tables :
        LET whole == [pr EXCEPT !.attributes =
                          @ \cup {s[2] : s \in RowScopes(Served, DOMAIN policies)}] IN
        /\ EffectsKnown => ((t \in EffectiveAccess(whole, db).tables)
                               <=> Evaluate(whole, db, {t}, {}).allowed)
        /\ ~Conflict(RowScopes(Served, DOMAIN policies)) =>
               ((t \in RegoEffectiveAccess(whole, db).tables)
                   <=> RegoEvaluate(whole, db, {t}, {}).allowed)

(* Publishing a deny document never lets a statement through that was      *)
(* refused before, and publishing any document never lifts a mask or a row *)
(* predicate's column from a statement that stays allowed; the attribute   *)
(* of a predicate changes only if the new document scopes that column.     *)
PublishNeverWeakens ==
    [][\A pr \in Principals, db \in Databases, T \in SUBSET Tables, C \in SUBSET Columns :
          LET new == Loaded'[Len(policies')]
              before == Inline(pr, db, T, C)
              after == Inline(pr, db, T, C)' IN
          /\ (new.effect = "deny" /\ after.allowed) => before.allowed
          /\ (before.allowed /\ after.allowed)
                 => /\ before.masked \subseteq after.masked
                    /\ \A s \in before.row :
                          \/ s \in after.row
                          \/ \E r \in after.row : r[1] = s[1] /\ r \in new.row_scope
      ]_policies

(* The columns shown mirror the query path while every document that       *)
(* grants the principal something names the same table: a column of it is  *)
(* visible exactly when a query of the table may reference it.  With       *)
(* grants of two tables the views differ, because effective_access forms   *)
(* one whitelist over all of them.                                         *)
ColumnsMirroredAlone ==
    \A pr \in Principals, db \in Databases, t \in Tables, c \in Columns :
        LET I == {i \in DOMAIN policies : MatchesSubject(Loaded[i], pr, db)} IN
        (/\ EffectsKnown
         /\ Evaluate(pr, db, {t}, {}).allowed
         /\ TablesOf(Loaded, TablePolicies(Loaded, I)) = {t}) =>
            (ColumnAccessible(EffectiveAccess(pr, db), t, c)
                 <=> Evaluate(pr, db, {t}, {c}).allowed)

(* policy_engine.py, effective_access: the schema a principal is shown     *)
(* mirrors what evaluate would allow, for tables and, where one whitelist  *)
(* can be exact, for columns.                                              *)
SchemaMirrorsQueries == TablesMirrored /\ ColumnsMirroredAlone
=============================================================================
