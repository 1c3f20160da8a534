------------------------ MODULE RequestChecksProofs -------------------------
(***************************************************************************)
(* Proofs about the two checks that decide whether a request is let in:    *)
(* PolicyEngine, for every set of policy documents, however many are in    *)
(* force, and for all principals, databases, tables and columns; and       *)
(* RateLimiter, for every window length, every setting of the limits and   *)
(* any number of callers.                                                  *)
(***************************************************************************)
EXTENDS PolicyEngine, RateLimiter, FiniteSetTheorems, WellFoundedInduction, TLAPS

Typed == policies \in Seq(Documents)

(* A reading of the documents in force, and where its entries come from. *)
LEMMA Readings ==
    ASSUME Typed, NEW i \in DOMAIN policies
    PROVE  /\ policies[i] \in Documents /\ i \in Nat
           /\ Loaded[i] = FromDict(policies[i])
           /\ Served[i].effect = policies[i].effect
           /\ Served[i].table = policies[i].table
           /\ Served[i].columns = Listed(policies[i].columns)
           /\ Served[i].masked_columns = Listed(policies[i].masked_columns)
           /\ Served[i].row_scope = Listed(policies[i].row_scope)
<1>1. policies[i] \in Documents /\ i \in Nat
  BY DEF Typed
<1>2. Loaded[i] = FromDict(policies[i])
  BY DEF Loaded
<1> QED BY <1>1, <1>2 DEF Served

(* The fields Policy.from_dict fills in. *)
LEMMA FromDictFields ==
    ASSUME NEW d
    PROVE  /\ FromDict(d).effect = IF d.effect = Absent THEN "allow" ELSE Lower(d.effect)
           /\ FromDict(d).org = Or(d.org_id, d.organisation_id)
           /\ FromDict(d).user = Or(d.principal_id, d.user_id)
           /\ FromDict(d).roles = LowerAll(Listed(d.roles))
           /\ FromDict(d).database = IF d.database_id = Null THEN Absent ELSE d.database_id
           /\ FromDict(d).table = IF d.table \in Falsy THEN Absent ELSE Lower(d.table)
           /\ FromDict(d).columns = LowerAll(Listed(d.columns))
           /\ FromDict(d).masked_columns = Listed(d.masked_columns)
           /\ FromDict(d).row_scope = Listed(d.row_scope)
           /\ FromDict(d).action = IF Or(d.action, d.actions) \in Falsy THEN "select"
                                   ELSE Lower(Or(d.action, d.actions))
BY DEF FromDict

(* A loaded table is None or a name. *)
LEMMA LoadedTable ==
    ASSUME Typed, NEW i \in DOMAIN policies
    PROVE  Loaded[i].table # Null
<1>1. policies[i] \in Documents /\ Loaded[i] = FromDict(policies[i])
  BY Readings
<1>2. FromDict(policies[i]).table
        = IF policies[i].table \in Falsy THEN Absent ELSE Lower(policies[i].table)
  BY FromDictFields
<1>3. policies[i].table \notin Falsy => Lower(policies[i].table) \notin Falsy
  BY <1>1, PolicyAssumption
<1>4. Null \in Falsy /\ Absent # Null
  BY PolicyAssumption DEF Falsy
<1> QED BY <1>1, <1>2, <1>3, <1>4

(* The documents in force stay well formed: Publish appends one of them.   *)
LEMMA TypedAlways == Spec => []Typed
<1>1. Init => Typed
  BY DEF Init, Typed
<1>2. Typed /\ [Next]_policies => Typed'
  BY DEF Next, Publish, Typed
<1> QED BY <1>1, <1>2, PTL DEF Spec

(* A set of positions has a last one. *)
LEMMA LastPosition ==
    ASSUME NEW n \in Nat, NEW S \in SUBSET (1..n), S # {}
    PROVE  \E i \in S : \A j \in S : ~(j > i)
<1> DEFINE T == {n - i : i \in S}
           R == {ss \in Nat \X Nat : ss[1] < ss[2]}
<1>1. T \subseteq Nat /\ T # {}
  <2>1. \A i \in S : n - i \in Nat
    OBVIOUS
  <2> QED BY <2>1
<1>2. IsWellFoundedOn(R, Nat)
  <2>1. OpToRel(<, Nat) = R
    BY Zenon DEF OpToRel
  <2> QED BY <2>1, NatLessThanWellFounded, Zenon
<1> HIDE DEF T
<1>3. PICK x \in T : \A y \in T : <<y, x>> \notin R
  <2> HIDE DEF R
  <2> QED BY <1>1, <1>2, WFMin
<1>4. \A y \in T : ~(y < x)
  BY <1>1, <1>3
<1>5. PICK i \in S : x = n - i
  BY DEF T
<1>6. \A j \in S : n - j \in T
  BY DEF T
<1> QED BY <1>4, <1>5, <1>6
-----------------------------------------------------------------------------
(* What a decision of OPA that lets a statement run implies. *)
LEMMA OpaAllows ==
    ASSUME Typed, NEW answer \in OpaAnswers, NEW pr, NEW db, NEW T, NEW C,
           Opa(answer, pr, db, T, C).allowed
    PROVE  /\ T # {}
           /\ Denies(Served, RegoApplicable(pr, db, T)) = {}
           /\ T \subseteq TablesOf(Served, TablePolicies(Served, RegoApplicable(pr, db, T)))
           /\ AttributesPresent(Opa(answer, pr, db, T, C).row, pr)
<1> DEFINE d == OpaEvaluate(answer, pr, db, T, C)
<1>1. ~Denied.allowed
  BY DEF Denied
<1>2. d.allowed /\ AttributesPresent(d.row, pr) /\ Opa(answer, pr, db, T, C) = d
  BY <1>1 DEF Opa, Enforced
<1>3. T # {} /\ d = RegoEvaluate(pr, db, T, C)
  BY <1>1, <1>2 DEF OpaEvaluate
<1> DEFINE I == RegoApplicable(pr, db, T)
           A == TablePolicies(Served, I)
<1>4. Denies(Served, I) = {} /\ T \subseteq TablesOf(Served, A)
  <2> HIDE DEF I, A, d
  <2>1. RegoEvaluate(pr, db, T, C) =
          IF /\ Denies(Served, I) = {}
             /\ A # {}
             /\ T \subseteq TablesOf(Served, A)
             /\ ColumnsAllowed(Served, A, C)
             /\ ~Conflict(RowScopes(Served, A))
          THEN [allowed |-> TRUE, row |-> RowScopes(Served, A), masked |-> MaskedOf(Served, A)]
          ELSE Denied
    BY DEF RegoEvaluate, I, A
  <2> QED BY <1>1, <1>2, <1>3, <2>1
<1> QED BY <1>2, <1>3, <1>4

(* opa_policy_engine.py, evaluate: whatever OPA answers, a statement runs  *)
(* only with a grant for each of its tables, no deny that applies, and a   *)
(* value for every row predicate.                                          *)
THEOREM FailsClosed == Spec => []RunsOnlyIfGranted
<1>1. Typed => RunsOnlyIfGranted
  <2> SUFFICES ASSUME Typed, NEW answer \in OpaAnswers, NEW pr \in Principals,
                      NEW db \in Databases, NEW T \in SUBSET Tables,
                      NEW C \in SUBSET Columns, Opa(answer, pr, db, T, C).allowed
               PROVE  /\ T # {}
                      /\ \A t \in T :
                          /\ \E i \in DOMAIN policies :
                                /\ policies[i].effect = "allow" /\ policies[i].table = t
                                /\ RegoMatchesSubject(policies[i], pr, db)
                          /\ \A i \in DOMAIN policies :
                                (policies[i].effect = "deny" /\ policies[i].table \in {t, Absent})
                                    => ~RegoMatchesSubject(policies[i], pr, db)
                      /\ \A s \in Opa(answer, pr, db, T, C).row : s[2] \in pr.attributes
    BY DEF RunsOnlyIfGranted
  <2>1. /\ T # {}
        /\ Denies(Served, RegoApplicable(pr, db, T)) = {}
        /\ T \subseteq TablesOf(Served, TablePolicies(Served, RegoApplicable(pr, db, T)))
        /\ AttributesPresent(Opa(answer, pr, db, T, C).row, pr)
    BY OpaAllows
  <2>2. ASSUME NEW t \in T
        PROVE  \E i \in DOMAIN policies :
                  /\ policies[i].effect = "allow" /\ policies[i].table = t
                  /\ RegoMatchesSubject(policies[i], pr, db)
    BY <2>1, Readings DEF TablesOf, TablePolicies, RegoApplicable
  <2>3. ASSUME NEW t \in T, NEW i \in DOMAIN policies, policies[i].effect = "deny",
               policies[i].table \in {t, Absent}
        PROVE  ~RegoMatchesSubject(policies[i], pr, db)
    <3>1. i \in RegoApplicable(pr, db, T) => i \in Denies(Served, RegoApplicable(pr, db, T))
      BY <2>3, Readings DEF Denies
    <3>2. t # Null
      BY PolicyAssumption DEF Falsy
    <3> QED BY <2>1, <2>3, <3>1, <3>2 DEF RegoApplicable
  <2> QED BY <2>1, <2>2, <2>3 DEF AttributesPresent
<1> QED BY <1>1, TypedAlways, PTL
-----------------------------------------------------------------------------
(* Without a conflict, the last document that scopes a column says what    *)
(* all of them say: overwriting and collecting give the same restrictions. *)
LEMMA OverwritingIsCollecting ==
    ASSUME Typed, NEW ps, NEW I \in SUBSET DOMAIN policies, ~Conflict(RowScopes(ps, I))
    PROVE  RowRestrictions(ps, I) = RowScopes(ps, I)
<1>1. RowRestrictions(ps, I) \subseteq RowScopes(ps, I)
  BY DEF RowRestrictions
<1>2. ASSUME NEW s \in RowScopes(ps, I)
      PROVE  s \in RowRestrictions(ps, I)
  <2> DEFINE S == {i \in I : \E r \in ps[i].row_scope : r[1] = s[1]}
  <2>1. PICK n \in Nat : DOMAIN policies = 1..n
    BY DEF Typed
  <2>2. S # {} /\ S \in SUBSET (1..n)
    BY <2>1 DEF RowScopes
  <2>3. PICK i \in S : \A j \in S : ~(j > i)
    <3> HIDE DEF S
    <3> QED BY <2>2, LastPosition
  <2>4. PICK r \in ps[i].row_scope : r[1] = s[1]
    OBVIOUS
  <2>5. i \in I /\ r \in RowScopes(ps, I)
    BY DEF RowScopes
  <2>6. r = s
    BY <2>4, <2>5 DEF Conflict
  <2>7. \A j \in I : j > i => \A q \in ps[j].row_scope : q[1] # s[1]
    BY <2>3
  <2> QED BY <2>4, <2>5, <2>6, <2>7 DEF RowRestrictions
<1> QED BY <1>1, <1>2

(* A portable document matches the same principals in both languages, and  *)
(* both take the same from it.                                             *)
LEMMA PortableReadsAlike ==
    ASSUME NEW d \in Documents, Portable(d), NEW pr \in Principals,
           ExpandedRoles(pr.roles) = pr.roles, NEW db
    PROVE  /\ RegoMatchesSubject(d, pr, db) <=> MatchesSubject(FromDict(d), pr, db)
           /\ FromDict(d).effect = d.effect
           /\ FromDict(d).table = d.table
           /\ FromDict(d).columns = Listed(d.columns)
<1>1. FieldMatches(d.org_id, pr.org) <=> FromDict(d).org \in {Absent, pr.org}
  BY FromDictFields, PolicyAssumption DEF Portable, FieldMatches, Or, Falsy
<1>2. FieldMatches(d.principal_id, pr.user) <=> FromDict(d).user \in {Absent, pr.user}
  BY FromDictFields, PolicyAssumption DEF Portable, FieldMatches, Or, Falsy
<1>3. RolesMatch(d.roles, pr)
        <=> (FromDict(d).roles = {} \/ FromDict(d).roles \cap pr.roles # {})
  <2>1. LowerAll(ExpandedRoles(pr.roles)) = pr.roles
    BY PolicyAssumption
  <2>2. CASE d.roles = Absent
    <3>1. LowerAll(Listed(d.roles)) = {}
      BY <2>2 DEF LowerAll, Listed
    <3> QED BY <2>2, <3>1, FromDictFields DEF RolesMatch
  <2>3. CASE d.roles # Absent
    <3>1. d.roles # Null /\ d.roles # {}
      BY DEF Portable
    <3>2. Listed(d.roles) = d.roles
      BY <2>3, <3>1 DEF Listed
    <3>3. LowerAll(d.roles) # {}
      BY <3>1 DEF LowerAll
    <3> QED BY <2>1, <2>3, <3>1, <3>2, <3>3, FromDictFields DEF RolesMatch
  <2> QED BY <2>2, <2>3
<1>4. FieldMatches(d.database_id, db) <=> FromDict(d).database \in {Absent, db}
  BY FromDictFields DEF Portable, FieldMatches
<1>5. ActionMatches(d.action) <=> FromDict(d).action \in {"select", "*"}
  <2>1. CASE d.action \in {Absent, Null}
    <3>1. Or(d.action, d.actions) \in Falsy
      BY <2>1 DEF Portable, Or, Falsy
    <3> QED BY <2>1, <3>1, FromDictFields DEF ActionMatches
  <2>2. CASE d.action \notin {Absent, Null}
    <3>1. d.action \notin Falsy
      BY <2>2 DEF Portable, Falsy
    <3>2. FromDict(d).action = Lower(d.action)
      BY <3>1, FromDictFields DEF Or
    <3>3. Lower(d.action) = "*" <=> d.action = "*"
      BY PolicyAssumption
    <3> QED BY <2>2, <3>2, <3>3 DEF ActionMatches
  <2> QED BY <2>1, <2>2
<1>6. FromDict(d).effect = d.effect
  BY FromDictFields, PolicyAssumption DEF Portable
<1>7. FromDict(d).table = d.table
  BY FromDictFields DEF Portable, Falsy
<1>8. FromDict(d).columns = Listed(d.columns)
  BY FromDictFields DEF Portable
<1> QED BY <1>1, <1>2, <1>3, <1>4, <1>5, <1>6, <1>7, <1>8 DEF RegoMatchesSubject, MatchesSubject

(* A bare grant that matches in Rego matches in Python, and both take the  *)
(* table and nothing else from it.                                         *)
LEMMA BareGrantOnlyLoses ==
    ASSUME NEW d \in Documents, BareGrant(d), NEW pr \in Principals,
           ExpandedRoles(pr.roles) = pr.roles, NEW db
    PROVE  /\ RegoMatchesSubject(d, pr, db) => MatchesSubject(FromDict(d), pr, db)
           /\ FromDict(d).effect = "allow" /\ d.effect # "deny"
           /\ d.table \in Tables => FromDict(d).table = d.table
           /\ FromDict(d).columns = {} /\ Listed(d.columns) = {}
           /\ FromDict(d).masked_columns = {} /\ FromDict(d).row_scope = {}
<1>1. FieldMatches(d.org_id, pr.org) => FromDict(d).org \in {Absent, pr.org}
  BY FromDictFields, PolicyAssumption DEF BareGrant, FieldMatches, Or, Falsy
<1>2. FieldMatches(d.principal_id, pr.user) => FromDict(d).user \in {Absent, pr.user}
  BY FromDictFields, PolicyAssumption DEF BareGrant, FieldMatches, Or, Falsy
<1>3. ASSUME RolesMatch(d.roles, pr)
      PROVE  FromDict(d).roles = {} \/ FromDict(d).roles \cap pr.roles # {}
  <2>1. LowerAll(ExpandedRoles(pr.roles)) = pr.roles
    BY PolicyAssumption
  <2>2. CASE d.roles \in {Absent, Null}
    <3>1. LowerAll(Listed(d.roles)) = {}
      BY <2>2 DEF LowerAll, Listed
    <3> QED BY <3>1, FromDictFields
  <2>3. CASE d.roles \notin {Absent, Null}
    <3>1. Listed(d.roles) = d.roles
      BY <2>3 DEF Listed
    <3> QED BY <1>3, <2>1, <2>3, <3>1, FromDictFields DEF RolesMatch
  <2> QED BY <2>2, <2>3
<1>4. FieldMatches(d.database_id, db) => FromDict(d).database \in {Absent, db}
  BY FromDictFields DEF FieldMatches
<1>5. ASSUME ActionMatches(d.action)
      PROVE  FromDict(d).action \in {"select", "*"}
  <2>1. CASE Or(d.action, d.actions) \in Falsy
    BY <2>1, FromDictFields
  <2>2. CASE Or(d.action, d.actions) \notin Falsy
    <3>1. d.action \notin {Absent, Null}
      BY <2>2 DEF BareGrant, Or, Falsy
    <3>2. d.action = "*" \/ Lower(d.action) = "select"
      BY <1>5, <3>1 DEF ActionMatches
    <3>3. CASE d.action \notin Falsy
      <4>1. FromDict(d).action = Lower(d.action)
        BY <3>3, FromDictFields DEF Or
      <4> QED BY <3>2, <4>1, PolicyAssumption
    <3>4. CASE d.action \in Falsy
      <4>1. d.action = ""
        BY <3>1, <3>4 DEF Falsy
      <4>2. Lower("") = ""
        BY PolicyAssumption
      <4> QED BY <3>2, <4>1, <4>2
    <3> QED BY <3>3, <3>4
  <2> QED BY <2>1, <2>2
<1>6. FromDict(d).effect = "allow" /\ d.effect # "deny"
  <2>1. d.effect = "deny" => FromDict(d).effect = "deny"
    BY FromDictFields, PolicyAssumption
  <2> QED BY <2>1 DEF BareGrant
<1>7. d.table \in Tables => FromDict(d).table = d.table
  <2>1. d.table \in Tables => d.table \notin Falsy /\ Lower(d.table) = d.table
    BY PolicyAssumption
  <2> QED BY <2>1, FromDictFields
<1>8. /\ FromDict(d).columns = {} /\ Listed(d.columns) = {}
      /\ FromDict(d).masked_columns = {} /\ FromDict(d).row_scope = {}
  <2>1. LowerAll({}) = {}
    BY DEF LowerAll
  <2> QED BY <2>1, FromDictFields DEF BareGrant
<1> QED BY <1>1, <1>2, <1>3, <1>4, <1>5, <1>6, <1>7, <1>8 DEF RegoMatchesSubject, MatchesSubject

(* evaluate, with its local definitions as parameters. *)
LEMMA EvaluateUnfolds ==
    ASSUME NEW pr, NEW db, NEW T, NEW C, NEW ps, ps = Loaded,
           NEW I, I = Applicable(pr, db, T), NEW A, A = TablePolicies(ps, I)
    PROVE  Evaluate(pr, db, T, C) =
             IF /\ T # {} /\ Denies(ps, I) = {} /\ A # {} /\ T \subseteq TablesOf(ps, A)
                /\ ColumnsAllowed(ps, A, C) /\ AttributesPresent(RowRestrictions(ps, A), pr)
             THEN [allowed |-> TRUE, row |-> RowRestrictions(ps, A), masked |-> MaskedOf(ps, A)]
             ELSE Denied
BY DEF Evaluate

(* RegoEvaluate with its local definitions named.                          *)
LEMMA RegoUnfolds ==
    ASSUME NEW pr, NEW db, NEW T, NEW C, NEW ps, ps = Served,
           NEW I, I = RegoApplicable(pr, db, T), NEW A, A = TablePolicies(ps, I)
    PROVE  RegoEvaluate(pr, db, T, C) =
             IF /\ Denies(ps, I) = {} /\ A # {} /\ T \subseteq TablesOf(ps, A)
                /\ ColumnsAllowed(ps, A, C) /\ ~Conflict(RowScopes(ps, A))
             THEN [allowed |-> TRUE, row |-> RowScopes(ps, A), masked |-> MaskedOf(ps, A)]
             ELSE Denied
BY DEF RegoEvaluate

(* What the two evaluators collect, when every document is portable or a   *)
(* bare grant: Rego's grants are among Python's, the missing ones restrict *)
(* nothing, and Python denies nothing that Rego does not.                  *)
LEMMA GrantsCompared ==
    ASSUME Typed, NEW pr \in Principals, ExpandedRoles(pr.roles) = pr.roles, NEW db,
           NEW T \in SUBSET Tables, T # {},
           NEW ps, ps = Loaded, NEW qs, qs = Served,
           NEW I, I = Applicable(pr, db, T), NEW J, J = RegoApplicable(pr, db, T),
           NEW A, A = TablePolicies(ps, I), NEW B, B = TablePolicies(qs, J),
           \A i \in DOMAIN policies : Portable(policies[i]) \/ BareGrant(policies[i])
    PROVE  /\ I \subseteq DOMAIN policies /\ J \subseteq DOMAIN policies
           /\ A \subseteq I /\ B \subseteq J /\ B \subseteq A
           /\ \A i \in B : /\ ps[i].table = qs[i].table /\ ps[i].columns = qs[i].columns
                           /\ ps[i].masked_columns = qs[i].masked_columns
                           /\ ps[i].row_scope = qs[i].row_scope
           /\ \A i \in A \ B : /\ ps[i].columns = {} /\ ps[i].masked_columns = {}
                               /\ ps[i].row_scope = {}
           /\ Denies(ps, I) = Denies(qs, J)
           /\ (\A i \in DOMAIN policies : Portable(policies[i])) => A = B
<1>1. /\ I \subseteq DOMAIN policies /\ J \subseteq DOMAIN policies
      /\ A \subseteq I /\ B \subseteq J
  BY DEF Applicable, RegoApplicable, TablePolicies
<1>2. ASSUME NEW i \in DOMAIN policies
      PROVE  i \in I <=> /\ MatchesSubject(FromDict(policies[i]), pr, db)
                         /\ FromDict(policies[i]).table = Absent \/ FromDict(policies[i]).table \in T
  <2>1. Loaded[i] = FromDict(policies[i])
    BY Readings
  <2> QED BY <2>1 DEF Applicable, Matches
<1>3. ASSUME NEW i \in DOMAIN policies
      PROVE  i \in J <=> /\ RegoMatchesSubject(policies[i], pr, db)
                         /\ policies[i].table = Absent \/ policies[i].table \in T
  <2>1. Null \notin T
    BY PolicyAssumption DEF Falsy
  <2> QED BY <2>1 DEF RegoApplicable
<1>4. ASSUME NEW i \in DOMAIN policies, Portable(policies[i])
      PROVE  /\ i \in I <=> i \in J
             /\ ps[i].effect = qs[i].effect /\ ps[i].table = qs[i].table
             /\ ps[i].columns = qs[i].columns
             /\ ps[i].masked_columns = qs[i].masked_columns
             /\ ps[i].row_scope = qs[i].row_scope
  <2>1. /\ policies[i] \in Documents /\ ps[i] = FromDict(policies[i])
        /\ qs[i].effect = policies[i].effect /\ qs[i].table = policies[i].table
        /\ qs[i].columns = Listed(policies[i].columns)
        /\ qs[i].masked_columns = Listed(policies[i].masked_columns)
        /\ qs[i].row_scope = Listed(policies[i].row_scope)
    BY Readings
  <2>2. /\ RegoMatchesSubject(policies[i], pr, db)
             <=> MatchesSubject(FromDict(policies[i]), pr, db)
        /\ FromDict(policies[i]).effect = policies[i].effect
        /\ FromDict(policies[i]).table = policies[i].table
        /\ FromDict(policies[i]).columns = Listed(policies[i].columns)
    BY <1>4, <2>1, PortableReadsAlike
  <2>3. /\ FromDict(policies[i]).masked_columns = Listed(policies[i].masked_columns)
        /\ FromDict(policies[i]).row_scope = Listed(policies[i].row_scope)
    BY FromDictFields
  <2> QED BY <1>2, <1>3, <2>1, <2>2, <2>3
<1>5. ASSUME NEW i \in DOMAIN policies, BareGrant(policies[i])
      PROVE  /\ i \in B => i \in A /\ ps[i].table = qs[i].table
             /\ ps[i].columns = {} /\ qs[i].columns = {}
             /\ ps[i].masked_columns = {} /\ qs[i].masked_columns = {}
             /\ ps[i].row_scope = {} /\ qs[i].row_scope = {}
             /\ i \notin Denies(ps, I) /\ i \notin Denies(qs, J)
  <2>1. /\ policies[i] \in Documents /\ ps[i] = FromDict(policies[i])
        /\ qs[i].effect = policies[i].effect /\ qs[i].table = policies[i].table
        /\ qs[i].columns = Listed(policies[i].columns)
        /\ qs[i].masked_columns = Listed(policies[i].masked_columns)
        /\ qs[i].row_scope = Listed(policies[i].row_scope)
    BY Readings
  <2>2. /\ RegoMatchesSubject(policies[i], pr, db)
             => MatchesSubject(FromDict(policies[i]), pr, db)
        /\ FromDict(policies[i]).effect = "allow" /\ policies[i].effect # "deny"
        /\ policies[i].table \in Tables => FromDict(policies[i]).table = policies[i].table
        /\ FromDict(policies[i]).columns = {} /\ Listed(policies[i].columns) = {}
        /\ FromDict(policies[i]).masked_columns = {} /\ FromDict(policies[i]).row_scope = {}
    BY <1>5, <2>1, BareGrantOnlyLoses
  <2>3. Listed(policies[i].masked_columns) = {} /\ Listed(policies[i].row_scope) = {}
    BY <1>5 DEF BareGrant
  <2>4. ASSUME i \in B
        PROVE  i \in A /\ ps[i].table = qs[i].table
    <3>1. i \in J /\ policies[i].table \notin {Absent, Null}
      BY <2>1, <2>4 DEF TablePolicies
    <3>2. policies[i].table \in T /\ RegoMatchesSubject(policies[i], pr, db)
      BY <1>3, <3>1
    <3>3. i \in I /\ ps[i].table = policies[i].table
      BY <1>2, <2>1, <2>2, <3>2
    <3> QED BY <2>1, <2>2, <3>1, <3>3 DEF TablePolicies
  <2> QED BY <2>1, <2>2, <2>3, <2>4 DEF Denies
<1>6. ASSUME NEW i \in DOMAIN policies, Portable(policies[i])
      PROVE  (i \in A <=> i \in B) /\ (i \in Denies(ps, I) <=> i \in Denies(qs, J))
  BY <1>4, <1>6 DEF TablePolicies, Denies
<1>7. B \subseteq A
  BY <1>1, <1>5, <1>6
<1>8. Denies(ps, I) = Denies(qs, J)
  <2>1. Denies(ps, I) \subseteq DOMAIN policies /\ Denies(qs, J) \subseteq DOMAIN policies
    BY <1>1 DEF Denies
  <2> QED BY <1>5, <1>6, <2>1
<1>9. (\A i \in DOMAIN policies : Portable(policies[i])) => A = B
  BY <1>1, <1>6
<1>10. ASSUME NEW i \in B
       PROVE  /\ ps[i].table = qs[i].table /\ ps[i].columns = qs[i].columns
              /\ ps[i].masked_columns = qs[i].masked_columns
              /\ ps[i].row_scope = qs[i].row_scope
  <2>1. i \in DOMAIN policies
    BY <1>1
  <2>2. CASE Portable(policies[i])
    BY <1>4, <2>1, <2>2
  <2>3. CASE BareGrant(policies[i])
    BY <1>5, <2>1, <2>3
  <2> QED BY <2>1, <2>2, <2>3
<1>11. ASSUME NEW i \in A \ B
       PROVE  ps[i].columns = {} /\ ps[i].masked_columns = {} /\ ps[i].row_scope = {}
  BY <1>1, <1>5, <1>6
<1> QED BY <1>1, <1>7, <1>8, <1>9, <1>10, <1>11

(* policy_engine.py and opa/policies/gateway.rego decide alike on portable *)
(* documents, and on bare grants OPA only refuses more, for every policy   *)
(* set: when no role is inherited and no column is scoped twice.           *)
THEOREM MigrationIsFaithful == Spec => []EvaluatorsAgree
<1>1. Typed => EvaluatorsAgree
  <2> SUFFICES ASSUME Typed, NEW pr \in Principals, NEW db \in Databases,
                      NEW T \in SUBSET Tables, NEW C \in SUBSET Columns,
                      ExpandedRoles(pr.roles) = pr.roles,
                      ~Conflict(RowScopes(Loaded, TablePolicies(Loaded, Applicable(pr, db, T)))),
                      \A i \in DOMAIN policies : Portable(policies[i]) \/ BareGrant(policies[i]),
                      \/ \A i \in DOMAIN policies : Portable(policies[i])
                      \/ Opa("decision", pr, db, T, C).allowed
               PROVE  Opa("decision", pr, db, T, C) = Inline(pr, db, T, C)
    BY DEF EvaluatorsAgree
  <2>1. PICK ps, qs : ps = Loaded /\ qs = Served
    OBVIOUS
  <2>2. PICK I, J : I = Applicable(pr, db, T) /\ J = RegoApplicable(pr, db, T)
    OBVIOUS
  <2>3. PICK A, B : A = TablePolicies(ps, I) /\ B = TablePolicies(qs, J)
    OBVIOUS
  <2>4. ~Denied.allowed
    BY DEF Denied
  <2>5. CASE T = {}
    <3>1. OpaEvaluate("decision", pr, db, T, C) = Denied
      BY <2>5 DEF OpaEvaluate
    <3>2. Evaluate(pr, db, T, C) = Denied
      BY <2>1, <2>2, <2>3, <2>5, EvaluateUnfolds
    <3> QED BY <3>1, <3>2 DEF Opa, Inline
  <2>6. CASE T # {}
    <3>1. /\ I \subseteq DOMAIN policies /\ J \subseteq DOMAIN policies
          /\ A \subseteq I /\ B \subseteq J /\ B \subseteq A
          /\ \A i \in B : /\ ps[i].table = qs[i].table /\ ps[i].columns = qs[i].columns
                          /\ ps[i].masked_columns = qs[i].masked_columns
                          /\ ps[i].row_scope = qs[i].row_scope
          /\ \A i \in A \ B : /\ ps[i].columns = {} /\ ps[i].masked_columns = {}
                              /\ ps[i].row_scope = {}
          /\ Denies(ps, I) = Denies(qs, J)
          /\ (\A i \in DOMAIN policies : Portable(policies[i])) => A = B
      BY <2>1, <2>2, <2>3, <2>6, GrantsCompared
    <3>2. RowScopes(ps, A) = RowScopes(qs, B)
      BY <3>1 DEF RowScopes
    <3>3. MaskedOf(ps, A) = MaskedOf(qs, B)
      BY <3>1 DEF MaskedOf
    <3>4. ColumnsAllowed(ps, A, C) <=> ColumnsAllowed(qs, B, C)
      <4>1. PICK L : L = {i \in A : ps[i].columns # {}}
        OBVIOUS
      <4>2. L = {i \in B : qs[i].columns # {}} /\ \A i \in L : ps[i].columns = qs[i].columns
        BY <3>1, <4>1
      <4>3. ColumnsOf(ps, L) = ColumnsOf(qs, L)
        BY <4>2 DEF ColumnsOf
      <4> QED BY <4>1, <4>2, <4>3 DEF ColumnsAllowed
    <3>5. TablesOf(qs, B) \subseteq TablesOf(ps, A)
      BY <3>1 DEF TablesOf
    <3>6. A = B => TablesOf(qs, B) = TablesOf(ps, A)
      BY <3>1 DEF TablesOf
    <3>7. ~Conflict(RowScopes(ps, A)) /\ RowRestrictions(ps, A) = RowScopes(ps, A)
      <4>1. ~Conflict(RowScopes(ps, A)) /\ A \in SUBSET DOMAIN policies
        BY <2>1, <2>2, <2>3, <3>1
      <4> QED BY <4>1, OverwritingIsCollecting
    <3>8. PICK d : d = [allowed |-> TRUE, row |-> RowScopes(ps, A), masked |-> MaskedOf(ps, A)]
      OBVIOUS
    <3>9. d.allowed /\ d.row = RowScopes(ps, A)
      BY <3>8
    <3>10. OpaEvaluate("decision", pr, db, T, C) =
             IF /\ Denies(ps, I) = {} /\ B # {} /\ T \subseteq TablesOf(qs, B)
                /\ ColumnsAllowed(ps, A, C)
             THEN d ELSE Denied
      <4>1. OpaEvaluate("decision", pr, db, T, C) = RegoEvaluate(pr, db, T, C)
        BY <2>6 DEF OpaEvaluate
      <4>2. RegoEvaluate(pr, db, T, C) =
              IF /\ Denies(qs, J) = {} /\ B # {} /\ T \subseteq TablesOf(qs, B)
                 /\ ColumnsAllowed(qs, B, C) /\ ~Conflict(RowScopes(qs, B))
              THEN [allowed |-> TRUE, row |-> RowScopes(qs, B), masked |-> MaskedOf(qs, B)]
              ELSE Denied
        BY <2>1, <2>2, <2>3, RegoUnfolds
      <4> QED BY <3>1, <3>2, <3>3, <3>4, <3>7, <3>8, <4>1, <4>2
    <3>11. Evaluate(pr, db, T, C) =
             IF /\ Denies(ps, I) = {} /\ A # {} /\ T \subseteq TablesOf(ps, A)
                /\ ColumnsAllowed(ps, A, C) /\ AttributesPresent(RowScopes(ps, A), pr)
             THEN d ELSE Denied
      BY <2>1, <2>2, <2>3, <2>6, <3>7, <3>8, EvaluateUnfolds
    <3>12. CASE \A i \in DOMAIN policies : Portable(policies[i])
      BY <2>4, <3>1, <3>6, <3>9, <3>10, <3>11, <3>12 DEF Opa, Inline, Enforced
    <3>13. CASE Opa("decision", pr, db, T, C).allowed
      <4>1. /\ Opa("decision", pr, db, T, C) = OpaEvaluate("decision", pr, db, T, C)
            /\ OpaEvaluate("decision", pr, db, T, C) = d
            /\ AttributesPresent(RowScopes(ps, A), pr)
        BY <2>4, <3>9, <3>10, <3>13 DEF Opa, Enforced
      <4>2. /\ Denies(ps, I) = {} /\ B # {} /\ T \subseteq TablesOf(qs, B)
            /\ ColumnsAllowed(ps, A, C)
        BY <2>4, <3>9, <3>10, <4>1
      <4>3. A # {} /\ T \subseteq TablesOf(ps, A)
        BY <3>1, <3>5, <4>2
      <4>4. Evaluate(pr, db, T, C) = d
        BY <3>11, <4>1, <4>2, <4>3
      <4> QED BY <3>9, <4>1, <4>4 DEF Inline, Enforced
    <3> QED BY <3>12, <3>13
  <2> QED BY <2>5, <2>6
<1> QED BY <1>1, TypedAlways, PTL
-----------------------------------------------------------------------------
(* A principal with every attribute the documents scope by. *)
Whole(pr) ==
    [pr EXCEPT !.attributes = @ \cup {s[2] : s \in RowScopes(Served, DOMAIN policies)}]

(* It never fails a row predicate. *)
LEMMA WholeHasAll ==
    ASSUME Typed, NEW pr \in Principals, NEW A \in SUBSET DOMAIN policies
    PROVE  AttributesPresent(RowRestrictions(Loaded, A), Whole(pr))
<1>1. pr = [org |-> pr.org, user |-> pr.user, roles |-> pr.roles, attributes |-> pr.attributes]
  BY PolicyAssumption
<1>2. Whole(pr).attributes
        = pr.attributes \cup {s[2] : s \in RowScopes(Served, DOMAIN policies)}
  BY <1>1 DEF Whole
<1>3. \A i \in DOMAIN policies : Loaded[i].row_scope = Served[i].row_scope
  BY Readings, FromDictFields
<1>4. RowScopes(Loaded, A) \subseteq RowScopes(Served, DOMAIN policies)
  BY <1>3 DEF RowScopes
<1>5. RowRestrictions(Loaded, A) \subseteq RowScopes(Served, DOMAIN policies)
  BY <1>4 DEF RowRestrictions
<1> QED BY <1>2, <1>5 DEF AttributesPresent

(* Granted, not denied, no general deny: the same in the schema and in a   *)
(* query of one table.  M are the documents that match the principal.      *)
LEMMA OneTable ==
    ASSUME NEW ps, NEW M, NEW t \in Tables, NEW I \in SUBSET M,
           \A i \in M : i \in I <=> ps[i].table \in {Absent, t}
    PROVE  t \in Accessible(ps, TablePolicies(ps, M), Denies(ps, M)) <=>
             /\ Denies(ps, I) = {} /\ TablePolicies(ps, I) # {}
             /\ {t} \subseteq TablesOf(ps, TablePolicies(ps, I))
<1>1. t # Absent /\ t # Null
  BY PolicyAssumption DEF Falsy
<1>2. t \in TablesOf(ps, TablePolicies(ps, M)) <=> t \in TablesOf(ps, TablePolicies(ps, I))
  BY <1>1 DEF TablesOf, TablePolicies
<1>3. Denies(ps, I) = {}
        <=> (Absent \notin TablesOf(ps, Denies(ps, M)) /\ t \notin TablesOf(ps, Denies(ps, M)))
  BY DEF TablesOf, Denies
<1>4. t \in TablesOf(ps, TablePolicies(ps, I)) => TablePolicies(ps, I) # {}
  BY DEF TablesOf
<1> QED BY <1>2, <1>3, <1>4 DEF Accessible

(* With no third effect, what effective_access takes for grants are the    *)
(* grants of evaluate.                                                     *)
LEMMA ShownGrants ==
    ASSUME Typed, EffectsKnown, NEW M \in SUBSET DOMAIN policies, NEW ps, ps = Loaded
    PROVE  {i \in M : ps[i].effect # "deny" /\ ps[i].table # Absent} = TablePolicies(ps, M)
<1>1. \A i \in M : ps[i].effect \in {"allow", "deny"} /\ ps[i].table # Null
  BY LoadedTable DEF EffectsKnown
<1> QED BY <1>1 DEF TablePolicies

(* effective_access, with its local definitions as parameters. *)
LEMMA EffectiveAccessUnfolds ==
    ASSUME Typed, EffectsKnown, NEW ps, ps = Loaded, NEW pr, NEW db,
           NEW M, M = {i \in DOMAIN policies : MatchesSubject(ps[i], pr, db)}
    PROVE  /\ EffectiveAccess(pr, db).tables
                 = Accessible(ps, TablePolicies(ps, M), Denies(ps, M))
           /\ EffectiveAccess(pr, db).columns = ColumnsOf(ps, TablePolicies(ps, M))
<1>1. PICK A : A = {i \in M : ps[i].effect # "deny" /\ ps[i].table # Absent}
  OBVIOUS
<1>2. A = TablePolicies(ps, M)
  BY <1>1, ShownGrants
<1>3. EffectiveAccess(pr, db) =
        [tables |-> Accessible(ps, A, Denies(ps, M)),
         columns |-> ColumnsOf(ps, A), masked |-> MaskedOf(ps, A)]
  BY <1>1 DEF EffectiveAccess
<1> QED BY <1>2, <1>3

(* The tables shown are the tables that can be queried. *)
LEMMA TablesAreMirrored == Typed => TablesMirrored
<1> SUFFICES ASSUME Typed, NEW pr \in Principals, NEW db \in Databases, NEW t \in Tables
             PROVE  /\ EffectsKnown =>
                          ((t \in EffectiveAccess(Whole(pr), db).tables)
                              <=> Evaluate(Whole(pr), db, {t}, {}).allowed)
                    /\ ~Conflict(RowScopes(Served, DOMAIN policies)) =>
                          ((t \in RegoEffectiveAccess(Whole(pr), db).tables)
                              <=> RegoEvaluate(Whole(pr), db, {t}, {}).allowed)
  BY DEF TablesMirrored, Whole
<1>1. PICK w : w = Whole(pr)
  OBVIOUS
<1>2. ~Denied.allowed
  BY DEF Denied
<1>3. \A ps, A : ColumnsAllowed(ps, A, {})
  BY DEF ColumnsAllowed
<1>4. ASSUME EffectsKnown
      PROVE  (t \in EffectiveAccess(w, db).tables) <=> Evaluate(w, db, {t}, {}).allowed
  <2>0. PICK ps : ps = Loaded
    OBVIOUS
  <2>1. PICK M : M = {i \in DOMAIN policies : MatchesSubject(ps[i], w, db)}
    OBVIOUS
  <2>2. PICK I : I = Applicable(w, db, {t})
    OBVIOUS
  <2>3. PICK A : A = TablePolicies(ps, I)
    OBVIOUS
  <2>4. I \in SUBSET M /\ \A i \in M : i \in I <=> ps[i].table \in {Absent, t}
    BY <2>0, <2>1, <2>2, Zenon DEF Applicable, Matches
  <2>5. EffectiveAccess(w, db).tables = Accessible(ps, TablePolicies(ps, M), Denies(ps, M))
    BY <1>4, <2>0, <2>1, EffectiveAccessUnfolds
  <2>6. A \in SUBSET DOMAIN policies
    BY <2>1, <2>3, <2>4 DEF TablePolicies
  <2>7. AttributesPresent(RowRestrictions(ps, A), w)
    BY <1>1, <2>0, <2>6, WholeHasAll
  <2>8. Evaluate(w, db, {t}, {}).allowed
          <=> (Denies(ps, I) = {} /\ A # {} /\ {t} \subseteq TablesOf(ps, A))
    <3>1. Evaluate(w, db, {t}, {}) =
             IF /\ {t} # {} /\ Denies(ps, I) = {} /\ A # {} /\ {t} \subseteq TablesOf(ps, A)
                /\ ColumnsAllowed(ps, A, {}) /\ AttributesPresent(RowRestrictions(ps, A), w)
             THEN [allowed |-> TRUE, row |-> RowRestrictions(ps, A), masked |-> MaskedOf(ps, A)]
             ELSE Denied
      BY <2>0, <2>2, <2>3, Zenon DEF Evaluate
    <3> QED BY <1>2, <1>3, <2>7, <3>1
  <2>9. t \in Accessible(ps, TablePolicies(ps, M), Denies(ps, M)) <=>
          /\ Denies(ps, I) = {} /\ TablePolicies(ps, I) # {}
          /\ {t} \subseteq TablesOf(ps, TablePolicies(ps, I))
    BY <2>4, OneTable
  <2> QED BY <2>3, <2>5, <2>8, <2>9
<1>5. ASSUME ~Conflict(RowScopes(Served, DOMAIN policies))
      PROVE  (t \in RegoEffectiveAccess(w, db).tables) <=> RegoEvaluate(w, db, {t}, {}).allowed
  <2>0. PICK ps : ps = Served
    OBVIOUS
  <2>1. PICK M : M = {i \in DOMAIN policies : RegoMatchesSubject(policies[i], w, db)}
    OBVIOUS
  <2>2. PICK I : I = RegoApplicable(w, db, {t})
    OBVIOUS
  <2>3. PICK A : A = TablePolicies(ps, I)
    OBVIOUS
  <2>4. I \in SUBSET M /\ \A i \in M : i \in I <=> ps[i].table \in {Absent, t}
    <3>1. \A i \in DOMAIN policies : ps[i].table = policies[i].table
      BY <2>0, Readings
    <3>2. t # Null
      BY PolicyAssumption DEF Falsy
    <3>3. I = {i \in DOMAIN policies :
                 /\ RegoMatchesSubject(policies[i], w, db)
                 /\ \/ policies[i].table = Absent
                    \/ policies[i].table # Null /\ policies[i].table \in {t}}
      BY <2>2 DEF RegoApplicable
    <3> QED BY <2>1, <3>1, <3>2, <3>3
  <2>5. RegoEffectiveAccess(w, db).tables = Accessible(ps, TablePolicies(ps, M), Denies(ps, M))
    <3>1. Absent \in TablesOf(ps, Denies(ps, M))
            => Accessible(ps, TablePolicies(ps, M), Denies(ps, M)) = {}
      BY DEF Accessible
    <3>2. RegoEffectiveAccess(w, db) =
            IF Absent \in TablesOf(ps, Denies(ps, M))
            THEN [tables |-> {}, columns |-> {}, masked |-> {}]
            ELSE [tables |-> Accessible(ps, TablePolicies(ps, M), Denies(ps, M)),
                  columns |-> ColumnsOf(ps, TablePolicies(ps, M)),
                  masked |-> MaskedOf(ps, TablePolicies(ps, M))]
      BY <2>0, <2>1 DEF RegoEffectiveAccess
    <3> QED BY <3>1, <3>2
  <2>6. A \in SUBSET DOMAIN policies
    BY <2>1, <2>3, <2>4 DEF TablePolicies
  <2>7. ~Conflict(RowScopes(ps, A))
    BY <1>5, <2>0, <2>6 DEF Conflict, RowScopes
  <2>8. RegoEvaluate(w, db, {t}, {}).allowed
          <=> (Denies(ps, I) = {} /\ A # {} /\ {t} \subseteq TablesOf(ps, A))
    <3>1. RegoEvaluate(w, db, {t}, {}) =
             IF /\ Denies(ps, I) = {} /\ A # {} /\ {t} \subseteq TablesOf(ps, A)
                /\ ColumnsAllowed(ps, A, {}) /\ ~Conflict(RowScopes(ps, A))
             THEN [allowed |-> TRUE, row |-> RowScopes(ps, A), masked |-> MaskedOf(ps, A)]
             ELSE Denied
      BY <2>0, <2>2, <2>3, Zenon DEF RegoEvaluate
    <3> QED BY <1>2, <1>3, <2>7, <3>1
  <2>9. t \in Accessible(ps, TablePolicies(ps, M), Denies(ps, M)) <=>
          /\ Denies(ps, I) = {} /\ TablePolicies(ps, I) # {}
          /\ {t} \subseteq TablesOf(ps, TablePolicies(ps, I))
    BY <2>4, OneTable
  <2> QED BY <2>3, <2>5, <2>8, <2>9
<1> QED BY <1>1, <1>4, <1>5

(* The columns shown are the columns that can be queried, while every      *)
(* grant names the one table.                                              *)
LEMMA ColumnsAreMirrored == Typed => ColumnsMirroredAlone
<1> SUFFICES ASSUME Typed, NEW pr \in Principals, NEW db \in Databases, NEW t \in Tables,
                    NEW c \in Columns, EffectsKnown, NEW ps, ps = Loaded, NEW M,
                    M = {i \in DOMAIN policies : MatchesSubject(ps[i], pr, db)},
                    Evaluate(pr, db, {t}, {}).allowed, TablesOf(ps, TablePolicies(ps, M)) = {t}
             PROVE  ColumnAccessible(EffectiveAccess(pr, db), t, c)
                        <=> Evaluate(pr, db, {t}, {c}).allowed
  BY DEF ColumnsMirroredAlone
<1>1. PICK I : I = Applicable(pr, db, {t})
  OBVIOUS
<1>2. PICK A : A = TablePolicies(ps, I)
  OBVIOUS
<1>3. I \in SUBSET M /\ \A i \in M : i \in I <=> ps[i].table \in {Absent, t}
  BY <1>1, Zenon DEF Applicable, Matches
<1>4. A = TablePolicies(ps, M)
  BY <1>2, <1>3 DEF TablePolicies, TablesOf
<1>5. ~Denied.allowed
  BY DEF Denied
<1>6. /\ Denies(ps, I) = {} /\ A # {} /\ {t} \subseteq TablesOf(ps, A)
      /\ AttributesPresent(RowRestrictions(ps, A), pr)
  <2>1. Evaluate(pr, db, {t}, {}) =
           IF /\ {t} # {} /\ Denies(ps, I) = {} /\ A # {} /\ {t} \subseteq TablesOf(ps, A)
              /\ ColumnsAllowed(ps, A, {}) /\ AttributesPresent(RowRestrictions(ps, A), pr)
           THEN [allowed |-> TRUE, row |-> RowRestrictions(ps, A), masked |-> MaskedOf(ps, A)]
           ELSE Denied
    BY <1>1, <1>2, Zenon DEF Evaluate
  <2> QED BY <1>5, <2>1
<1>7. Evaluate(pr, db, {t}, {c}).allowed <=> ColumnsAllowed(ps, A, {c})
  <2>1. Evaluate(pr, db, {t}, {c}) =
           IF /\ {t} # {} /\ Denies(ps, I) = {} /\ A # {} /\ {t} \subseteq TablesOf(ps, A)
              /\ ColumnsAllowed(ps, A, {c}) /\ AttributesPresent(RowRestrictions(ps, A), pr)
           THEN [allowed |-> TRUE, row |-> RowRestrictions(ps, A), masked |-> MaskedOf(ps, A)]
           ELSE Denied
    BY <1>1, <1>2, Zenon DEF Evaluate
  <2> QED BY <1>5, <1>6, <2>1
<1>8. PICK access : access = EffectiveAccess(pr, db)
  OBVIOUS
<1>9. access.tables = Accessible(ps, A, Denies(ps, M)) /\ access.columns = ColumnsOf(ps, A)
  BY <1>4, <1>8, EffectiveAccessUnfolds
<1>10. t \in access.tables
  <2>1. t \in Accessible(ps, TablePolicies(ps, M), Denies(ps, M)) <=>
          /\ Denies(ps, I) = {} /\ TablePolicies(ps, I) # {}
          /\ {t} \subseteq TablesOf(ps, TablePolicies(ps, I))
    BY <1>3, OneTable
  <2> QED BY <1>2, <1>4, <1>6, <1>9, <2>1
<1>11. ColumnsAllowed(ps, A, {c}) <=> (ColumnsOf(ps, A) = {} \/ c \in ColumnsOf(ps, A))
  <2>1. PICK L : L = {i \in A : ps[i].columns # {}}
    OBVIOUS
  <2>2. ColumnsOf(ps, L) = ColumnsOf(ps, A) /\ (L = {} <=> ColumnsOf(ps, A) = {})
    BY <2>1 DEF ColumnsOf
  <2> QED BY <2>1, <2>2 DEF ColumnsAllowed
<1> QED BY <1>7, <1>8, <1>9, <1>10, <1>11 DEF ColumnAccessible

(* policy_engine.py, effective_access: the schema a principal is shown is  *)
(* the schema it can query.                                                *)
THEOREM SchemaIsHonest == Spec => []SchemaMirrorsQueries
<1>1. Typed => SchemaMirrorsQueries
  BY TablesAreMirrored, ColumnsAreMirrored DEF SchemaMirrorsQueries
<1> QED BY <1>1, TypedAlways, PTL
-----------------------------------------------------------------------------
(* What the inline evaluator and apply_row_restrictions let through, in    *)
(* terms of the documents I that apply and A that grant.                   *)
Grants(ps, pr, T, C, I, A) ==
    /\ T # {} /\ Denies(ps, I) = {} /\ A # {} /\ T \subseteq TablesOf(ps, A)
    /\ ColumnsAllowed(ps, A, C) /\ AttributesPresent(RowRestrictions(ps, A), pr)

InlineByGrants(pr, db, T, C, ps, I, A) ==
    (ps = Loaded /\ I = Applicable(pr, db, T) /\ A = TablePolicies(ps, I)) =>
        /\ Inline(pr, db, T, C).allowed <=> Grants(ps, pr, T, C, I, A)
        /\ Grants(ps, pr, T, C, I, A) =>
              /\ Inline(pr, db, T, C).row = RowRestrictions(ps, A)
              /\ Inline(pr, db, T, C).masked = MaskedOf(ps, A)

(* Inline with its local definitions named.                                *)
LEMMA InlineUnfolds ==
    ASSUME NEW pr, NEW db, NEW T, NEW C, NEW ps, NEW I, NEW A
    PROVE  InlineByGrants(pr, db, T, C, ps, I, A)
<1> SUFFICES ASSUME ps = Loaded, I = Applicable(pr, db, T), A = TablePolicies(ps, I)
             PROVE  /\ Inline(pr, db, T, C).allowed <=> Grants(ps, pr, T, C, I, A)
                    /\ Grants(ps, pr, T, C, I, A) =>
                          /\ Inline(pr, db, T, C).row = RowRestrictions(ps, A)
                          /\ Inline(pr, db, T, C).masked = MaskedOf(ps, A)
  BY DEF InlineByGrants
<1>1. PICK d : d = [allowed |-> TRUE, row |-> RowRestrictions(ps, A), masked |-> MaskedOf(ps, A)]
  OBVIOUS
<1>2. d.allowed = TRUE /\ d.row = RowRestrictions(ps, A) /\ d.masked = MaskedOf(ps, A)
  BY <1>1
<1>3. Denied.allowed = FALSE
  BY DEF Denied
<1>4. Evaluate(pr, db, T, C) = IF Grants(ps, pr, T, C, I, A) THEN d ELSE Denied
  BY <1>1, EvaluateUnfolds DEF Grants
<1>5. CASE Grants(ps, pr, T, C, I, A)
  <2>1. Evaluate(pr, db, T, C) = d /\ AttributesPresent(d.row, pr)
    BY <1>2, <1>4, <1>5 DEF Grants
  <2>2. Inline(pr, db, T, C) = d
    BY <1>2, <2>1 DEF Inline, Enforced
  <2> QED BY <1>2, <1>5, <2>2
<1>6. CASE ~Grants(ps, pr, T, C, I, A)
  <2>1. Inline(pr, db, T, C) = Denied
    BY <1>4, <1>6 DEF Inline, Enforced
  <2> QED BY <1>3, <1>6, <2>1
<1> QED BY <1>5, <1>6

(* The same after a step. *)
LEMMA InlineUnfoldsNext ==
    ASSUME NEW pr, NEW db, NEW T, NEW C, NEW ps, NEW I, NEW A
    PROVE  InlineByGrants(pr, db, T, C, ps, I, A)'
<1>1. InlineByGrants(pr, db, T, C, ps, I, A)
  BY InlineUnfolds
<1> QED BY <1>1, PTL

(* Publishing adds one document at the end and touches no other. *)
LEMMA PublishAppends ==
    ASSUME Typed, NEW p \in Documents, Publish(p), NEW n, n = Len(policies) + 1
    PROVE  /\ Len(policies') = n /\ n \in Nat
           /\ DOMAIN policies' = DOMAIN policies \cup {n}
           /\ \A i \in DOMAIN policies : Loaded'[i] = Loaded[i] /\ i \in Nat /\ i < n
<1>1. /\ Len(policies') = n /\ n \in Nat
      /\ DOMAIN policies' = DOMAIN policies \cup {n}
      /\ \A i \in DOMAIN policies : policies'[i] = policies[i] /\ i \in Nat /\ i < n
  BY DEF Typed, Publish
<1> QED BY <1>1 DEF Loaded

(* Reading other entries leaves what a set of entries gives as it was. *)
LEMMA SameEntries ==
    ASSUME NEW ps, NEW qs, NEW K, \A i \in K : qs[i] = ps[i], NEW C
    PROVE  /\ TablesOf(qs, K) = TablesOf(ps, K) /\ Denies(qs, K) = Denies(ps, K)
           /\ TablePolicies(qs, K) = TablePolicies(ps, K)
           /\ RowRestrictions(qs, K) = RowRestrictions(ps, K)
           /\ ColumnsAllowed(qs, K, C) <=> ColumnsAllowed(ps, K, C)
<1>1. TablesOf(qs, K) = TablesOf(ps, K)
  BY DEF TablesOf
<1>2. Denies(qs, K) = Denies(ps, K)
  BY DEF Denies
<1>3. TablePolicies(qs, K) = TablePolicies(ps, K)
  BY DEF TablePolicies
<1>4. RowScopes(qs, K) = RowScopes(ps, K)
  BY DEF RowScopes
<1>5. RowRestrictions(qs, K) = RowRestrictions(ps, K)
  BY <1>4 DEF RowRestrictions
<1>6. ColumnsAllowed(qs, K, C) <=> ColumnsAllowed(ps, K, C)
  BY DEF ColumnsAllowed, ColumnsOf
<1> QED BY <1>1, <1>2, <1>3, <1>5, <1>6

(* policy_engine.py, evaluate: a published deny lets nothing new through,  *)
(* no document lifts a mask or a row predicate, and only one that scopes   *)
(* the column changes its attribute.                                       *)
THEOREM PoliciesOnlyTighten == Spec => PublishNeverWeakens
<1> DEFINE Tight ==
      \A pr \in Principals, db \in Databases, T \in SUBSET Tables, C \in SUBSET Columns :
          /\ (Loaded'[Len(policies')].effect = "deny" /\ Inline(pr, db, T, C)'.allowed)
                 => Inline(pr, db, T, C).allowed
          /\ (Inline(pr, db, T, C).allowed /\ Inline(pr, db, T, C)'.allowed)
                 => /\ Inline(pr, db, T, C).masked \subseteq Inline(pr, db, T, C)'.masked
                    /\ \A s \in Inline(pr, db, T, C).row :
                          \/ s \in Inline(pr, db, T, C)'.row
                          \/ \E r \in Inline(pr, db, T, C)'.row :
                                r[1] = s[1] /\ r \in Loaded'[Len(policies')].row_scope
<1>1. ASSUME Typed, NEW p \in Documents, Publish(p), NEW pr \in Principals,
             NEW db \in Databases, NEW T \in SUBSET Tables, NEW C \in SUBSET Columns
      PROVE  /\ (Loaded'[Len(policies')].effect = "deny" /\ Inline(pr, db, T, C)'.allowed)
                    => Inline(pr, db, T, C).allowed
             /\ (Inline(pr, db, T, C).allowed /\ Inline(pr, db, T, C)'.allowed)
                    => /\ Inline(pr, db, T, C).masked \subseteq Inline(pr, db, T, C)'.masked
                       /\ \A s \in Inline(pr, db, T, C).row :
                             \/ s \in Inline(pr, db, T, C)'.row
                             \/ \E r \in Inline(pr, db, T, C)'.row :
                                   r[1] = s[1] /\ r \in Loaded'[Len(policies')].row_scope
  <2>1. PICK n, ps, qs : n = Len(policies) + 1 /\ ps = Loaded /\ qs = Loaded'
    OBVIOUS
  <2>2. /\ Len(policies') = n /\ n \in Nat
        /\ DOMAIN policies' = DOMAIN policies \cup {n}
        /\ \A i \in DOMAIN policies : qs[i] = ps[i] /\ i \in Nat /\ i < n
    BY <1>1, <2>1, PublishAppends
  <2>3. PICK I, A : I = Applicable(pr, db, T) /\ A = TablePolicies(ps, I)
    OBVIOUS
  <2>4. PICK J, B : J = Applicable(pr, db, T)' /\ B = TablePolicies(qs, J)
    OBVIOUS
  <2>5. I \subseteq DOMAIN policies /\ (J = I \/ J = I \cup {n}) /\ n \notin I
    <3>1. I = {i \in DOMAIN policies : \E t \in T : Matches(ps[i], pr, db, t)}
      BY <2>1, <2>3 DEF Applicable
    <3>2. J = {i \in DOMAIN policies' : \E t \in T : Matches(qs[i], pr, db, t)}
      BY <2>1, <2>4 DEF Applicable
    <3>3. \A i \in DOMAIN policies : i \in J <=> i \in I
      BY <2>2, <3>1, <3>2
    <3>4. n \notin DOMAIN policies
      BY <2>2
    <3>5. J \subseteq DOMAIN policies \cup {n}
      BY <2>2, <3>2
    <3> QED BY <3>1, <3>3, <3>4, <3>5
  <2>6. A \subseteq I /\ B \subseteq J /\ A \subseteq B /\ (B = A \/ B = A \cup {n})
    <3>1. \A i \in I : i \in B <=> i \in A
      BY <2>2, <2>3, <2>4, <2>5 DEF TablePolicies
    <3>2. A \subseteq I /\ B \subseteq J
      BY <2>3, <2>4 DEF TablePolicies
    <3> QED BY <2>5, <3>1, <3>2
  <2>7. /\ Inline(pr, db, T, C).allowed <=> Grants(ps, pr, T, C, I, A)
        /\ Grants(ps, pr, T, C, I, A) =>
              /\ Inline(pr, db, T, C).row = RowRestrictions(ps, A)
              /\ Inline(pr, db, T, C).masked = MaskedOf(ps, A)
    BY <2>1, <2>3, InlineUnfolds DEF InlineByGrants
  <2>8. /\ Inline(pr, db, T, C)'.allowed <=> Grants(qs, pr, T, C, J, B)
        /\ Grants(qs, pr, T, C, J, B) =>
              /\ Inline(pr, db, T, C)'.row = RowRestrictions(qs, B)
              /\ Inline(pr, db, T, C)'.masked = MaskedOf(qs, B)
    BY <2>1, <2>4, InlineUnfoldsNext DEF InlineByGrants
  <2>9. ASSUME qs[n].effect = "deny", Grants(qs, pr, T, C, J, B)
        PROVE  Grants(ps, pr, T, C, I, A)
    <3>1. n \notin J
      BY <2>9 DEF Grants, Denies
    <3>2. J = I /\ B = A
      BY <2>5, <2>6, <3>1
    <3>3. (\A i \in I : qs[i] = ps[i]) /\ (\A i \in A : qs[i] = ps[i])
      BY <2>2, <2>5, <2>6
    <3>4. Denies(qs, I) = Denies(ps, I)
      BY <3>3, SameEntries
    <3>5. /\ TablesOf(qs, A) = TablesOf(ps, A)
          /\ RowRestrictions(qs, A) = RowRestrictions(ps, A)
          /\ ColumnsAllowed(qs, A, C) <=> ColumnsAllowed(ps, A, C)
      BY <3>3, SameEntries
    <3> QED BY <2>9, <3>2, <3>4, <3>5 DEF Grants
  <2>10. MaskedOf(ps, A) \subseteq MaskedOf(qs, B)
    BY <2>2, <2>5, <2>6 DEF MaskedOf
  <2>11. ASSUME NEW s \in RowRestrictions(ps, A)
         PROVE  \/ s \in RowRestrictions(qs, B)
                \/ \E r \in RowRestrictions(qs, B) : r[1] = s[1] /\ r \in qs[n].row_scope
    <3>1. PICK i \in A : /\ s \in ps[i].row_scope
                         /\ \A j \in A : j > i => \A r \in ps[j].row_scope : r[1] # s[1]
      BY DEF RowRestrictions
    <3>2. \A q : q \in RowRestrictions(qs, B) <=>
              \E k \in B : /\ q \in qs[k].row_scope
                           /\ \A j \in B : j > k => \A r \in qs[j].row_scope : r[1] # q[1]
      BY DEF RowRestrictions, RowScopes
    <3>3. \A j \in A : qs[j] = ps[j] /\ j \in Nat /\ j < n
      BY <2>2, <2>5, <2>6
    <3>4. CASE n \in B /\ \E r \in qs[n].row_scope : r[1] = s[1]
      <4>1. PICK r \in qs[n].row_scope : r[1] = s[1]
        BY <3>4
      <4>2. \A j \in B : ~(j > n)
        BY <2>2, <2>6, <3>3
      <4> QED BY <3>2, <3>4, <4>1, <4>2
    <3>5. CASE ~(n \in B /\ \E r \in qs[n].row_scope : r[1] = s[1])
      <4>1. i \in B /\ s \in qs[i].row_scope
        BY <2>6, <3>1, <3>3
      <4>2. \A j \in B : j > i => \A r \in qs[j].row_scope : r[1] # s[1]
        BY <2>2, <2>6, <3>1, <3>3, <3>5
      <4> QED BY <3>2, <4>1, <4>2
    <3> QED BY <3>4, <3>5
  <2>12. Loaded'[Len(policies')] = qs[n]
    BY <2>1, <2>2
  <2> QED BY <2>7, <2>8, <2>9, <2>10, <2>11, <2>12
<1>2. Typed /\ [Next]_policies => [Tight]_policies
  BY <1>1 DEF Next
<1> QED BY <1>2, TypedAlways, PTL DEF Spec, PublishNeverWeakens
-----------------------------------------------------------------------------
(* The requests of a history that passed the check of d with key k. *)
PassedIn(h, d, k) ==
    {j \in DOMAIN h :
        /\ KeyOf(h[j].by, d) = k
        /\ h[j].refusedBy = "" \/ Position[h[j].refusedBy] > Position[d]}

(* At time t the deque s holds, in order, the times of requests that       *)
(* passed the check of d with key k, and misses none still in the window.  *)
Records(s, h, t, d, k) ==
    \E f \in [DOMAIN s -> DOMAIN h] :
        /\ \A i, j \in DOMAIN s : i < j => f[i] < f[j]
        /\ \A i \in DOMAIN s : s[i] = h[f[i]].at /\ f[i] \in PassedIn(h, d, k)
        /\ \A j \in PassedIn(h, d, k) :
              h[j].at > t - WindowSeconds => \E i \in DOMAIN s : f[i] = j

Entries == [at : Nat, by : Callers, refusedBy : Dimensions \cup {""}]

(* The variables' types, with what the deques owe to history. *)
RateTyped ==
    /\ limit \in Settings
    /\ now \in 0 .. MaxTime
    /\ log \in [Dimensions -> [Keys -> Seq(Nat)]]
    /\ history \in Seq(Entries)
    /\ \A i \in DOMAIN history :
          /\ history[i].at <= now
          /\ \A j \in DOMAIN history : i <= j => history[i].at <= history[j].at

DequesBounded ==
    \A d \in Dimensions : \A k \in Keys :
        /\ \A i \in DOMAIN log[d][k] : log[d][k][i] <= now
        /\ Len(log[d][k]) <= Allowed(d)

DequesRecord ==
    \A d \in LimitedDimensions : \A k \in Keys : Records(log[d][k], history, now, d, k)

RateInv == RateTyped /\ DequesBounded /\ DequesRecord
-----------------------------------------------------------------------------
(* A set of positions has a first one. *)
LEMMA FirstOfPositions ==
    ASSUME NEW n \in Nat, NEW S \in SUBSET (1..n), S # {}
    PROVE  Min(S) \in S /\ \A j \in S : Min(S) <= j
<1> DEFINE R == {ss \in Nat \X Nat : ss[1] < ss[2]}
<1>1. IsWellFoundedOn(R, Nat)
  <2>1. OpToRel(<, Nat) = R
    BY Zenon DEF OpToRel
  <2> QED BY <2>1, NatLessThanWellFounded, Zenon
<1>2. S \subseteq Nat
  OBVIOUS
<1>3. PICK x \in S : \A y \in S : <<y, x>> \notin R
  <2> HIDE DEF R
  <2> QED BY <1>1, <1>2, WFMin
<1>4. \A y \in S : ~(y < x)
  BY <1>2, <1>3
<1>5. \A y \in S : x =< y
  BY <1>2, <1>4
<1> QED BY <1>5 DEF Min

(* Eviction drops from an ascending deque the entries up to the cutoff and *)
(* keeps the others.                                                       *)
LEMMA EvictionShifts ==
    ASSUME NEW s \in Seq(Nat), NEW c \in Int,
           \A i, j \in DOMAIN s : i < j => s[i] <= s[j]
    PROVE  /\ Evicted(s, c) \in Seq(Nat)
           /\ \E o \in 0..Len(s) :
                 /\ Len(Evicted(s, c)) = Len(s) - o
                 /\ \A i \in 1..(Len(s) - o) : Evicted(s, c)[i] = s[i + o]
                 /\ \A i \in 1..o : s[i] <= c
                 /\ \A i \in (o + 1)..Len(s) : s[i] > c
<1> DEFINE live == {i \in DOMAIN s : s[i] > c}
<1>1. CASE live = {}
  <2>1. Evicted(s, c) = <<>>
    BY <1>1 DEF Evicted
  <2>2. \A i \in 1..Len(s) : s[i] <= c
    BY <1>1
  <2> QED BY <2>1, <2>2
<1>2. CASE live # {}
  <2> DEFINE m == Min(live)
  <2>1. Evicted(s, c) = SubSeq(s, m, Len(s))
    BY <1>2 DEF Evicted
  <2>2. live \in SUBSET (1..Len(s)) /\ Len(s) \in Nat
    OBVIOUS
  <2>3. m \in live /\ \A j \in live : m <= j
    <3> HIDE DEF live
    <3> QED BY <1>2, <2>2, FirstOfPositions
  <2>4. m \in 1..Len(s) /\ s[m] > c /\ \A i \in 1..(m - 1) : s[i] <= c
    <3>1. m \in 1..Len(s) /\ s[m] > c
      BY <2>3
    <3>2. \A i \in 1..(m - 1) : i \in DOMAIN s /\ i \notin live
      <4> HIDE DEF m, live
      <4> QED BY <2>3, <3>1
    <3>3. \A i \in DOMAIN s : s[i] \in Nat /\ (i \notin live => s[i] <= c)
      OBVIOUS
    <3> QED BY <3>1, <3>2, <3>3
  <2>5. \A i \in m..Len(s) : s[i] > c
    <3> HIDE DEF m, live
    <3> SUFFICES ASSUME NEW i \in m..Len(s) PROVE s[i] > c
      OBVIOUS
    <3>1. m = i \/ s[m] <= s[i]
      BY <2>4
    <3>2. s[i] \in Nat /\ s[m] \in Nat
      BY <2>4
    <3> QED BY <2>4, <3>1, <3>2
  <2> HIDE DEF m, live
  <2>6. /\ Evicted(s, c) \in Seq(Nat)
        /\ Len(Evicted(s, c)) = Len(s) - (m - 1)
        /\ \A i \in 1..(Len(s) - (m - 1)) : Evicted(s, c)[i] = s[i + (m - 1)]
    BY <2>1, <2>4
  <2>7. m - 1 \in 0..Len(s) /\ (m - 1) + 1 = m
    BY <2>4
  <2> QED BY <2>4, <2>5, <2>6, <2>7
<1> QED BY <1>1, <1>2
-----------------------------------------------------------------------------
(* A deque that records ascends, as history does. *)
LEMMA RecordsAscend ==
    ASSUME RateTyped, NEW d, NEW k, NEW s \in Seq(Nat), Records(s, history, now, d, k)
    PROVE  \A i, j \in DOMAIN s : i < j => s[i] <= s[j]
<1>1. PICK f \in [DOMAIN s -> DOMAIN history] :
        /\ \A i, j \in DOMAIN s : i < j => f[i] < f[j]
        /\ \A i \in DOMAIN s : s[i] = history[f[i]].at
  BY DEF Records
<1> SUFFICES ASSUME NEW i \in DOMAIN s, NEW j \in DOMAIN s, i < j PROVE s[i] <= s[j]
  OBVIOUS
<1>2. f[i] \in DOMAIN history /\ f[j] \in DOMAIN history /\ f[i] < f[j]
  BY <1>1
<1>3. history[f[i]].at <= history[f[j]].at
  <2>1. f[i] <= f[j]
    BY <1>2 DEF RateTyped
  <2> QED BY <1>2, <2>1 DEF RateTyped
<1> QED BY <1>1, <1>3

(* The deque of a limited dimension after eviction holds exactly the times *)
(* of the requests of its key that passed and are still in the window.     *)
LEMMA WindowRecords ==
    ASSUME RateInv, NEW d \in LimitedDimensions, NEW k \in Keys
    PROVE  /\ Records(Window(d, k), history, now, d, k)
           /\ \A i \in DOMAIN Window(d, k) : Window(d, k)[i] > now - WindowSeconds
<1> DEFINE s == log[d][k]
           c == now - WindowSeconds
           w == Window(d, k)
<1>1. d \in Dimensions /\ s \in Seq(Nat) /\ Records(s, history, now, d, k) /\ c \in Int
  BY RateAssumption DEF RateInv, RateTyped, DequesRecord, LimitedDimensions, Dimensions
<1>2. \A i, j \in DOMAIN s : i < j => s[i] <= s[j]
  <2> HIDE DEF s
  <2> QED BY <1>1, RecordsAscend DEF RateInv
<1>3. w = Evicted(s, c)
  BY DEF Window
<1> HIDE DEF s, c, w
<1>4. /\ w \in Seq(Nat)
      /\ \E o \in 0..Len(s) :
                 /\ Len(w) = Len(s) - o
                 /\ \A i \in 1..(Len(s) - o) : w[i] = s[i + o]
                 /\ \A i \in 1..o : s[i] <= c
                 /\ \A i \in (o + 1)..Len(s) : s[i] > c
  BY <1>1, <1>2, <1>3, EvictionShifts
<1>5. PICK o \in 0..Len(s) :
                 /\ Len(w) = Len(s) - o
                 /\ \A i \in 1..(Len(s) - o) : w[i] = s[i + o]
                 /\ \A i \in 1..o : s[i] <= c
                 /\ \A i \in (o + 1)..Len(s) : s[i] > c
  BY <1>4
<1>6. PICK f \in [DOMAIN s -> DOMAIN history] :
        /\ \A i, j \in DOMAIN s : i < j => f[i] < f[j]
        /\ \A i \in DOMAIN s : s[i] = history[f[i]].at /\ f[i] \in PassedIn(history, d, k)
        /\ \A j \in PassedIn(history, d, k) :
              history[j].at > c => \E i \in DOMAIN s : f[i] = j
  BY <1>1 DEF Records, c
<1> DEFINE g == [i \in DOMAIN w |-> f[i + o]]
<1>7. DOMAIN w = 1..(Len(s) - o) /\ DOMAIN s = 1..Len(s) /\ Len(s) \in Nat
  BY <1>1, <1>4, <1>5
<1>8. \A i \in DOMAIN w : i + o \in DOMAIN s /\ i + o \in (o + 1)..Len(s)
  BY <1>7
<1>9. g \in [DOMAIN w -> DOMAIN history]
  BY <1>8
<1>10. \A i, j \in DOMAIN w : i < j => g[i] < g[j]
  <2> SUFFICES ASSUME NEW i \in DOMAIN w, NEW j \in DOMAIN w, i < j PROVE g[i] < g[j]
    OBVIOUS
  <2>1. i + o < j + o
    BY <1>7
  <2> QED BY <1>6, <1>8, <2>1
<1>11. \A i \in DOMAIN w : w[i] = history[g[i]].at /\ g[i] \in PassedIn(history, d, k) /\ w[i] > c
  BY <1>5, <1>6, <1>7, <1>8
<1>12. ASSUME NEW j \in PassedIn(history, d, k), history[j].at > c
       PROVE  \E i \in DOMAIN w : g[i] = j
  <2>1. PICK i \in DOMAIN s : f[i] = j
    BY <1>6, <1>12
  <2>2. s[i] = history[j].at
    BY <1>6, <2>1
  <2>3. ~(i \in 1..o)
    <3>1. s[i] \in Nat
      BY <1>1
    <3> QED BY <1>1, <1>5, <1>12, <2>2, <3>1
  <2>4. i - o \in DOMAIN w /\ (i - o) + o = i
    BY <1>7, <2>3
  <2>5. g[i - o] = j
    BY <2>1, <2>4
  <2> QED BY <2>4, <2>5
<1> HIDE DEF g
<1>13. Records(w, history, now, d, k)
  BY <1>9, <1>10, <1>11, <1>12 DEF Records, c
<1> QED BY <1>11, <1>13 DEF w, c

(* No deque grows by eviction. *)
LEMMA WindowBounded ==
    ASSUME RateInv, NEW d \in LimitedDimensions, NEW k \in Keys
    PROVE  /\ Window(d, k) \in Seq(Nat)
           /\ Len(Window(d, k)) <= Allowed(d)
           /\ \A i \in DOMAIN Window(d, k) : Window(d, k)[i] <= now
<1> DEFINE s == log[d][k]
           c == now - WindowSeconds
           w == Window(d, k)
<1>1. d \in Dimensions /\ s \in Seq(Nat) /\ Records(s, history, now, d, k) /\ c \in Int
  BY RateAssumption DEF RateInv, RateTyped, DequesRecord, LimitedDimensions, Dimensions
<1>2. \A i, j \in DOMAIN s : i < j => s[i] <= s[j]
  <2> HIDE DEF s
  <2> QED BY <1>1, RecordsAscend DEF RateInv
<1>3. w = Evicted(s, c)
  BY DEF Window
<1>4. Len(s) <= Allowed(d) /\ \A i \in DOMAIN s : s[i] <= now
  BY <1>1 DEF RateInv, DequesBounded
<1>5. Allowed(d) \in Nat
  BY <1>1, RateAssumption DEF RateInv, RateTyped, Allowed
<1> HIDE DEF s, c, w
<1>6. /\ w \in Seq(Nat)
      /\ \E o \in 0..Len(s) :
                 /\ Len(w) = Len(s) - o
                 /\ \A i \in 1..(Len(s) - o) : w[i] = s[i + o]
  BY <1>1, <1>2, <1>3, EvictionShifts
<1>7. PICK o \in 0..Len(s) :
                 /\ Len(w) = Len(s) - o
                 /\ \A i \in 1..(Len(s) - o) : w[i] = s[i + o]
  BY <1>6
<1>8. DOMAIN w = 1..(Len(s) - o) /\ DOMAIN s = 1..Len(s) /\ Len(s) \in Nat
  BY <1>1, <1>6, <1>7
<1>9. \A i \in DOMAIN w : w[i] <= now
  BY <1>4, <1>7, <1>8
<1>10. Len(w) <= Allowed(d)
  BY <1>4, <1>5, <1>7, <1>8
<1> QED BY <1>6, <1>9, <1>10 DEF w
-----------------------------------------------------------------------------
(* The length of the evicted deque, which _check_limit compares with the   *)
(* maximum, is the number of requests that passed in the window.           *)
LEMMA WindowCounts ==
    ASSUME RateInv, NEW d \in LimitedDimensions, NEW k \in Keys
    PROVE  LET S == OfKey(Passed(InWindow(Len(history) + 1, now), d), d, k) IN
           IsFiniteSet(S) /\ Cardinality(S) = Len(Window(d, k))
<1> DEFINE S == OfKey(Passed(InWindow(Len(history) + 1, now), d), d, k)
           w == Window(d, k)
           c == now - WindowSeconds
<1>1. w \in Seq(Nat) /\ Records(w, history, now, d, k) /\ \A i \in DOMAIN w : w[i] > c
  BY WindowRecords, WindowBounded
<1>2. S = {j \in PassedIn(history, d, k) : history[j].at > c}
  <2>1. DOMAIN history = 1..Len(history) /\ Len(history) \in Nat
    BY DEF RateInv, RateTyped
  <2>2. \A j \in DOMAIN history : history[j].at <= now
    BY DEF RateInv, RateTyped
  <2>3. InWindow(Len(history) + 1, now) = {j \in DOMAIN history : history[j].at > c}
    <3>1. 1..((Len(history) + 1) - 1) = DOMAIN history
      BY <2>1
    <3> QED BY <2>2, <3>1 DEF InWindow
  <2> QED BY <2>3, Zenon DEF PassedIn, Passed, OfKey
<1> HIDE DEF w, c, S
<1>3. PICK f \in [DOMAIN w -> DOMAIN history] :
        /\ \A i, j \in DOMAIN w : i < j => f[i] < f[j]
        /\ \A i \in DOMAIN w : w[i] = history[f[i]].at /\ f[i] \in PassedIn(history, d, k)
        /\ \A j \in PassedIn(history, d, k) :
              history[j].at > c => \E i \in DOMAIN w : f[i] = j
  BY <1>1 DEF Records, c
<1>4. DOMAIN w = 1..Len(w) /\ Len(w) \in Nat
  BY <1>1
<1>5. f \in [1..Len(w) -> S]
  BY <1>1, <1>2, <1>3, <1>4
<1>6. \A i, j \in 1..Len(w) : f[i] = f[j] => i = j
  <2> SUFFICES ASSUME NEW i \in 1..Len(w), NEW j \in 1..Len(w), i # j PROVE f[i] # f[j]
    OBVIOUS
  <2>1. f[i] \in Nat /\ f[j] \in Nat
    BY <1>3, <1>4 DEF RateInv, RateTyped
  <2>2. i < j \/ j < i
    BY <1>4
  <2> QED BY <1>3, <1>4, <2>1, <2>2
<1>7. \A x \in S : \E i \in 1..Len(w) : f[i] = x
  BY <1>2, <1>3, <1>4
<1>8. ExistsBijection(1..Len(w), S)
  BY <1>5, <1>6, <1>7 DEF ExistsBijection, Bijection, Injection, Surjection, IsInjective
<1>9. IsFiniteSet(1..Len(w)) /\ Cardinality(1..Len(w)) = Len(w)
  <2>1. IsFiniteSet(1..Len(w)) /\ Cardinality(1..Len(w)) = IF 1 > Len(w) THEN 0 ELSE Len(w) - 1 + 1
    BY <1>4, FS_Interval
  <2> QED BY <1>4, <2>1
<1>10. IsFiniteSet(S) /\ Cardinality(S) = Len(w)
  BY <1>8, <1>9, FS_Bijection
<1> QED BY <1>10 DEF w, S

(* No more requests of a key are admitted in the window that ends now than *)
(* its dimension allows.                                                   *)
LEMMA NowNeverExceeded ==
    ASSUME RateInv, NEW d \in LimitedDimensions, NEW k \in Keys
    PROVE  Cardinality(OfKey(Admitted(InWindow(Len(history) + 1, now)), d, k)) <= Allowed(d)
<1> DEFINE S == OfKey(Passed(InWindow(Len(history) + 1, now), d), d, k)
           A == OfKey(Admitted(InWindow(Len(history) + 1, now)), d, k)
<1>1. A \subseteq S
  BY DEF OfKey, Admitted, Passed
<1>2. IsFiniteSet(S) /\ Cardinality(S) = Len(Window(d, k))
  BY WindowCounts
<1>3. Window(d, k) \in Seq(Nat) /\ Len(Window(d, k)) <= Allowed(d)
  BY WindowBounded
<1>4. Allowed(d) \in Nat
  BY RateAssumption DEF RateInv, RateTyped, Allowed, LimitedDimensions, Dimensions
<1> HIDE DEF A, S
<1>5. IsFiniteSet(A) /\ Cardinality(A) <= Cardinality(S)
  BY <1>1, <1>2, FS_Subset
<1>6. Cardinality(A) \in Nat /\ Len(Window(d, k)) \in Nat
  BY <1>3, <1>5, FS_CardinalityType
<1>7. Cardinality(A) <= Allowed(d)
  BY <1>2, <1>3, <1>4, <1>5, <1>6
<1> QED BY <1>7 DEF A
-----------------------------------------------------------------------------
(* The keys of a caller; the dimensions checked are limited ones. *)
LEMMA CheckedIsLimited ==
    ASSUME NEW caller \in Callers
    PROVE  /\ Checked(caller) \subseteq LimitedDimensions
           /\ LimitedDimensions \subseteq Dimensions
           /\ \A d \in Checked(caller) : KeyOf(caller, d) \in Keys
           /\ \A d \in LimitedDimensions \ Checked(caller) : KeyOf(caller, d) \notin Keys
<1>1. /\ caller.ip \in Keys /\ caller.principal \in Keys /\ caller.tenant \in Keys
      /\ NoKey \notin Keys
  BY RateAssumption
<1>2. \A d \in Layers : KeyOf(caller, d) \in Keys \/ KeyOf(caller, d) = NoKey
  BY <1>1 DEF KeyOf, Layers
<1>3. KeyOf(caller, "legacy") \in Keys
  BY <1>1 DEF KeyOf
<1> QED BY <1>1, <1>2, <1>3 DEF Checked, LimitedDimensions, Dimensions

(* The request is refused by a full dimension and only after every one     *)
(* before it was found to have room.                                       *)
LEMMA FirstFullRefuses ==
    ASSUME NEW caller \in Callers
    PROVE  LET stop == RefusedBy(caller) IN
           /\ stop = "" \/ (stop \in Checked(caller) /\ Full(stop, KeyOf(caller, stop)))
           /\ \A d \in Checked(caller) : Charged(d, stop) => ~Full(d, KeyOf(caller, d))
<1> DEFINE full == {d \in Checked(caller) : Full(d, KeyOf(caller, d))}
           stop == RefusedBy(caller)
<1>1. CASE full = {}
  <2>1. stop = ""
    BY <1>1 DEF RefusedBy
  <2> QED BY <1>1, <2>1
<1>2. CASE full # {}
  <2>1. full \subseteq Layers \/ full = {"legacy"}
    BY <1>2 DEF Checked
  <2> HIDE DEF full
  <2>2. \E d \in full : \A e \in full : Position[d] <= Position[e]
    <3>1. CASE "ip" \in full \/ full = {"legacy"}
      BY <2>1, <3>1 DEF Position, Layers
    <3>2. CASE "ip" \notin full /\ "principal" \in full
      BY <2>1, <3>2 DEF Position, Layers
    <3>3. CASE "ip" \notin full /\ "principal" \notin full /\ "tenant" \in full
      BY <2>1, <3>3 DEF Position, Layers
    <3>4. CASE "ip" \notin full /\ "principal" \notin full /\ "tenant" \notin full
               /\ full # {"legacy"}
      <4>1. full = {"database"}
        BY <1>2, <2>1, <3>4 DEF Layers
      <4> QED BY <4>1 DEF Position
    <3> QED BY <3>1, <3>2, <3>3, <3>4
  <2>3. stop \in full /\ \A e \in full : Position[stop] <= Position[e]
    <3>1. stop = CHOOSE d \in full : \A e \in full : Position[d] <= Position[e]
      BY <1>2 DEF RefusedBy, full
    <3> HIDE DEF stop
    <3> QED BY <2>2, <3>1
  <2>4. stop # "" /\ \A e \in full : Position[e] \in Int
    <3>1. "" \notin Layers /\ \A e \in Layers \cup {"legacy"} : Position[e] \in Int
      BY DEF Layers, Position
    <3> HIDE DEF stop
    <3> QED BY <2>1, <2>3, <3>1
  <2> HIDE DEF stop
  <2>5. \A d \in full : ~Charged(d, stop)
    <3> SUFFICES ASSUME NEW d \in full PROVE ~Charged(d, stop)
      OBVIOUS
    <3>1. Position[stop] <= Position[d] /\ Position[stop] \in Int /\ Position[d] \in Int
      BY <2>3, <2>4
    <3>2. ~(Position[d] < Position[stop])
      BY <3>1
    <3> QED BY <2>4, <3>2, Zenon DEF Charged
  <2> QED BY <2>3, <2>5 DEF full, stop
<1> QED BY <1>1, <1>2
-----------------------------------------------------------------------------
(* What a request adds to history. *)
LEMMA HistoryAppended ==
    ASSUME NEW h \in Seq(Entries), NEW r \in Entries
    PROVE  /\ Append(h, r) \in Seq(Entries)
           /\ Len(Append(h, r)) = Len(h) + 1 /\ Len(h) \in Nat
           /\ DOMAIN h = 1..Len(h)
           /\ DOMAIN Append(h, r) = 1..(Len(h) + 1)
           /\ \A j \in DOMAIN h : j \in DOMAIN Append(h, r) /\ Append(h, r)[j] = h[j]
           /\ Append(h, r)[Len(h) + 1] = r
OBVIOUS

(* An entry added to history changes no earlier verdict. *)
LEMMA PassedGrows ==
    ASSUME NEW h \in Seq(Entries), NEW r \in Entries, NEW d, NEW k
    PROVE  /\ \A j \in DOMAIN h : j \in PassedIn(Append(h, r), d, k) <=> j \in PassedIn(h, d, k)
           /\ \A j \in PassedIn(Append(h, r), d, k) : j \in DOMAIN h \/ j = Len(h) + 1
           /\ PassedIn(h, d, k) \subseteq DOMAIN h
           /\ Len(h) + 1 \in PassedIn(Append(h, r), d, k)
                 <=> /\ KeyOf(r.by, d) = k
                     /\ r.refusedBy = "" \/ Position[r.refusedBy] > Position[d]
<1> DEFINE h2 == Append(h, r)
<1>1. /\ Len(h) \in Nat /\ DOMAIN h = 1..Len(h) /\ DOMAIN h2 = 1..(Len(h) + 1)
      /\ \A j \in DOMAIN h : j \in DOMAIN h2 /\ h2[j] = h[j]
      /\ h2[Len(h) + 1] = r
  BY HistoryAppended
<1>2. Len(h) + 1 \in DOMAIN h2 /\ \A j \in DOMAIN h2 : j \in DOMAIN h \/ j = Len(h) + 1
  BY <1>1
<1> HIDE DEF h2
<1>3. /\ \A j \in DOMAIN h : j \in PassedIn(h2, d, k) <=> j \in PassedIn(h, d, k)
      /\ \A j \in PassedIn(h2, d, k) : j \in DOMAIN h \/ j = Len(h) + 1
      /\ PassedIn(h, d, k) \subseteq DOMAIN h
  BY <1>1, <1>2, Zenon DEF PassedIn
<1>4. Len(h) + 1 \in PassedIn(h2, d, k)
          <=> /\ KeyOf(r.by, d) = k
              /\ r.refusedBy = "" \/ Position[r.refusedBy] > Position[d]
  BY <1>1, <1>2, Zenon DEF PassedIn
<1> QED BY <1>3, <1>4 DEF h2

(* A deque keeps recording when time passes, when a request is added that  *)
(* did not pass its check, and, with its time appended, when one did.      *)
LEMMA RecordsLater ==
    ASSUME NEW s, NEW h \in Seq(Entries), NEW t \in Nat, NEW d, NEW k, Records(s, h, t, d, k)
    PROVE  Records(s, h, t + 1, d, k)
<1>1. \A j \in PassedIn(h, d, k) : h[j].at \in Nat
  <2>1. \A j \in DOMAIN h : h[j] \in Entries
    OBVIOUS
  <2>2. \A j \in DOMAIN h : h[j].at \in Nat
    BY <2>1 DEF Entries
  <2> QED BY <2>2 DEF PassedIn
<1>2. \A j \in PassedIn(h, d, k) :
        h[j].at > (t + 1) - WindowSeconds => h[j].at > t - WindowSeconds
  BY <1>1, RateAssumption
<1>3. PICK f \in [DOMAIN s -> DOMAIN h] :
        /\ \A i, j \in DOMAIN s : i < j => f[i] < f[j]
        /\ \A i \in DOMAIN s : s[i] = h[f[i]].at /\ f[i] \in PassedIn(h, d, k)
        /\ \A j \in PassedIn(h, d, k) :
              h[j].at > t - WindowSeconds => \E i \in DOMAIN s : f[i] = j
  BY Zenon DEF Records
<1>4. \A j \in PassedIn(h, d, k) :
        h[j].at > (t + 1) - WindowSeconds => \E i \in DOMAIN s : f[i] = j
  BY <1>2, <1>3
<1> QED BY <1>3, <1>4, Zenon DEF Records

(* A request that did not pass the check of d leaves its deques in step.   *)
LEMMA RecordsKept ==
    ASSUME NEW s, NEW h \in Seq(Entries), NEW t, NEW d, NEW k, Records(s, h, t, d, k),
           NEW r \in Entries, Len(h) + 1 \notin PassedIn(Append(h, r), d, k)
    PROVE  Records(s, Append(h, r), t, d, k)
<1> DEFINE h2 == Append(h, r)
<1>1. \A j \in DOMAIN h : j \in DOMAIN h2 /\ h2[j] = h[j]
  BY HistoryAppended
<1>2. PassedIn(h2, d, k) = PassedIn(h, d, k) /\ PassedIn(h, d, k) \subseteq DOMAIN h
  <2>1. /\ \A j \in DOMAIN h : j \in PassedIn(h2, d, k) <=> j \in PassedIn(h, d, k)
        /\ \A j \in PassedIn(h2, d, k) : j \in DOMAIN h \/ j = Len(h) + 1
        /\ PassedIn(h, d, k) \subseteq DOMAIN h
    BY PassedGrows
  <2> QED BY <2>1
<1> HIDE DEF h2
<1>3. PICK f \in [DOMAIN s -> DOMAIN h] :
        /\ \A i, j \in DOMAIN s : i < j => f[i] < f[j]
        /\ \A i \in DOMAIN s : s[i] = h[f[i]].at /\ f[i] \in PassedIn(h, d, k)
        /\ \A j \in PassedIn(h, d, k) :
              h[j].at > t - WindowSeconds => \E i \in DOMAIN s : f[i] = j
  BY Zenon DEF Records
<1>4. f \in [DOMAIN s -> DOMAIN h2]
  BY <1>1
<1>5. \A i \in DOMAIN s : s[i] = h2[f[i]].at /\ f[i] \in PassedIn(h2, d, k)
  BY <1>1, <1>2, <1>3
<1>6. \A j \in PassedIn(h2, d, k) :
              h2[j].at > t - WindowSeconds => \E i \in DOMAIN s : f[i] = j
  BY <1>1, <1>2, <1>3
<1>7. Records(s, h2, t, d, k)
  BY <1>3, <1>4, <1>5, <1>6, Zenon DEF Records
<1> QED BY <1>7 DEF h2

(* One that passed does so with its time appended. *)
LEMMA RecordsExtended ==
    ASSUME NEW s \in Seq(Nat), NEW h \in Seq(Entries), NEW t \in Nat, NEW d, NEW k,
           Records(s, h, t, d, k),
           NEW r \in Entries, r.at = t, Len(h) + 1 \in PassedIn(Append(h, r), d, k)
    PROVE  Records(Append(s, t), Append(h, r), t, d, k)
<1> DEFINE h2 == Append(h, r)
           s2 == Append(s, t)
           n  == Len(h) + 1
           m  == Len(s) + 1
<1>1. /\ \A j \in DOMAIN h : j \in DOMAIN h2 /\ h2[j] = h[j] /\ j < n
      /\ n \in DOMAIN h2 /\ h2[n] = r /\ DOMAIN h \subseteq Nat /\ n \in Nat
  BY HistoryAppended
<1>2. /\ \A j \in DOMAIN h : j \in PassedIn(h2, d, k) <=> j \in PassedIn(h, d, k)
      /\ \A j \in PassedIn(h2, d, k) : j \in DOMAIN h \/ j = n
      /\ PassedIn(h, d, k) \subseteq DOMAIN h
  BY PassedGrows
<1>3. /\ DOMAIN s2 = DOMAIN s \cup {m} /\ s2[m] = t
      /\ \A i \in DOMAIN s : s2[i] = s[i] /\ i < m /\ i \in Nat
      /\ m \in Nat
  OBVIOUS
<1>4. PICK f \in [DOMAIN s -> DOMAIN h] :
        /\ \A i, j \in DOMAIN s : i < j => f[i] < f[j]
        /\ \A i \in DOMAIN s : s[i] = h[f[i]].at /\ f[i] \in PassedIn(h, d, k)
        /\ \A j \in PassedIn(h, d, k) :
              h[j].at > t - WindowSeconds => \E i \in DOMAIN s : f[i] = j
  BY Zenon DEF Records
<1>5. n \in PassedIn(h2, d, k)
  OBVIOUS
<1> HIDE DEF h2, s2, n, m
<1> DEFINE g == [i \in DOMAIN s2 |-> IF i = m THEN n ELSE f[i]]
<1>6. \A i \in DOMAIN s : i # m /\ g[i] = f[i] /\ g[i] \in DOMAIN h
  <2>1. \A i \in DOMAIN s : i # m /\ i \in DOMAIN s2
    BY <1>3
  <2> QED BY <2>1
<1>7. g[m] = n
  BY <1>3
<1>8. g \in [DOMAIN s2 -> DOMAIN h2]
  <2>1. \A i \in DOMAIN s2 : g[i] \in DOMAIN h2
    BY <1>1, <1>3, <1>6, <1>7
  <2> QED BY <2>1
<1> HIDE DEF g
<1>9. \A i, j \in DOMAIN s2 : i < j => g[i] < g[j]
  <2> SUFFICES ASSUME NEW i \in DOMAIN s2, NEW j \in DOMAIN s2, i < j PROVE g[i] < g[j]
    OBVIOUS
  <2>1. i \in DOMAIN s
    BY <1>3
  <2>2. CASE j \in DOMAIN s
    BY <1>4, <1>6, <2>1, <2>2
  <2>3. CASE j = m
    BY <1>1, <1>6, <1>7, <2>1, <2>3
  <2> QED BY <1>3, <2>2, <2>3
<1>10. ASSUME NEW i \in DOMAIN s2
       PROVE  s2[i] = h2[g[i]].at /\ g[i] \in PassedIn(h2, d, k)
  <2>1. CASE i \in DOMAIN s
    BY <1>1, <1>2, <1>3, <1>4, <1>6, <2>1
  <2>2. CASE i = m
    BY <1>1, <1>3, <1>5, <1>7, <2>2
  <2> QED BY <1>3, <2>1, <2>2
<1>11. ASSUME NEW j \in PassedIn(h2, d, k), h2[j].at > t - WindowSeconds
       PROVE  \E i \in DOMAIN s2 : g[i] = j
  <2>1. CASE j = n
    BY <1>3, <1>7, <2>1
  <2>2. CASE j \in DOMAIN h
    <3>1. j \in PassedIn(h, d, k) /\ h[j].at > t - WindowSeconds
      BY <1>1, <1>2, <1>11, <2>2
    <3>2. PICK i \in DOMAIN s : f[i] = j
      BY <1>4, <3>1
    <3> QED BY <1>3, <1>6, <3>2
  <2> QED BY <1>2, <2>1, <2>2
<1>12. Records(s2, h2, t, d, k)
  BY <1>8, <1>9, <1>10, <1>11, Zenon DEF Records
<1> QED BY <1>12 DEF s2, h2
-----------------------------------------------------------------------------
(* A deque that is checked stays within the limit of its dimension: it is  *)
(* charged only when it has room.                                          *)
LEMMA CheckBounds ==
    ASSUME RateInv, NEW caller \in Callers, NEW d \in Checked(caller)
    PROVE  LET s == AfterCheck(d, KeyOf(caller, d), RefusedBy(caller)) IN
           s \in Seq(Nat) /\ Len(s) <= Allowed(d) /\ \A i \in DOMAIN s : s[i] <= now
<1> DEFINE k    == KeyOf(caller, d)
           w    == Window(d, k)
           stop == RefusedBy(caller)
<1>1. d \in LimitedDimensions /\ d \in Dimensions /\ k \in Keys
  BY CheckedIsLimited
<1>2. now \in Nat /\ limit[d] \in Int
  BY <1>1, RateAssumption DEF RateInv, RateTyped
<1>3. w \in Seq(Nat) /\ Len(w) <= Allowed(d) /\ \A i \in DOMAIN w : w[i] <= now
  BY <1>1, WindowBounded
<1>4. Charged(d, stop) => ~(Len(w) >= limit[d])
  BY FirstFullRefuses DEF Full
<1> HIDE DEF k, w, stop
<1>5. CASE Charged(d, stop)
  <2>1. Len(w) + 1 <= Allowed(d)
    BY <1>2, <1>3, <1>4, <1>5 DEF Allowed
  <2>2. /\ Append(w, now) \in Seq(Nat) /\ Len(Append(w, now)) = Len(w) + 1
        /\ \A i \in DOMAIN Append(w, now) : Append(w, now)[i] <= now
    BY <1>2, <1>3
  <2>3. AfterCheck(d, k, stop) = Append(w, now)
    BY <1>5 DEF AfterCheck, w
  <2> QED BY <2>1, <2>2, <2>3 DEF k, stop
<1>6. CASE ~Charged(d, stop)
  <2>1. AfterCheck(d, k, stop) = w
    BY <1>6 DEF AfterCheck, w
  <2> QED BY <1>3, <2>1 DEF k, stop
<1> QED BY <1>5, <1>6

(* The deque of key k in dimension d after a request. *)
LEMMA LogAfter ==
    ASSUME RateInv, NEW caller \in Callers, Request(caller), NEW d \in Dimensions, NEW k \in Keys
    PROVE  log'[d][k] = IF /\ d \in Checked(caller) /\ Reached(d, RefusedBy(caller))
                           /\ KeyOf(caller, d) = k
                        THEN AfterCheck(d, k, RefusedBy(caller)) ELSE log[d][k]
<1>1. log[d] \in [Keys -> Seq(Nat)]
  BY DEF RateInv, RateTyped
<1>2. log'[d] = IF d \in Checked(caller) /\ Reached(d, RefusedBy(caller))
                THEN [log[d] EXCEPT ![KeyOf(caller, d)] =
                         AfterCheck(d, KeyOf(caller, d), RefusedBy(caller))]
                ELSE log[d]
  BY DEF Request
<1> QED BY <1>1, <1>2

(* A request writes its entry in history with the refusing dimension. *)
LEMMA HistoryAfter ==
    ASSUME RateInv, NEW caller \in Callers, Request(caller)
    PROVE  LET r == [at |-> now, by |-> caller, refusedBy |-> RefusedBy(caller)] IN
           /\ r \in Entries /\ history \in Seq(Entries) /\ history' = Append(history, r)
           /\ limit' = limit /\ now' = now /\ now \in Nat
<1>1. RefusedBy(caller) \in Dimensions \cup {""}
  BY FirstFullRefuses, CheckedIsLimited
<1>2. now \in Nat
  BY RateAssumption DEF RateInv, RateTyped
<1>3. [at |-> now, by |-> caller, refusedBy |-> RefusedBy(caller)] \in Entries
  BY <1>1, <1>2 DEF Entries
<1> QED BY <1>2, <1>3 DEF Request, RateInv, RateTyped

(* A request keeps the types, the order of history and the bounds. *)
LEMMA RequestTyped ==
    ASSUME RateInv, NEW caller \in Callers, Request(caller)
    PROVE  RateTyped' /\ DequesBounded'
<1> DEFINE r == [at |-> now, by |-> caller, refusedBy |-> RefusedBy(caller)]
           n == Len(history) + 1
<1>1. /\ r \in Entries /\ history \in Seq(Entries) /\ history' = Append(history, r)
      /\ limit' = limit /\ now' = now /\ now \in Nat
  BY HistoryAfter
<1>2. ASSUME NEW d \in Dimensions, NEW k \in Keys
      PROVE  /\ log'[d][k] \in Seq(Nat) /\ Len(log'[d][k]) <= Allowed(d)
             /\ \A i \in DOMAIN log'[d][k] : log'[d][k][i] <= now
  <2>1. /\ log[d][k] \in Seq(Nat) /\ Len(log[d][k]) <= Allowed(d)
        /\ \A i \in DOMAIN log[d][k] : log[d][k][i] <= now
    BY DEF RateInv, RateTyped, DequesBounded
  <2>2. ASSUME d \in Checked(caller), KeyOf(caller, d) = k
        PROVE  LET s == AfterCheck(d, k, RefusedBy(caller)) IN
               s \in Seq(Nat) /\ Len(s) <= Allowed(d) /\ \A i \in DOMAIN s : s[i] <= now
    BY <2>2, CheckBounds
  <2> QED BY <2>1, <2>2, LogAfter
<1>3. log' \in [Dimensions -> [Keys -> Seq(Nat)]]
  <2>1. log \in [Dimensions -> [Keys -> Seq(Nat)]]
    BY DEF RateInv, RateTyped
  <2>2. \A d \in Dimensions : DOMAIN log'[d] = Keys
    BY <2>1 DEF Request
  <2>3. \A d \in Dimensions : log'[d] = [k \in Keys |-> log'[d][k]]
    BY <2>1 DEF Request
  <2>4. DOMAIN log' = Dimensions /\ log' = [d \in Dimensions |-> log'[d]]
    BY DEF Request
  <2>5. \A d \in Dimensions : log'[d] \in [Keys -> Seq(Nat)]
    <3> SUFFICES ASSUME NEW d \in Dimensions PROVE log'[d] \in [Keys -> Seq(Nat)]
      OBVIOUS
    <3>1. \A k \in Keys : log'[d][k] \in Seq(Nat)
      BY <1>2
    <3> QED BY <2>3, <3>1
  <2> QED BY <2>4, <2>5
<1>4. /\ history' \in Seq(Entries) /\ DOMAIN history = 1..(n - 1) /\ DOMAIN history' = 1..n
      /\ n \in Nat /\ history'[n] = r
      /\ \A j \in DOMAIN history : history'[j] = history[j]
  <2> HIDE DEF r
  <2> QED BY <1>1, HistoryAppended
<1>5. \A i \in DOMAIN history :
          /\ history[i].at <= now
          /\ \A j \in DOMAIN history : i <= j => history[i].at <= history[j].at
  BY DEF RateInv, RateTyped
<1>6. r.at = now
  OBVIOUS
<1> HIDE DEF r, n
<1>7. \A i \in DOMAIN history' : i \in DOMAIN history \/ i = n
  BY <1>4
<1>8. \A i \in DOMAIN history' : history'[i].at <= now
  BY <1>1, <1>4, <1>5, <1>6, <1>7
<1>9. ASSUME NEW i \in DOMAIN history', NEW j \in DOMAIN history', i <= j
      PROVE  history'[i].at <= history'[j].at
  <2>1. CASE j = n
    BY <1>4, <1>6, <1>8, <2>1
  <2>2. CASE j # n
    <3>1. j \in DOMAIN history /\ i \in DOMAIN history
      BY <1>4, <1>7, <1>9, <2>2
    <3> QED BY <1>4, <1>5, <1>9, <3>1
  <2> QED BY <2>1, <2>2
<1>10. limit' \in Settings /\ now' \in 0..MaxTime
  BY <1>1 DEF RateInv, RateTyped
<1>11. RateTyped'
  BY <1>1, <1>3, <1>4, <1>8, <1>9, <1>10 DEF RateTyped
<1>12. DequesBounded'
  <2>1. \A d \in Dimensions : Allowed(d)' = Allowed(d)
    BY <1>1 DEF Allowed
  <2> QED BY <1>1, <1>2, <2>1 DEF DequesBounded
<1> QED BY <1>11, <1>12

(* The deques record what happened, whichever dimension refuses: the ones  *)
(* before it were charged, it and the ones after were not.                 *)
LEMMA RequestRecorded ==
    ASSUME RateInv, NEW caller \in Callers, Request(caller),
           NEW d \in LimitedDimensions, NEW k \in Keys
    PROVE  Records(log'[d][k], history', now, d, k)
<1> DEFINE stop == RefusedBy(caller)
           r    == [at |-> now, by |-> caller, refusedBy |-> stop]
           n    == Len(history) + 1
<1>1. /\ r \in Entries /\ history \in Seq(Entries) /\ history' = Append(history, r)
      /\ limit' = limit /\ now' = now /\ now \in Nat
  BY HistoryAfter
<1>2. d \in Dimensions /\ (d \notin Checked(caller) => KeyOf(caller, d) # k)
  BY CheckedIsLimited
<1>3. n \in PassedIn(Append(history, r), d, k)
          <=> KeyOf(caller, d) = k /\ (stop = "" \/ Position[stop] > Position[d])
  <2>1. r.by = caller /\ r.refusedBy = stop
    OBVIOUS
  <2> HIDE DEF r
  <2> QED BY <1>1, <2>1, PassedGrows
<1>4. stop = "" \/ stop \in Dimensions
  BY FirstFullRefuses, CheckedIsLimited
<1>5. \A e \in Dimensions : Position[e] \in Int
  BY DEF Dimensions, Layers, Position
<1>6. /\ Charged(d, stop) <=> (stop = "" \/ Position[stop] > Position[d])
      /\ Charged(d, stop) => Reached(d, stop)
  <2> HIDE DEF stop
  <2>1. stop # "" => Position[stop] \in Int /\ Position[d] \in Int
    BY <1>2, <1>4, <1>5
  <2>2. CASE stop = ""
    BY <2>2, Zenon DEF Charged, Reached
  <2>3. CASE stop # ""
    <3>1. /\ (Position[d] < Position[stop]) <=> (Position[stop] > Position[d])
          /\ (Position[d] < Position[stop]) => (Position[d] <= Position[stop])
      <4>1. Position[stop] \in Int /\ Position[d] \in Int
        BY <2>1, <2>3
      <4> QED BY <4>1
    <3> QED BY <2>3, <3>1, Zenon DEF Charged, Reached
  <2> QED BY <2>2, <2>3
<1>7. Records(log[d][k], history, now, d, k) /\ Records(Window(d, k), history, now, d, k)
  BY WindowRecords DEF RateInv, DequesRecord
<1>8. Window(d, k) \in Seq(Nat)
  BY WindowBounded
<1>9. log'[d][k] = IF d \in Checked(caller) /\ Reached(d, stop) /\ KeyOf(caller, d) = k
                   THEN AfterCheck(d, k, stop) ELSE log[d][k]
  BY <1>2, LogAfter
<1>10. r.at = now
  OBVIOUS
<1> HIDE DEF r, stop, n
<1>11. CASE KeyOf(caller, d) = k /\ Charged(d, stop)
  <2>1. n \in PassedIn(Append(history, r), d, k)
    BY <1>3, <1>6, <1>11
  <2>2. Records(Append(Window(d, k), now), Append(history, r), now, d, k)
    BY <1>1, <1>7, <1>8, <1>10, <2>1, RecordsExtended DEF n
  <2>3. log'[d][k] = Append(Window(d, k), now)
    BY <1>2, <1>6, <1>9, <1>11 DEF AfterCheck
  <2> QED BY <1>1, <2>2, <2>3
<1>12. CASE ~(KeyOf(caller, d) = k /\ Charged(d, stop))
  <2>1. n \notin PassedIn(Append(history, r), d, k)
    BY <1>3, <1>6, <1>12
  <2>2. /\ Records(log[d][k], Append(history, r), now, d, k)
        /\ Records(Window(d, k), Append(history, r), now, d, k)
    BY <1>1, <1>7, <2>1, RecordsKept DEF n
  <2>3. log'[d][k] = log[d][k] \/ log'[d][k] = Window(d, k)
    BY <1>9, <1>12 DEF AfterCheck
  <2> QED BY <1>1, <2>2, <2>3
<1> QED BY <1>11, <1>12
-----------------------------------------------------------------------------
(* The invariant holds at the start and across every step. *)
LEMMA RateInvInit == RateInit => RateInv
<1> SUFFICES ASSUME RateInit PROVE RateInv
  OBVIOUS
<1>1. /\ limit \in Settings /\ now = 0 /\ history = <<>>
      /\ \A d \in Dimensions : \A k \in Keys : log[d][k] = <<>>
      /\ log \in [Dimensions -> [Keys -> Seq(Nat)]]
  BY DEF RateInit
<1>2. RateTyped
  BY <1>1, RateAssumption DEF RateTyped
<1>3. \A d \in Dimensions : Allowed(d) >= 0
  BY <1>1, RateAssumption DEF Allowed
<1>4. DequesBounded
  BY <1>1, <1>3 DEF DequesBounded
<1>5. ASSUME NEW d \in LimitedDimensions, NEW k \in Keys
      PROVE  Records(log[d][k], history, now, d, k)
  <2>1. log[d][k] = <<>> /\ history = <<>>
    BY <1>1 DEF LimitedDimensions, Dimensions
  <2> DEFINE f == [i \in {} |-> 0]
  <2>2. DOMAIN log[d][k] = {} /\ DOMAIN history = {}
    BY <2>1
  <2>3. f \in [DOMAIN log[d][k] -> DOMAIN history]
    BY <2>2
  <2>4. PassedIn(history, d, k) = {}
    BY <2>2 DEF PassedIn
  <2> QED BY <2>2, <2>3, <2>4 DEF Records
<1> QED BY <1>2, <1>4, <1>5 DEF RateInv, DequesRecord

(* One case per action. *)
LEMMA RateInvNext == RateInv /\ [RateNext]_rateVars => RateInv'
<1> SUFFICES ASSUME RateInv, [RateNext]_rateVars PROVE RateInv'
  OBVIOUS
<1>1. CASE Tick
  <2>1. /\ limit' = limit /\ log' = log /\ history' = history
        /\ now \in Nat /\ now' = now + 1 /\ now' \in 0..MaxTime
    BY <1>1, RateAssumption DEF Tick, RateInv, RateTyped
  <2>2. RateTyped'
    <3>1. \A i \in DOMAIN history : history[i].at \in Nat /\ history[i].at <= now
      <4>1. \A i \in DOMAIN history : history[i] \in Entries /\ history[i].at <= now
        BY DEF RateInv, RateTyped
      <4> QED BY <4>1 DEF Entries
    <3>2. \A i \in DOMAIN history : history[i].at <= now + 1
      BY <2>1, <3>1
    <3> QED BY <2>1, <3>2 DEF RateInv, RateTyped
  <2>3. DequesBounded'
    <3>1. \A d \in Dimensions : Allowed(d)' = Allowed(d)
      BY <2>1 DEF Allowed
    <3>2. ASSUME NEW d \in Dimensions, NEW k \in Keys, NEW i \in DOMAIN log[d][k]
          PROVE  log[d][k][i] <= now + 1
      <4>1. log[d][k] \in Seq(Nat) /\ log[d][k][i] <= now
        BY DEF RateInv, RateTyped, DequesBounded
      <4>2. log[d][k][i] \in Nat
        BY <4>1
      <4> QED BY <2>1, <4>1, <4>2
    <3> QED BY <2>1, <3>1, <3>2 DEF RateInv, DequesBounded
  <2>4. DequesRecord'
    <3>1. LimitedDimensions' = LimitedDimensions
      BY <2>1 DEF LimitedDimensions, LayeredMode
    <3>2. \A d \in LimitedDimensions : \A k \in Keys : Records(log[d][k], history, now + 1, d, k)
      BY <2>1, RecordsLater DEF RateInv, DequesRecord, RateTyped
    <3> QED BY <2>1, <3>1, <3>2 DEF DequesRecord
  <2> QED BY <2>2, <2>3, <2>4 DEF RateInv
<1>2. ASSUME NEW caller \in Callers, Request(caller)
      PROVE  RateInv'
  <2>1. limit' = limit /\ now' = now
    BY <1>2 DEF Request
  <2>2. LimitedDimensions' = LimitedDimensions
    BY <2>1 DEF LimitedDimensions, LayeredMode
  <2>3. \A d \in LimitedDimensions : \A k \in Keys : Records(log'[d][k], history', now, d, k)
    BY <1>2, RequestRecorded
  <2>4. DequesRecord'
    BY <2>1, <2>2, <2>3 DEF DequesRecord
  <2> QED BY <1>2, <2>4, RequestTyped DEF RateInv
<1>3. CASE UNCHANGED rateVars
  <2>1. limit' = limit /\ now' = now /\ log' = log /\ history' = history
    BY <1>3 DEF rateVars
  <2>2. LimitedDimensions' = LimitedDimensions /\ \A d \in Dimensions : Allowed(d)' = Allowed(d)
    BY <2>1 DEF LimitedDimensions, LayeredMode, Allowed
  <2> QED BY <2>1, <2>2 DEF RateInv, RateTyped, DequesBounded, DequesRecord
<1> QED BY <1>1, <1>2, <1>3 DEF RateNext
-----------------------------------------------------------------------------
(* The requests of a history admitted with key k in the window ending at t *)
(* and those before number i that passed the check of d in it.             *)
AdmittedIn(h, t, d, k) ==
    {j \in DOMAIN h : /\ h[j].at > t - WindowSeconds /\ h[j].at <= t
                      /\ h[j].refusedBy = "" /\ KeyOf(h[j].by, d) = k}

PassedBefore(h, i, t, d, k) ==
    {j \in 1 .. (i - 1) : /\ h[j].at > t - WindowSeconds /\ h[j].at <= t
                          /\ \/ h[j].refusedBy = ""
                             \/ Position[h[j].refusedBy] > Position[d]
                          /\ KeyOf(h[j].by, d) = k}

(* No window that has ended held more than its dimension allows. *)
PastNeverExceeded ==
    \A d \in LimitedDimensions : \A k \in Keys : \A t \in 0 .. (now - 1) :
        Cardinality(AdmittedIn(history, t, d, k)) <= Allowed(d)

SpentWhenRefused ==
    \A i \in DOMAIN history :
        history[i].refusedBy # "" =>
            Cardinality(PassedBefore(history, i, history[i].at, history[i].refusedBy,
                                     KeyOf(history[i].by, history[i].refusedBy)))
                = Allowed(history[i].refusedBy)

(* The sets the properties count, written over the history alone. *)
LEMMA SameWindows ==
    ASSUME RateTyped
    PROVE  /\ \A t, d, k : OfKey(Admitted(InWindow(Len(history) + 1, t)), d, k)
                              = AdmittedIn(history, t, d, k)
           /\ \A i, t, d, k : OfKey(Passed(InWindow(i, t), d), d, k)
                                 = PassedBefore(history, i, t, d, k)
<1>1. 1..((Len(history) + 1) - 1) = DOMAIN history
  BY DEF RateTyped
<1>2. \A t, d, k : OfKey(Admitted(InWindow(Len(history) + 1, t)), d, k)
                      = AdmittedIn(history, t, d, k)
  BY <1>1, Zenon DEF OfKey, Admitted, InWindow, AdmittedIn
<1>3. \A i, t, d, k : OfKey(Passed(InWindow(i, t), d), d, k)
                         = PassedBefore(history, i, t, d, k)
  BY Zenon DEF OfKey, Passed, InWindow, PassedBefore
<1> QED BY <1>2, <1>3

(* Windows that have ended stay as they are; the one ending now joins them. *)
LEMMA PastNext ==
    RateInv /\ PastNeverExceeded /\ [RateNext]_rateVars => PastNeverExceeded'
<1> SUFFICES ASSUME RateInv, PastNeverExceeded, [RateNext]_rateVars PROVE PastNeverExceeded'
  OBVIOUS
<1>1. CASE Tick
  <2>1. limit' = limit /\ history' = history /\ now \in Nat /\ now' = now + 1
    BY <1>1, RateAssumption DEF Tick, RateInv, RateTyped
  <2>2. LimitedDimensions' = LimitedDimensions /\ \A d : Allowed(d)' = Allowed(d)
    BY <2>1 DEF LimitedDimensions, LayeredMode, Allowed
  <2>3. ASSUME NEW d \in LimitedDimensions, NEW k \in Keys, NEW t \in 0..((now + 1) - 1)
        PROVE  Cardinality(AdmittedIn(history, t, d, k)) <= Allowed(d)
    <3>1. CASE t = now
      BY <3>1, NowNeverExceeded, SameWindows DEF RateInv
    <3>2. CASE t # now
      <4>1. t \in 0..(now - 1)
        BY <2>1, <3>2
      <4> QED BY <4>1 DEF PastNeverExceeded
    <3> QED BY <3>1, <3>2
  <2> QED BY <2>1, <2>2, <2>3 DEF PastNeverExceeded
<1>2. ASSUME NEW caller \in Callers, Request(caller)
      PROVE  PastNeverExceeded'
  <2> DEFINE r == [at |-> now, by |-> caller, refusedBy |-> RefusedBy(caller)]
             n == Len(history) + 1
  <2>1. /\ r \in Entries /\ history \in Seq(Entries) /\ history' = Append(history, r)
        /\ limit' = limit /\ now' = now /\ now \in Nat
    BY <1>2, HistoryAfter
  <2>2. LimitedDimensions' = LimitedDimensions /\ \A d : Allowed(d)' = Allowed(d)
    BY <2>1 DEF LimitedDimensions, LayeredMode, Allowed
  <2>3. r.at = now
    OBVIOUS
  <2> HIDE DEF r
  <2>4. /\ \A j \in DOMAIN history : j \in DOMAIN history' /\ history'[j] = history[j]
        /\ \A j \in DOMAIN history' : j \in DOMAIN history \/ j = n
        /\ history'[n] = r
    <3>1. /\ DOMAIN history = 1..(n - 1) /\ DOMAIN history' = 1..n /\ n \in Nat
          /\ history'[n] = r
          /\ \A j \in DOMAIN history : j \in DOMAIN history' /\ history'[j] = history[j]
      BY <2>1, HistoryAppended
    <3> QED BY <3>1
  <2> HIDE DEF n
  <2>5. ASSUME NEW d, NEW k, NEW t \in 0..(now - 1)
        PROVE  AdmittedIn(history', t, d, k) = AdmittedIn(history, t, d, k)
    <3>1. ~(history'[n].at <= t)
      BY <2>1, <2>3, <2>4
    <3> QED BY <2>4, <3>1, Zenon DEF AdmittedIn
  <2> QED BY <2>1, <2>2, <2>5 DEF PastNeverExceeded
<1>3. CASE UNCHANGED rateVars
  <2>1. limit' = limit /\ now' = now /\ history' = history
    BY <1>3 DEF rateVars
  <2>2. LimitedDimensions' = LimitedDimensions /\ \A d : Allowed(d)' = Allowed(d)
    BY <2>1 DEF LimitedDimensions, LayeredMode, Allowed
  <2> QED BY <2>1, <2>2 DEF PastNeverExceeded
<1> QED BY <1>1, <1>2, <1>3 DEF RateNext

(* A refusal finds the allowance spent; later requests do not change that. *)
LEMMA SpentNext ==
    RateInv /\ SpentWhenRefused /\ [RateNext]_rateVars => SpentWhenRefused'
<1> SUFFICES ASSUME RateInv, SpentWhenRefused, [RateNext]_rateVars PROVE SpentWhenRefused'
  OBVIOUS
<1>1. CASE Tick \/ UNCHANGED rateVars
  <2>1. limit' = limit /\ history' = history
    BY <1>1 DEF Tick, rateVars
  <2>2. \A d : Allowed(d)' = Allowed(d)
    BY <2>1 DEF Allowed
  <2> QED BY <2>1, <2>2 DEF SpentWhenRefused
<1>2. ASSUME NEW caller \in Callers, Request(caller)
      PROVE  SpentWhenRefused'
  <2> DEFINE stop == RefusedBy(caller)
             r == [at |-> now, by |-> caller, refusedBy |-> stop]
             n == Len(history) + 1
  <2>1. /\ r \in Entries /\ history \in Seq(Entries) /\ history' = Append(history, r)
        /\ limit' = limit /\ now' = now /\ now \in Nat
    BY <1>2, HistoryAfter
  <2>2. \A d : Allowed(d)' = Allowed(d)
    BY <2>1 DEF Allowed
  <2>3. r.at = now /\ r.by = caller /\ r.refusedBy = stop
    OBVIOUS
  <2>4. stop = "" \/ (stop \in Checked(caller) /\ Full(stop, KeyOf(caller, stop)))
    BY FirstFullRefuses
  <2> HIDE DEF r, stop
  <2>5. /\ DOMAIN history = 1..(n - 1) /\ DOMAIN history' = 1..n /\ n \in Nat
        /\ history'[n] = r
        /\ \A j \in DOMAIN history : history'[j] = history[j]
    BY <2>1, HistoryAppended
  <2>6. ASSUME NEW i \in DOMAIN history', NEW t, NEW d, NEW k
        PROVE  PassedBefore(history', i, t, d, k) = PassedBefore(history, i, t, d, k)
    <3>1. \A j \in 1..(i - 1) : history'[j] = history[j]
      BY <2>5
    <3> QED BY <3>1, Zenon DEF PassedBefore
  <2>7. ASSUME NEW i \in DOMAIN history, history[i].refusedBy # ""
        PROVE  Cardinality(PassedBefore(history', i, history'[i].at, history'[i].refusedBy,
                                        KeyOf(history'[i].by, history'[i].refusedBy)))
                   = Allowed(history'[i].refusedBy)
    <3>1. history'[i] = history[i] /\ i \in DOMAIN history'
      BY <2>5
    <3>2. Cardinality(PassedBefore(history, i, history[i].at, history[i].refusedBy,
                                   KeyOf(history[i].by, history[i].refusedBy)))
              = Allowed(history[i].refusedBy)
      BY <2>7 DEF SpentWhenRefused
    <3> QED BY <2>6, <3>1, <3>2
  <2>8. ASSUME stop # ""
        PROVE  Cardinality(PassedBefore(history', n, now, stop, KeyOf(caller, stop)))
                   = Allowed(stop)
    <3> DEFINE k == KeyOf(caller, stop)
               w == Window(stop, k)
    <3>1. stop \in LimitedDimensions /\ stop \in Dimensions /\ k \in Keys
      BY <2>4, <2>8, CheckedIsLimited
    <3>2. Cardinality(PassedBefore(history, n, now, stop, k)) = Len(w)
      BY <3>1, WindowCounts, SameWindows DEF RateInv
    <3>3. w \in Seq(Nat) /\ Len(w) <= Allowed(stop)
      BY <3>1, WindowBounded
    <3>4. Len(w) >= limit[stop] /\ limit[stop] \in Int
      BY <2>4, <2>8, <3>1, RateAssumption DEF Full, RateInv, RateTyped
    <3> HIDE DEF k, w
    <3>5. Len(w) = Allowed(stop)
      BY <3>3, <3>4 DEF Allowed
    <3>6. n \in DOMAIN history'
      BY <2>5
    <3>7. PassedBefore(history', n, now, stop, k) = PassedBefore(history, n, now, stop, k)
      BY <2>6, <3>6
    <3> QED BY <3>2, <3>5, <3>7 DEF k
  <2> HIDE DEF n
  <2>9. ASSUME NEW i \in DOMAIN history', history'[i].refusedBy # ""
        PROVE  Cardinality(PassedBefore(history', i, history'[i].at, history'[i].refusedBy,
                                        KeyOf(history'[i].by, history'[i].refusedBy)))
                   = Allowed(history'[i].refusedBy)
    <3>1. CASE i \in DOMAIN history
      BY <2>5, <2>7, <2>9, <3>1
    <3>2. CASE i = n
      BY <2>3, <2>5, <2>8, <2>9, <3>2
    <3>3. i \in DOMAIN history \/ i = n
      BY <2>5
    <3> QED BY <3>1, <3>2, <3>3
  <2> QED BY <2>2, <2>9 DEF SpentWhenRefused
<1> QED BY <1>1, <1>2 DEF RateNext
-----------------------------------------------------------------------------
(* A sequence of elements of T is one over T. *)
LEMMA Narrowed ==
    ASSUME NEW S, NEW T, NEW s \in Seq(S), \A i \in DOMAIN s : s[i] \in T
    PROVE  s \in Seq(T)
<1>1. DOMAIN s = 1..Len(s) /\ Len(s) \in Nat
  OBVIOUS
<1>2. s = [i \in 1..Len(s) |-> s[i]]
  OBVIOUS
<1>3. s \in [1..Len(s) -> T]
  BY <1>1, <1>2
<1> QED BY <1>1, <1>3

(* The deques are in step with history in every reachable state. *)
LEMMA RateInvAlways == RateSpec => []RateInv
<1> QED BY RateInvInit, RateInvNext, PTL DEF RateSpec

(* rate_limit_middleware.py, _check_limit: for every window length, every  *)
(* setting of the limits and any number of callers, no window of           *)
(* WindowSeconds, past or present, admits more requests of a key than its  *)
(* dimension allows, and no deque outgrows its limit.                      *)
THEOREM WindowsSlide == RateSpec => []SlidingWindow
<1>1. RateInit => PastNeverExceeded
  <2> SUFFICES ASSUME RateInit PROVE PastNeverExceeded
    OBVIOUS
  <2>1. 0..(now - 1) = {}
    BY DEF RateInit
  <2> QED BY <2>1 DEF PastNeverExceeded
<1>2. RateInv /\ PastNeverExceeded => SlidingWindow
  <2> SUFFICES ASSUME RateInv, PastNeverExceeded PROVE SlidingWindow
    OBVIOUS
  <2>1. now \in 0..MaxTime /\ now \in Nat
    BY RateAssumption DEF RateInv, RateTyped
  <2>2. ASSUME NEW d \in LimitedDimensions, NEW k \in Keys, NEW t \in 0..now
        PROVE  Cardinality(OfKey(Admitted(InWindow(Len(history) + 1, t)), d, k)) <= Allowed(d)
    <3>1. CASE t = now
      BY <3>1, NowNeverExceeded
    <3>2. CASE t # now
      <4>1. t \in 0..(now - 1)
        BY <2>1, <3>2
      <4> QED BY <4>1, SameWindows DEF PastNeverExceeded, RateInv
    <3> QED BY <3>1, <3>2
  <2>3. ASSUME NEW d \in Dimensions, NEW k \in Keys
        PROVE  log[d][k] \in Seq(0..now) /\ Len(log[d][k]) <= Allowed(d)
    <3> DEFINE s == log[d][k]
    <3>1. s \in Seq(Nat) /\ Len(s) <= Allowed(d) /\ \A i \in DOMAIN s : s[i] <= now
      BY DEF RateInv, RateTyped, DequesBounded
    <3> HIDE DEF s
    <3>2. \A i \in DOMAIN s : s[i] \in 0..now
      <4>1. \A i \in DOMAIN s : s[i] \in Nat
        BY <3>1
      <4> QED BY <2>1, <3>1, <4>1
    <3>3. s \in Seq(0..now)
      BY <3>1, <3>2, Narrowed
    <3> QED BY <3>1, <3>3 DEF s
  <2>4. history \in Seq([at : 0 .. now, by : Callers, refusedBy : Dimensions \cup {""}])
    <3>1. history \in Seq(Entries) /\ \A i \in DOMAIN history : history[i].at <= now
      BY DEF RateInv, RateTyped
    <3>2. \A i \in DOMAIN history : history[i] \in Entries
      BY <3>1
    <3> DEFINE T == [at : 0 .. now, by : Callers, refusedBy : Dimensions \cup {""}]
    <3>3. ASSUME NEW i \in DOMAIN history
          PROVE  history[i] \in T
      <4>1. /\ history[i] = [at |-> history[i].at, by |-> history[i].by,
                             refusedBy |-> history[i].refusedBy]
            /\ history[i].at \in Nat /\ history[i].by \in Callers
            /\ history[i].refusedBy \in Dimensions \cup {""}
        BY <3>2 DEF Entries
      <4>2. history[i].at <= now
        BY <3>1
      <4>3. history[i].at \in 0..now
        <5>1. history[i].at \in Nat
          BY <4>1
        <5> QED BY <2>1, <4>2, <5>1
      <4> QED BY <4>1, <4>3
    <3> HIDE DEF T
    <3>4. history \in Seq(T)
      BY <3>1, <3>3, Narrowed
    <3> QED BY <3>4 DEF T
  <2>5. RateTypeOK
    BY <2>1, <2>3, <2>4 DEF RateTypeOK, RateInv, RateTyped
  <2> QED BY <2>2, <2>5 DEF SlidingWindow, WindowNeverExceeded
<1>3. RateSpec => []PastNeverExceeded
  BY <1>1, PastNext, RateInvAlways, PTL DEF RateSpec
<1> QED BY <1>2, <1>3, RateInvAlways, PTL

(* rate_limit_middleware.py, _allow_request: a request answered 429 found  *)
(* its dimension's whole allowance used by requests of the same key within *)
(* the window; earlier refusals by the same dimension never count, so a    *)
(* client that waits for Retry-After is not kept out by its own retries.   *)
THEOREM NobodyRefusedForLess == RateSpec => []RefusedOnlyWhenSpent
<1>1. RateInit => SpentWhenRefused
  <2> SUFFICES ASSUME RateInit PROVE SpentWhenRefused
    OBVIOUS
  <2>1. DOMAIN history = {}
    BY DEF RateInit
  <2> QED BY <2>1 DEF SpentWhenRefused
<1>2. RateInv /\ SpentWhenRefused => RefusedOnlyWhenSpent
  BY SameWindows, Zenon DEF RateInv, SpentWhenRefused, RefusedOnlyWhenSpent
<1>3. RateSpec => []SpentWhenRefused
  BY <1>1, SpentNext, RateInvAlways, PTL DEF RateSpec
<1> QED BY <1>2, <1>3, RateInvAlways, PTL
=============================================================================
