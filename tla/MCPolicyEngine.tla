--------------------------- MODULE MCPolicyEngine ---------------------------
EXTENDS PolicyEngine

CONSTANTS absent, null

MCLower(x) ==
    CASE x = "Album" -> "album" [] x = "Id" -> "id" [] x = "Viewer" -> "viewer"
      [] x = "Deny" -> "deny" [] x = null -> "none" [] OTHER -> x

Document(effect, org, roles, table, columns, masked, row) ==
    [effect |-> effect, org_id |-> org, organisation_id |-> absent,
     principal_id |-> absent, user_id |-> absent, roles |-> roles,
     database_id |-> absent, table |-> table, columns |-> columns,
     masked_columns |-> masked, row_scope |-> row, action |-> absent, actions |-> absent]

DenyDocuments ==
    {Document("deny", o, r, t, absent, absent, absent) :
        o \in {absent, "acme"}, r \in {absent, {"viewer"}}, t \in {absent, "album", "artist"}}

AllowDocuments ==
    {[Document("allow", "acme", {"viewer"}, t, c, m, s) EXCEPT !.database_id = "default"] :
        t \in {"album", "artist"}, c \in {absent, {"id"}}, m \in {absent, {"name"}},
        s \in {absent, {<<"id", "region">>}, {<<"id", "team">>}}}

(* Documents the two readers take differently: a null or empty field, a    *)
(* second name, another case, an effect that is missing or unknown.        *)
OddDocuments ==
    LET allow == Document("allow", absent, absent, "album", absent, absent, absent)
        deny  == Document("deny", absent, absent, "album", absent, absent, absent)
        listed == Document("allow", absent, absent, "album", {"Id"}, {"name"}, null) IN
    UNION {{[d EXCEPT !.org_id = null], [d EXCEPT !.organisation_id = "zeta"],
            [d EXCEPT !.principal_id = ""], [d EXCEPT !.user_id = "bo"],
            [d EXCEPT !.roles = {}], [d EXCEPT !.roles = null], [d EXCEPT !.roles = {"Viewer"}],
            [d EXCEPT !.database_id = null], [d EXCEPT !.table = null],
            [d EXCEPT !.table = "Album"], [d EXCEPT !.action = ""],
            [d EXCEPT !.actions = "insert"]} : d \in {allow, deny}}
        \cup {listed, [listed EXCEPT !.columns = {"id"}, !.roles = {}], [allow EXCEPT !.effect = absent],
              [allow EXCEPT !.effect = "permit"], [deny EXCEPT !.effect = "Deny"]}

(* Documents that must never apply: another action, user or database,  *)
(* and an allow without a table.                                           *)
OtherDocuments ==
    LET allow == Document("allow", absent, absent, "album", absent, absent, absent) IN
    {[allow EXCEPT !.action = "insert"], [allow EXCEPT !.principal_id = "dee"],
     [allow EXCEPT !.database_id = "archive"], [allow EXCEPT !.table = absent]}

MCDocuments == DenyDocuments \cup AllowDocuments \cup OddDocuments \cup OtherDocuments

MCPrincipals ==
    {[org |-> "acme", user |-> "ana", roles |-> {"viewer"}, attributes |-> {"region"}],
     [org |-> "acme", user |-> "bo", roles |-> {"admin"}, attributes |-> {"region", "team"}],
     [org |-> "zeta", user |-> "cy", roles |-> {}, attributes |-> {}]}
=============================================================================
