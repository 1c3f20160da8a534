------------------------- MODULE MCTenantCredentials -------------------------
(* Three organisations and their documents, for TLC.                       *)
EXTENDS TenantCredentials

Plain(name) == [name |-> name, padded |-> FALSE]

Rotated(org, name, role, db) ==
    [org |-> org, id |-> Plain(name), mode |-> "rotated", conn |-> "none",
     replica |-> "none", useReplica |-> "absent", role |-> role, host |-> "pg", db |-> db,
     port |-> "absent", pool |-> "absent", enabled |-> "absent"]
Static(org, name, conn) ==
    [Rotated(org, name, "absent", "absent") EXCEPT !.mode = "static", !.conn = conn,
                                                   !.host = "absent"]

A == Rotated("a", "main", "ra", "sales")
B == Rotated("b", "main", "rb", "crm")

File(entries) == [source |-> "file", entries |-> entries]

(* Two databases with roles of their own; a tenant moves from rotation to  *)
(* SQLite; one loses its role name; rotation is switched off with false,   *)
(* and a port is no number; two tenants share a role, as in                *)
(* config/tenant_databases.json; two databases of a tenant share a role,   *)
(* and then one of them is not rotated; the file names of two tenants      *)
(* coincide; ids that differ in blanks; a pool of size zero, no database,  *)
(* no ://; an unknown mode, a padded id, a replica; duplicates; the modes  *)
(* that the legacy variable implies.                                       *)
Dev == [production |-> FALSE, readonlyRole |-> "unset", enforcing |-> FALSE]
Prod == [production |-> TRUE, readonlyRole |-> "bare", enforcing |-> TRUE]
Lax == [production |-> TRUE, readonlyRole |-> "unset", enforcing |-> FALSE]

Plan(docs, env) == [docs |-> docs, env |-> env]

MCPlans ==
    {Plan({File(<<A, Rotated("a", "other", "rb", "crm")>>)}, Prod),
     Plan({File(<<B>>), File(<<Static("b", "main", "sqlite")>>)}, Prod),
     Plan({File(<<A>>), File(<<[A EXCEPT !.role = "absent"]>>),
           File(<<[A EXCEPT !.role = ""]>>)}, Dev),
     Plan({File(<<[A EXCEPT !.enabled = "false"]>>), File(<<[A EXCEPT !.port = "word"]>>)}, Dev),
     Plan({File(<<A, Rotated("b", "main", "ra", "sales")>>)}, Prod),
     Plan({File(<<A, Rotated("a", "other", "ra", "crm")>>)}, Dev),
     Plan({File(<<A, [Rotated("a", "other", "ra", "crm") EXCEPT !.enabled = "no"]>>)}, Dev),
     Plan({File(<<Rotated("a", "main", "b_rb", "sales"),
                  Rotated("a_b", "main", "rb", "crm")>>)}, Prod),
     Plan({File(<<Static("b", "main", "pg"),
                  [Static("b", "main", "memory") EXCEPT !.id.padded = TRUE]>>)}, Dev),
     Plan({File(<<[A EXCEPT !.pool = "zero", !.enabled = "no"]>>), File(<<>>),
           File(<<Static("b", "main", "bare")>>)}, Prod),
     Plan({File(<<[A EXCEPT !.mode = "vault"]>>), File(<<[A EXCEPT !.mode = "absent"]>>),
           File(<<[A EXCEPT !.id.padded = TRUE],
                  [Static("b", "main", "pg") EXCEPT !.replica = "sqlite"]>>)}, Lax),
     Plan({[source |-> "list",
            entries |-> <<Static("b", "main", "sqlite"), Static("b", "main", "memory"),
                          [A EXCEPT !.mode = "absent", !.conn = "pg"]>>],
           [source |-> "list", entries |-> <<Static("b", "main", "blank")>>]}, Lax),
     Plan({[source |-> "nested",
            entries |-> <<[A EXCEPT !.mode = "absent"],
                          [Static("b", "main", "pg") EXCEPT !.pool = "word"]>>],
           [source |-> "nested",
            entries |-> <<[Static("b", "main", "pg") EXCEPT !.id.padded = TRUE]>>]}, Prod)}

SharedFilePlans == {Plan({File(<<A, Rotated("a", "other", "ra", "crm")>>)}, Dev)}
===============================================================================
