----------------------------- MODULE TenantConfig -----------------------------
(***************************************************************************)
(* The tenant database configuration as its three readers understand it:   *)
(* TenantDatabaseResolver (the query API), validate_tenant_config.py (a    *)
(* tool of the operator) and rotate_creds.sh (the sidecar).                *)
(*                                                                         *)
(* A document is [source, entries]: source is "file" for                   *)
(* tenant_databases.json, "list" and "nested" for the two shapes of        *)
(* TENANT_DATABASES_JSON.  An entry describes one logical database:        *)
(*   org, id     its key; id is [name, padded], padded by white space      *)
(*   mode        credential_mode, or "absent"                              *)
(*   conn, replica   "none", "blank", "bare" (without ://), "pg",          *)
(*               "sqlite", "sqlite_ro" or "memory"                         *)
(*   useReplica  "absent", "true" or "false"                               *)
(*   role, host, db  a name, "" or "absent"                                *)
(*   port, pool  "absent", "number", "word"; a pool may also be "zero"     *)
(*   enabled     rotation.enabled: "absent", "true", "false" or another    *)
(* Schema names, and blanks around values other than ids, are left out.    *)
(***************************************************************************)
EXTENDS Integers, Sequences, FiniteSets

CONSTANT ValidNames    \* the names that match _DATABASE_ID_PATTERN

Missing(value) == value \in {"", "absent"}

Stripped(id) == [id EXCEPT !.padded = FALSE]

-----------------------------------------------------------------------------
(* TenantDatabaseResolver                                                  *)

(* The mode of an entry that does not name one depends on its document. *)
ModeOf(source, e) ==
    CASE e.mode # "absent" -> e.mode
      [] source = "nested" /\ e.conn = "none" /\ e.role # "absent" -> "rotated"
      [] OTHER -> "static"

(* Only TENANT_DATABASES_JSON is stripped before it is looked at. *)
Given(source, conn) == conn # "none" /\ (source = "file" \/ conn # "blank")

(* _parse_config, _parse_bindings: is one entry accepted? *)
Parses(source, e) ==
    /\ e.pool # "word"
    /\ CASE ModeOf(source, e) = "static"  -> Given(source, e.conn)
         [] ModeOf(source, e) = "rotated" ->
                ~Missing(e.role) /\ ~Missing(e.host) /\ ~Missing(e.db) /\ e.port # "word"
         [] OTHER -> FALSE

(* TenantDatabaseConfig *)
Binding(source, e) ==
    LET rep == IF Given(source, e.replica) THEN e.replica ELSE "none"
    IN [org        |-> e.org,
        id         |-> IF source = "file" THEN e.id ELSE Stripped(e.id),
        mode       |-> ModeOf(source, e),
        conn       |-> e.conn,
        replica    |-> rep,
        useReplica |-> IF e.useReplica = "absent" THEN rep # "none"
                                                  ELSE e.useReplica = "true",
        role       |-> e.role,
        target     |-> [host |-> e.host, db |-> e.db],
        pool       |-> e.pool]

(* from_environment: the document loads as a whole or not at all. *)
Loads(doc) ==
    /\ doc.entries # <<>>
    /\ \A i \in DOMAIN doc.entries : Parses(doc.source, doc.entries[i])

Bindings(doc) == [i \in DOMAIN doc.entries |-> Binding(doc.source, doc.entries[i])]

(* effective_connection_string, effective_target in static mode *)
OnReplica(b) == b.useReplica /\ b.replica # "none"
StaticUrl(b) == IF OnReplica(b) THEN b.replica ELSE b.conn

(* self._bindings.get((org_id, database_id)) *)
Matches(bindings, org, id) ==
    {i \in DOMAIN bindings : bindings[i].org = org /\ bindings[i].id = Stripped(id)}

(* Mutant: the first of several matches wins. *)
ResolvesFirst(bindings, org, id) ==
    /\ org # "" /\ id.name \in ValidNames
    /\ Matches(bindings, org, id) # {}

(* TenantDatabaseResolver.resolve *)
Resolves(bindings, org, id) ==
    /\ org # "" /\ id.name \in ValidNames
    /\ Cardinality(Matches(bindings, org, id)) = 1

Resolved(bindings, org, id) ==
    bindings[CHOOSE i \in Matches(bindings, org, id) : TRUE]

-----------------------------------------------------------------------------
(* validate_tenant_config.py, for a tenant_databases.json                  *)

ValidatesEntry(e) ==
    /\ e.id.name \in ValidNames /\ ~e.id.padded
    /\ CASE e.mode \in {"absent", "static"} -> e.conn \notin {"none", "blank", "bare"}
         [] e.mode = "rotated" -> ~Missing(e.role) /\ ~Missing(e.host) /\ ~Missing(e.db)
         [] OTHER -> FALSE
    /\ e.pool # "word"

Validates(doc) ==
    /\ doc.entries # <<>>
    /\ \A i \in DOMAIN doc.entries : ValidatesEntry(doc.entries[i])

-----------------------------------------------------------------------------
(* rotate_creds.sh                                                         *)

(* jq -r prints null for an absent member. *)
JqRaw(value) == IF value = "absent" THEN "null" ELSE value

(* jq's alternative operator: false counts as absent. *)
JqOr(value, default) == IF value \in {"absent", "false"} THEN default ELSE value

(* main: which entries are rotated? *)
TakesPart(e) ==
    /\ JqOr(e.mode, "static") = "rotated"
    /\ JqOr(e.enabled, "true") = "true"
    /\ JqRaw(e.role) # "" /\ JqRaw(e.host) # "" /\ JqRaw(e.db) # ""

Job(e) == [org |-> e.org, role |-> JqRaw(e.role),
           target |-> [host |-> JqRaw(e.host), db |-> JqRaw(e.db)],
           port |-> e.port # "word"]
===============================================================================
