-------------------------- MODULE TenantCredentials --------------------------
(***************************************************************************)
(* Three processes around the tenant databases: the rotation sidecar       *)
(* (rotate_creds.sh --loop), the query API (TenantDatabaseResolver,        *)
(* TenantServiceProvider, setup_container and /readyz) and the operator    *)
(* who edits the configuration.  They share the credential files and the   *)
(* roles of PostgreSQL and nothing else.                                   *)
(*                                                                         *)
(* Inside rotate_tenant errexit is off (its caller tests its result), so a *)
(* failing psql, cat, chgrp, chmod or mv is passed over; only the password *)
(* generator's failure ends the script.  Faults and edits are bounded.     *)
(***************************************************************************)
EXTENDS TenantConfig

CONSTANTS
    Plans,         \* deployments: the documents (of one source) an operator moves
                   \* between, and [production, readonlyRole, enforcing] of the API
    Serials,       \* bound: a password is <<role name, serial>>
    MaxFaults, MaxEdits

EntriesOf(docs) == UNION {{d.entries[i] : i \in DOMAIN d.entries} : d \in docs}
Entries == EntriesOf(UNION {p.docs : p \in Plans})
Keys == {<<e.org, e.id.name>> : e \in Entries}
Ids == {e.id : e \in Entries}
Orgs == {e.org : e \in Entries}
Names == {Job(e).role : e \in Entries}
Hosts == {Job(e).target.host : e \in Entries}
Targets == {Job(e).target : e \in Entries}

(* ${CREDS_DIR}/${tenant_id}_${role_name}.json, in the script and in the   *)
(* loader: tenant "a" with role "b_ro" and tenant "a_b" with role "ro"     *)
(* have one file.                                                          *)
FileName(org, role) == org \o "_" \o role
FileOf(job) == FileName(job.org, job.role)
FileNames == {FileOf(Job(e)) : e \in Entries}

NoPass == <<"", 0>>
Passwords == {NoPass} \cup (Names \X Serials)
PgRoles == {<<e.host, e.role>> : e \in {x \in Entries : ~Missing(x.host) /\ ~Missing(x.role)}}

(* The keys of a JSON object are distinct, and so are those of the two     *)
(* levels of tenant_databases.json.                                        *)
ASSUME CredentialsAssumption ==
    /\ Serials \subseteq Nat /\ 0 \in Serials
    /\ MaxFaults \in Nat /\ MaxEdits \in Nat
    /\ Ids \subseteq [name : {id.name : id \in Ids}, padded : BOOLEAN]
    /\ \A p \in Plans : \A d \in p.docs :
          /\ d.entries \in Seq(EntriesOf({d}))
          /\ d.source = "file" => \A i, j \in DOMAIN d.entries :
                 d.entries[i].org = d.entries[j].org /\ d.entries[i].id = d.entries[j].id => i = j

VARIABLES
    plan,      \* the deployment
    doc,       \* the deployed document
    granted,   \* PostgreSQL: the password of each role
    file,      \* the credential files
    tmp,       \* the ${creds_file}.tmp files
    rot,       \* the sidecar
    suspect,   \* history: the Faults each file's last rotation met
    api,       \* the query API: is it up, the resolver's bindings
    engine,    \* TenantServiceProvider._containers
    faults, edits

vars == <<plan, doc, granted, file, tmp, rot, suspect, api, engine, faults, edits>>
rotVars == <<granted, file, tmp, rot, suspect>>
apiVars == <<api, engine>>
bounds == <<faults, edits>>
given == <<plan, doc>>

(* What can go wrong with a file: psql, mv or a crash left a step undone,  *)
(* the volume was full, chgrp or chmod failed.                             *)
Faults == {"skipped", "write", "chgrp"}

Nowhere == [host |-> "", db |-> ""]
Blank(state) == [state |-> state, user |-> "", pass |-> NoPass, target |-> Nowhere]
NoFile == Blank("none")
Torn == Blank("torn")
NoEngine == [url |-> "none", user |-> "", pass |-> NoPass, file |-> "", target |-> Nowhere]
NoJob == [org |-> "", role |-> "", target |-> Nowhere, port |-> TRUE]
Empty == [k \in Keys |-> NoEngine]

Init ==
    /\ plan \in Plans /\ doc \in plan.docs
    /\ granted = [r \in PgRoles |-> <<r[2], 0>>]
    /\ file = [f \in FileNames |-> NoFile]
    /\ tmp = file
    /\ rot = [pc |-> "down", todo |-> <<>>, job |-> NoJob, pass |-> NoPass, met |-> {}]
    /\ suspect = [f \in FileNames |-> {}]
    /\ api = [up |-> FALSE, bindings |-> <<>>, since |-> 0]
    /\ engine = Empty
    /\ faults = 0 /\ edits = 0

-----------------------------------------------------------------------------
(* The sidecar.                                                            *)

PgRoleOf(job) == <<job.target.host, job.role>>

(* Mutant: the loop of --loop is missing. *)
AwakeOnce == rot.pc = "down"

Awake == rot.pc \in {"down", "asleep"}

(* The script starts with a pass; in --loop mode one begins after each     *)
(* sleep.  Without a configuration file it exits.  The shell drops the     *)
(* blanks around an id when it splits the keys.                            *)
BeginPass ==
    /\ Awake
    /\ doc.source = "file"
    /\ rot' = [rot EXCEPT !.pc = "visiting",
                          !.todo = [i \in DOMAIN doc.entries |->
                                        <<doc.entries[i].org, Stripped(doc.entries[i].id)>>]]
    /\ UNCHANGED <<given, granted, file, tmp, suspect, apiVars, bounds>>

(* The members of an entry are read when its turn comes. *)
EntryNow(key) ==
    {doc.entries[i] : i \in {j \in DOMAIN doc.entries :
                                <<doc.entries[j].org, doc.entries[j].id>> = key}}

InUse == {granted[r] : r \in PgRoles} \cup {file[f].pass : f \in FileNames}
         \cup {tmp[f].pass : f \in FileNames} \cup {engine[k].pass : k \in Keys}

(* A random password is one that nobody holds; one stands for all of them. *)
Fresh(role) ==
    LET free == {n \in Serials : <<role, n>> \notin InUse}
    IN {<<role, n>> : n \in {m \in free : \A i \in free : m <= i}}

(* openssl rand; skipped entries and the end of the pass included *)
Visit ==
    /\ rot.pc = "visiting"
    /\ IF rot.todo = <<>>
       THEN rot' = [rot EXCEPT !.pc = "asleep"]
       ELSE LET due == {e \in EntryNow(Head(rot.todo)) : TakesPart(e)}
            IN IF due = {}
               THEN rot' = [rot EXCEPT !.todo = Tail(@)]
               ELSE \E e \in due : \E pass \in Fresh(Job(e).role) :
                        rot' = [pc |-> "altering", todo |-> Tail(rot.todo),
                                job |-> Job(e), pass |-> pass, met |-> {}]
    /\ UNCHANGED <<given, granted, file, tmp, suspect, apiVars, bounds>>

(* return 1, exit 1; the container starts the script again. *)
GenerateFails ==
    /\ rot.pc = "visiting" /\ rot.todo # <<>>
    /\ \E e \in EntryNow(Head(rot.todo)) : TakesPart(e)
    /\ faults < MaxFaults /\ faults' = faults + 1
    /\ rot' = [rot EXCEPT !.pc = "down"]
    /\ UNCHANGED <<given, granted, file, tmp, suspect, apiVars, edits>>

(* ALTER ROLE: the role exists and the server answers, or the error is     *)
(* passed over.                                                            *)
Alter ==
    /\ rot.pc = "altering"
    /\ LET known == rot.job.port /\ PgRoleOf(rot.job) \in PgRoles
       IN /\ granted' = IF known THEN [granted EXCEPT ![PgRoleOf(rot.job)] = rot.pass]
                                 ELSE granted
          /\ rot' = [rot EXCEPT !.pc = "writing", !.met = IF known THEN {} ELSE {"skipped"}]
    /\ UNCHANGED <<given, file, tmp, suspect, apiVars, bounds>>

AlterFails ==
    /\ rot.pc = "altering"
    /\ faults < MaxFaults /\ faults' = faults + 1
    /\ rot' = [rot EXCEPT !.pc = "writing", !.met = {"skipped"}]
    /\ UNCHANGED <<given, granted, file, tmp, suspect, apiVars, edits>>

(* A port that is no number is no JSON. *)
Contents(job, pass) ==
    IF job.port THEN [state |-> "whole", user |-> job.role, pass |-> pass, target |-> job.target]
                ELSE Torn

(* Mutant: cat writes the visible file, and mv has nothing to do. *)
OpenVisible ==
    /\ rot.pc = "writing"
    /\ file' = [file EXCEPT ![FileOf(rot.job)] = Torn]
    /\ tmp' = [tmp EXCEPT ![FileOf(rot.job)] = Torn]
    /\ rot' = [rot EXCEPT !.pc = "filling"]
    /\ UNCHANGED <<given, granted, suspect, apiVars, bounds>>

(* cat > tmp truncates the file first ... *)
OpenTmp ==
    /\ rot.pc = "writing"
    /\ tmp' = [tmp EXCEPT ![FileOf(rot.job)] = Torn]
    /\ rot' = [rot EXCEPT !.pc = "filling"]
    /\ UNCHANGED <<given, granted, file, suspect, apiVars, bounds>>

(* ... fills it, unless the volume is full, and opens it to the group of   *)
(* the API, unless chgrp or chmod fails: the umask keeps it private.  The  *)
(* script goes on.                                                         *)
FillTmp ==
    /\ rot.pc = "filling"
    /\ \/ /\ tmp' = [tmp EXCEPT ![FileOf(rot.job)] = Contents(rot.job, rot.pass)]
          /\ rot' = [rot EXCEPT !.pc = "moving",
                                !.met = IF rot.job.port THEN @ ELSE @ \cup {"write"}]
          /\ UNCHANGED faults
       \/ /\ faults < MaxFaults /\ faults' = faults + 1
          /\ rot' = [rot EXCEPT !.pc = "moving", !.met = @ \cup {"write"}]
          /\ UNCHANGED tmp
       \/ /\ faults < MaxFaults /\ faults' = faults + 1
          /\ tmp' = [tmp EXCEPT ![FileOf(rot.job)] =
                         [Contents(rot.job, rot.pass) EXCEPT !.state = "private"]]
          /\ rot' = [rot EXCEPT !.pc = "moving", !.met = @ \cup {"chgrp"}]
    /\ UNCHANGED <<given, granted, file, suspect, apiVars, edits>>

(* mv replaces the visible file in one step, or fails: what was there      *)
(* stays, with the temporary file beside it.                               *)
Move ==
    /\ rot.pc = "moving"
    /\ \/ /\ file' = [file EXCEPT ![FileOf(rot.job)] = tmp[FileOf(rot.job)]]
          /\ tmp' = [tmp EXCEPT ![FileOf(rot.job)] = NoFile]
          /\ suspect' = [suspect EXCEPT ![FileOf(rot.job)] = rot.met]
          /\ UNCHANGED faults
       \/ /\ faults < MaxFaults /\ faults' = faults + 1
          /\ suspect' = [suspect EXCEPT ![FileOf(rot.job)] = @ \cup rot.met \cup {"skipped"}]
          /\ UNCHANGED <<file, tmp>>
    /\ rot' = [rot EXCEPT !.pc = "visiting", !.job = NoJob, !.pass = NoPass, !.met = {}]
    /\ UNCHANGED <<given, granted, apiVars, edits>>

(* The container is killed; restart: unless-stopped brings it back. *)
RotatorCrash ==
    /\ rot.pc \notin {"down", "asleep"}
    /\ faults < MaxFaults /\ faults' = faults + 1
    /\ suspect' = IF rot.pc \in {"writing", "filling", "moving"}
                  THEN [suspect EXCEPT ![FileOf(rot.job)] = @ \cup {"skipped"}] ELSE suspect
    /\ rot' = [rot EXCEPT !.pc = "down", !.job = NoJob, !.pass = NoPass, !.met = {}]
    /\ UNCHANGED <<given, granted, file, tmp, apiVars, edits>>

-----------------------------------------------------------------------------
(* The query API.                                                          *)

(* The controller is imported: the document must load. *)
StartApi ==
    /\ ~api.up /\ Loads(doc)
    /\ api' = [up |-> TRUE, bindings |-> Bindings(doc), since |-> edits]
    /\ engine' = Empty
    /\ UNCHANGED <<given, rotVars, bounds>>

StopApi ==
    /\ api.up
    /\ api' = [up |-> FALSE, bindings |-> <<>>, since |-> api.since]
    /\ engine' = Empty
    /\ UNCHANGED <<given, rotVars, bounds>>

(* TenantServiceProvider.close, for short-lived callers *)
Close ==
    /\ api.up /\ engine # Empty
    /\ engine' = Empty
    /\ UNCHANGED <<given, rotVars, api, bounds>>

(* Mutant: the file is found by the tenant alone. *)
CredentialsOfTenant(b) ==
    LET own == {FileName(b.org, role) : role \in Names} \cap FileNames
    IN file[CHOOSE f \in own : file[f].state # "none" \/ \A g \in own : file[g] = NoFile]

(* RotatedCredentialLoader, built anew for every call; the tenant_id and   *)
(* role_name in the file are read and not compared.                        *)
Credentials(b) == file[FileName(b.org, b.role)]

(* enforce_readonly_role_guardrail *)
Guarded == ~plan.env.production \/ plan.env.readonlyRole = "bare"

(* effective_connection_string and the checks of setup_container *)
Buildable(b) ==
    IF b.mode = "rotated"
    THEN Credentials(b).state = "whole" /\ Guarded /\ b.pool # "zero"
    ELSE CASE StaticUrl(b) = "pg" -> Guarded /\ b.pool # "zero"
           [] StaticUrl(b) \in {"sqlite", "sqlite_ro", "memory"} -> TRUE
           [] OTHER -> FALSE

(* User, password, host and database are the file's; a file of SQLite is   *)
(* opened with mode=ro.                                                    *)
Built(b) ==
    IF b.mode = "rotated"
    THEN [url |-> "pg", user |-> Credentials(b).user, pass |-> Credentials(b).pass,
          file |-> FileName(b.org, b.role), target |-> Credentials(b).target]
    ELSE [NoEngine EXCEPT !.url = IF StaticUrl(b) = "sqlite" THEN "sqlite_ro"
                                                             ELSE StaticUrl(b)]

(* Mutant: one container for all the databases of an organisation. *)
CacheKeyOrg(b) == CHOOSE k \in Keys : k[1] = b.org

(* cache_key *)
CacheKey(b) == <<b.org, b.id.name>>

(* _request_context with TenantServiceProvider.resolve.  A request that    *)
(* cannot be resolved, or whose engine cannot be built, changes nothing.   *)
RequestContext(org, id) ==
    /\ api.up /\ Resolves(api.bindings, org, id)
    /\ LET b == Resolved(api.bindings, org, id)
       IN /\ engine[CacheKey(b)] = NoEngine
          /\ Buildable(b)
          /\ engine' = [engine EXCEPT ![CacheKey(b)] = Built(b)]
    /\ UNCHANGED <<given, rotVars, api, bounds>>

(* Can the engine open a connection?  (Those in its pool stay open until   *)
(* pool_recycle whatever happens to the password.)                         *)
Accepted(g) ==
    LET role == <<g.target.host, g.user>>
    IN g.user = "" \/ (role \in PgRoles /\ g.pass = granted[role])

(* _policy_enforcement_problem *)
PolicyProblem == plan.env.production /\ ~plan.env.enforcing

(* GET /readyz reads the document again and changes nothing. *)
Ready == Loads(doc) /\ ~PolicyProblem

-----------------------------------------------------------------------------
EditDocument ==
    /\ edits < MaxEdits /\ edits' = edits + 1
    /\ doc' \in plan.docs \ {doc}
    /\ UNCHANGED <<plan, rotVars, apiVars, faults>>

Rotator == BeginPass \/ Visit \/ Alter \/ OpenTmp \/ FillTmp \/ Move

Next ==
    \/ Rotator
    \/ GenerateFails \/ AlterFails \/ RotatorCrash
    \/ StartApi \/ StopApi \/ Close
    \/ \E org \in Orgs, id \in Ids :
          <<org, id.name>> \in Keys /\ RequestContext(org, id)
    \/ EditDocument

Spec == Init /\ [][Next]_vars

(* The script is a process of its own that the container runtime restarts. *)
FairSpec == Spec /\ WF_vars(Rotator)

-----------------------------------------------------------------------------
(* Correctness.                                                            *)

TypeOK ==
    /\ plan \in Plans /\ doc \in plan.docs
    /\ granted \in [PgRoles -> Passwords]
    /\ \A f \in FileNames : {file[f], tmp[f]} \subseteq
          [state : {"none", "torn", "private", "whole"}, user : Names \cup {""},
           pass : Passwords, target : Targets \cup {Nowhere}]
    /\ rot.pc \in {"down", "asleep", "visiting", "altering", "writing", "filling", "moving"}
    /\ rot.pass \in Passwords
    /\ (rot.pc \in {"altering", "writing", "filling", "moving"}) = (rot.pass # NoPass)
    /\ suspect \in [FileNames -> SUBSET Faults]
    /\ api.up \in BOOLEAN /\ api.since \in 0 .. edits
    /\ \A k \in Keys : engine[k].pass \in Passwords
    /\ faults \in 0 .. MaxFaults /\ edits \in 0 .. MaxEdits

(* The entries the script finds and rotates. *)
Rotates(e) == TakesPart(e) /\ ~e.id.padded

Jobs == {Job(e) : e \in {x \in EntriesOf(plan.docs) : Rotates(x)}}

(* No other entry rotates the same role or writes the same file. *)
Sole(job) ==
    \A j \in Jobs : FileOf(j) = FileOf(job) \/ PgRoleOf(j) = PgRoleOf(job) => j = job

(* Between ALTER ROLE and mv the role is ahead of the file. *)
UnderWay(f) == rot.pc \in {"writing", "filling", "moving"} /\ FileOf(rot.job) = f

InStep(job) ==
    /\ file[FileOf(job)].state = "whole"
    /\ PgRoleOf(job) \in PgRoles
    /\ file[FileOf(job)].pass = granted[PgRoleOf(job)]

(* The credential file of a role that one entry rotates is whole and holds *)
(* the password PostgreSQL has, except between ALTER ROLE and mv and after *)
(* a rotation that met a failing psql, chgrp or mv, a full volume or a     *)
(* crash; it is torn only after a full volume or for a port that is no     *)
(* number, and closed to the API only after a failing chgrp or chmod: the  *)
(* temporary file of a crashed pass never shows through.                   *)
MismatchExplained ==
    \A j \in Jobs :
        LET f == FileOf(j)
        IN /\ Sole(j) /\ file[f].state # "none" /\ ~InStep(j)
                  => suspect[f] # {} \/ UnderWay(f)
           /\ file[f].state = "torn" => "write" \in suspect[f]
           /\ file[f].state = "private" => "chgrp" \in suspect[f]

(* PostgreSQL refuses a tenant's service only because its engine, cached   *)
(* since before the last rotation, has an earlier password of its role (a  *)
(* restart heals it: the file is newer), or because the file itself is out of step *)
(* for one of the reasons above.                                           *)
RefusalExplained ==
    \A k \in Keys :
        engine[k] # NoEngine /\ ~Accepted(engine[k]) =>
            LET f == engine[k].file
            IN \/ engine[k].pass[1] = engine[k].user /\ engine[k].pass # file[f].pass
               \/ suspect[f] # {} \/ UnderWay(f)
               \/ \E j \in Jobs : FileOf(j) = f /\ ~Sole(j)

BindingOf(k) == Resolved(api.bindings, k[1], [name |-> k[2], padded |-> FALSE])

(* The service of a logical database is connected to the host and database *)
(* that its entry names.                                                   *)
EngineBoundToItsDatabase ==
    \A k \in Keys : engine[k].user # "" => engine[k].target = BindingOf(k).target

(* Two entries that mean different roles or databases share a credential   *)
(* file: entries of one tenant with one role name, or entries of two       *)
(* tenants whose concatenated names are equal.                             *)
Shared(f) ==
    \E d, e \in EntriesOf(plan.docs) :
        /\ FileOf(Job(d)) = f /\ FileOf(Job(e)) = f
        /\ Job(d).target # Job(e).target \/ Job(d).role # Job(e).role

(* A service is connected to the host and database of its entry, as the    *)
(* role of its entry, unless the credential file is shared.                *)
BoundUnlessFileShared ==
    \A k \in Keys :
        engine[k].user # "" =>
            \/ engine[k].target = BindingOf(k).target /\ engine[k].user = BindingOf(k).role
            \/ Shared(engine[k].file)

(* Whatever the sequence of edits, restarts and cached services, there is  *)
(* an engine only for a key with one entry in the running configuration, a *)
(* file of SQLite is open read-only, and in production PostgreSQL is not   *)
(* reached without a well-formed read-only role.                           *)
FailsClosed ==
    \A k \in Keys :
        engine[k] # NoEngine =>
            /\ Cardinality(Matches(api.bindings, k[1], [name |-> k[2], padded |-> FALSE])) = 1
            /\ engine[k].url # "sqlite"
            /\ plan.env.production /\ engine[k].url = "pg" => plan.env.readonlyRole = "bare"

(* A process that has started is drained (503 from /readyz) only when its  *)
(* document was edited after the start, or its policy layer is disabled in *)
(* production: starting and readiness accept the same documents.           *)
ReadinessTracksDocument ==
    api.up /\ ~Ready => PolicyProblem \/ edits > api.since

(* A tenant_databases.json the validator finds valid, with numbers for its *)
(* ports and no empty tenant id (it looks at neither), starts the API, and *)
(* every database in it can be resolved.                                   *)
ValidatedServes ==
    LET all == {doc.entries[i] : i \in DOMAIN doc.entries}
    IN doc.source = "file" /\ Validates(doc) /\ (\A e \in all : e.port # "word" /\ e.org # "")
          => Loads(doc) /\ \A e \in all : Resolves(Bindings(doc), e.org, e.id)

(* Once faults and edits are over, the loop brings every file that one     *)
(* entry writes back in step with its role, again and again.               *)
RotationRepairs ==
    \A j \in UNION {{Job(e) : e \in {x \in EntriesOf(p.docs) : Rotates(x)}} : p \in Plans} :
        <>[](\E i \in DOMAIN doc.entries : /\ Rotates(doc.entries[i])
                                          /\ Job(doc.entries[i]) = j
                                          /\ PgRoleOf(j) \in PgRoles /\ j.port /\ Sole(j)
                                          /\ doc.source = "file")
            => []<>InStep(j)

(* rotate_creds.sh: a credential file that disagrees with PostgreSQL is    *)
(* explained by a pass under way or by a fault, in well-typed states.      *)
FilesFollowRoles == TypeOK /\ MismatchExplained

(* tenant_service_provider.py, tenant_database_resolver.py:163: a cached   *)
(* service is connected to its own database and is refused there only for  *)
(* a reason the rotation explains.                                         *)
ServicesBound == BoundUnlessFileShared /\ RefusalExplained

(* The validator, the resolver and the readiness probe read one document   *)
(* with rules of their own and still agree: what is valid serves, what     *)
(* serves is ready, and what is ambiguous is not served.                   *)
ReadersAgree == FailsClosed /\ ReadinessTracksDocument /\ ValidatedServes
===============================================================================
