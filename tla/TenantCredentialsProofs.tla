----------------------- MODULE TenantCredentialsProofs -----------------------
(***************************************************************************)
(* Proofs about TenantCredentials for every set of deployments, every      *)
(* number of faults and edits and every bound on the passwords.            *)
(***************************************************************************)
EXTENDS TenantCredentials, FiniteSetTheorems, TLAPS

Busy == {"altering", "writing", "filling", "moving"}
Late == {"writing", "filling", "moving"}

CredFile == [state : {"none", "torn", "private", "whole"}, user : Names \cup {""},
             pass : Passwords, target : Targets \cup {Nowhere}]

Engine == [url : {"none", "pg", "sqlite_ro", "memory"}, user : Names \cup {""},
           pass : Passwords, file : FileNames \cup {""}, target : Targets \cup {Nowhere}]

(* The keys a pass visits. *)
Todo == Orgs \X {Stripped(id) : id \in Ids}

RotTyped ==
    /\ rot = [pc |-> rot.pc, todo |-> rot.todo, job |-> rot.job, pass |-> rot.pass, met |-> rot.met]
    /\ rot.pc \in {"down", "asleep", "visiting"} \cup Busy
    /\ rot.todo \in Seq(Todo) /\ rot.met \subseteq Faults
    /\ rot.pc \in Busy => /\ rot.job \in Jobs
                          /\ rot.pass \in Passwords /\ rot.pass # NoPass
                          /\ rot.pass[1] = rot.job.role
    /\ rot.pc \notin Busy => rot.pass = NoPass

Typed ==
    /\ plan \in Plans /\ doc \in plan.docs
    /\ granted \in [PgRoles -> Passwords]
    /\ file \in [FileNames -> CredFile] /\ tmp \in [FileNames -> CredFile]
    /\ suspect \in [FileNames -> SUBSET Faults]
    /\ api.up \in BOOLEAN /\ api.since \in 0 .. edits
    /\ engine \in [Keys -> Engine]
    /\ faults \in 0 .. MaxFaults /\ edits \in 0 .. MaxEdits
    /\ RotTyped

(* A temporary file that mv may show. *)
Prepared(t, job, pass, met) ==
    \/ t.state = "torn" /\ "write" \in met
    \/ t.state = "private" /\ "chgrp" \in met
    \/ t.state = "whole" /\ t.user = job.role /\ t.pass = pass /\ t.target = job.target

(* What rotate_tenant has done so far for the job in hand. *)
Midway ==
    /\ rot.pc \in Late /\ "skipped" \notin rot.met =>
          PgRoleOf(rot.job) \in PgRoles /\ granted[PgRoleOf(rot.job)] = rot.pass
    /\ rot.pc = "filling" => tmp[FileOf(rot.job)] = Torn
    /\ rot.pc = "moving" =>
          Prepared(tmp[FileOf(rot.job)], rot.job, rot.pass, rot.met)

(* A whole file was written by a job of its name, with a password of the   *)
(* job's role; a torn one is owed to a failing write, a private one to a   *)
(* failing chgrp or chmod.                                                 *)
FileWritten(f) ==
    /\ file[f].state = "whole" =>
          /\ file[f].pass[1] = file[f].user
          /\ \E j \in Jobs : FileOf(j) = f /\ j.target = file[f].target /\ j.role = file[f].user
    /\ file[f].state = "torn" => "write" \in suspect[f]
    /\ file[f].state = "private" => "chgrp" \in suspect[f]

FilesWritten == \A f \in FileNames : FileWritten(f)

(* The files of the roles that one job rotates. *)
FollowsRole(j) ==
    Sole(j) /\ file[FileOf(j)].state # "none" /\ ~InStep(j)
        => suspect[FileOf(j)] # {} \/ UnderWay(FileOf(j))

FilesFollow == \A j \in Jobs : FollowsRole(j)

(* The running API has the bindings of a document that loaded, and that    *)
(* one is still deployed if nothing was edited since.                      *)
ApiSound ==
    /\ api.up => \E d \in plan.docs : Loads(d) /\ api.bindings = Bindings(d)
    /\ api.up => Loads(doc) \/ edits > api.since

(* An engine made from a credential file has what the file had: the role,  *)
(* a password of it and the database of a job that writes it; and the      *)
(* entry it is for reads that file.                                        *)
Same(job, target, role) == job.target = target /\ job.role = role

EngineSound(k) ==
    /\ engine[k] # NoEngine =>
          /\ Cardinality(Matches(api.bindings, k[1], [name |-> k[2], padded |-> FALSE])) = 1
          /\ plan.env.production /\ engine[k].url = "pg" => plan.env.readonlyRole = "bare"
    /\ engine[k].user # "" =>
          /\ engine[k].file \in FileNames /\ file[engine[k].file].state # "none"
          /\ engine[k].pass[1] = engine[k].user
          /\ \E j \in Jobs : FileOf(j) = engine[k].file /\ Same(j, engine[k].target, engine[k].user)
          /\ \E e \in EntriesOf(plan.docs) :
                FileOf(Job(e)) = engine[k].file /\ Same(Job(e), BindingOf(k).target, BindingOf(k).role)

EnginesSound == \A k \in Keys : EngineSound(k)

Sound == Typed /\ Midway /\ FilesWritten /\ FilesFollow /\ ApiSound /\ EnginesSound

-----------------------------------------------------------------------------
(* The configuration.                                                      *)

(* What the sidecar makes of an entry of the document.                     *)
LEMMA EntryFacts ==
    ASSUME plan \in Plans, NEW e \in EntriesOf(plan.docs)
    PROVE  /\ e \in Entries
           /\ FileOf(Job(e)) \in FileNames /\ Job(e).target \in Targets
           /\ FileOf(Job(e)) = FileName(e.org, JqRaw(e.role))
           /\ Job(e).role = JqRaw(e.role)
           /\ Job(e).target = [host |-> JqRaw(e.host), db |-> JqRaw(e.db)]
           /\ <<e.org, e.id.name>> \in Keys
<1>1. e \in Entries
  BY DEF Entries, EntriesOf
<1>2. /\ Job(e).org = e.org /\ Job(e).role = JqRaw(e.role)
      /\ Job(e).target = [host |-> JqRaw(e.host), db |-> JqRaw(e.db)]
  BY DEF Job
<1>3. e.org \in Orgs /\ Job(e).role \in Names /\ Job(e).target \in Targets
      /\ <<e.org, e.id.name>> \in Keys
  BY <1>1 DEF Orgs, Names, Targets, Keys
<1>4. FileOf(Job(e)) \in FileNames
  BY <1>1 DEF FileNames
<1> QED BY <1>1, <1>2, <1>3, <1>4 DEF FileOf

(* A rotated entry has a role and a file.                                  *)
LEMMA JobFacts ==
    ASSUME plan \in Plans, NEW j \in Jobs
    PROVE  /\ FileOf(j) \in FileNames /\ j.target \in Targets
           /\ j.role \in Names /\ j.role # ""
<1>1. PICK e \in EntriesOf(plan.docs) : TakesPart(e) /\ j = Job(e)
  BY DEF Jobs, Rotates
<1>2. j.role = JqRaw(e.role) /\ FileOf(j) \in FileNames /\ j.target \in Targets
  BY <1>1, EntryFacts
<1>3. j.role \in Names
  BY <1>1, EntryFacts DEF Names
<1>4. j.role # ""
  BY <1>1, <1>2 DEF TakesPart
<1> QED BY <1>2, <1>3, <1>4

(* An id without the blanks around it.                                     *)
LEMMA StrippedFacts ==
    ASSUME NEW id \in Ids
    PROVE  /\ Stripped(id) = [name |-> id.name, padded |-> FALSE]
           /\ ~Stripped(id).padded /\ Stripped(id).name = id.name
<1>1. PICK N : id \in [name : N, padded : BOOLEAN]
  BY CredentialsAssumption
<1>2. PICK r : r = [id EXCEPT !.padded = FALSE]
  OBVIOUS
<1>3. r \in [name : N, padded : BOOLEAN] /\ r.name = id.name /\ r.padded = FALSE
  BY <1>1, <1>2
<1>4. r = [name |-> id.name, padded |-> FALSE]
  BY <1>3
<1> QED BY <1>2, <1>3, <1>4 DEF Stripped

(* The deployed document is one of the plan.                               *)
LEMMA DeployedEntries ==
    ASSUME plan \in Plans, doc \in plan.docs
    PROVE  \A i \in DOMAIN doc.entries : doc.entries[i] \in Entries
<1> SUFFICES ASSUME NEW i \in DOMAIN doc.entries PROVE doc.entries[i] \in Entries
  OBVIOUS
<1> QED BY DEF Entries, EntriesOf

(* A pass visits the entries of the document.                              *)
LEMMA TodoTyped ==
    ASSUME plan \in Plans, doc \in plan.docs
    PROVE  [i \in DOMAIN doc.entries |-> <<doc.entries[i].org, Stripped(doc.entries[i].id)>>]
               \in Seq(Todo)
<1>1. doc.entries \in Seq(EntriesOf({doc}))
  BY CredentialsAssumption
<1>2. PICK n \in Nat : DOMAIN doc.entries = 1..n
  BY <1>1
<1>3. \A i \in 1..n : <<doc.entries[i].org, Stripped(doc.entries[i].id)>> \in Todo
  <2> SUFFICES ASSUME NEW i \in DOMAIN doc.entries
               PROVE  <<doc.entries[i].org, Stripped(doc.entries[i].id)>> \in Todo
    BY <1>2
  <2>1. doc.entries[i] \in Entries
    BY DeployedEntries
  <2> QED BY <2>1 DEF Todo, Orgs, Ids
<1>4. [i \in 1..n |-> <<doc.entries[i].org, Stripped(doc.entries[i].id)>>] \in [1..n -> Todo]
  BY <1>3
<1> QED BY <1>2, <1>4

(* What nobody has written yet. *)
LEMMA BlankFacts ==
    /\ NoPass \in Passwords /\ NoPass[1] = ""
    /\ NoFile \in CredFile /\ NoFile.state = "none"
    /\ Torn \in CredFile /\ Torn.state = "torn"
    /\ NoEngine \in Engine /\ NoEngine.user = "" /\ NoEngine.url = "none"
<1>1. NoPass \in Passwords /\ NoPass[1] = ""
  BY DEF NoPass, Passwords
<1>2. NoFile \in CredFile /\ NoFile.state = "none"
  BY <1>1 DEF NoFile, Blank, CredFile
<1>3. Torn \in CredFile /\ Torn.state = "torn"
  BY <1>1 DEF Torn, Blank, CredFile
<1>4. NoEngine \in Engine /\ NoEngine.user = "" /\ NoEngine.url = "none"
  BY <1>1 DEF NoEngine, Engine
<1> QED BY <1>1, <1>2, <1>3, <1>4

(* A provider that has built nothing.                                      *)
LEMMA EmptySound ==
    /\ Empty \in [Keys -> Engine]
    /\ \A k \in Keys : Empty[k] = NoEngine
BY BlankFacts DEF Empty

(* The password a role is created with.                                    *)
LEMMA PgRoleNames ==
    ASSUME NEW r \in PgRoles
    PROVE  <<r[2], 0>> \in Passwords
<1>1. PICK e \in Entries : ~Missing(e.role) /\ r = <<e.host, e.role>>
  BY DEF PgRoles
<1>2. Job(e).role = e.role
  BY <1>1 DEF Job, JqRaw, Missing
<1>3. e.role \in Names
  BY <1>2 DEF Names
<1> QED BY <1>1, <1>3, CredentialsAssumption DEF Passwords

(* No file is written, no process has started.                             *)
LEMMA InitSound == Init => Sound
<1> SUFFICES ASSUME Init PROVE Sound
  OBVIOUS
<1>1. /\ plan \in Plans /\ doc \in plan.docs /\ granted = [r \in PgRoles |-> <<r[2], 0>>]
      /\ file = [f \in FileNames |-> NoFile] /\ tmp = file
      /\ rot = [pc |-> "down", todo |-> <<>>, job |-> NoJob, pass |-> NoPass, met |-> {}]
      /\ suspect = [f \in FileNames |-> {}] /\ engine = Empty /\ faults = 0 /\ edits = 0
      /\ api.up = FALSE /\ api.since = 0
  BY DEF Init
<1>2. rot.pc = "down" /\ rot.pass = NoPass /\ rot.met = {} /\ rot.todo = <<>>
  BY <1>1
<1>3. RotTyped
  BY <1>1, <1>2 DEF RotTyped, Busy
<1>4. granted \in [PgRoles -> Passwords]
  BY <1>1, PgRoleNames
<1>5. file \in [FileNames -> CredFile] /\ \A f \in FileNames : file[f].state = "none"
  BY <1>1, BlankFacts
<1>6. engine \in [Keys -> Engine] /\ \A k \in Keys : engine[k] = NoEngine
  BY <1>1, EmptySound
<1>7. Typed
  <2>1. suspect \in [FileNames -> SUBSET Faults]
    BY <1>1
  <2>2. faults \in 0 .. MaxFaults /\ edits \in 0 .. MaxEdits /\ api.since \in 0 .. edits
    BY <1>1, CredentialsAssumption
  <2> QED BY <1>1, <1>3, <1>4, <1>5, <1>6, <2>1, <2>2 DEF Typed
<1>8. Midway
  BY <1>2 DEF Midway, Late
<1>9. FilesWritten
  BY <1>5 DEF FilesWritten, FileWritten
<1>10. FilesFollow
  <2> SUFFICES ASSUME NEW j \in Jobs PROVE file[FileOf(j)].state = "none"
    BY DEF FilesFollow, FollowsRole
  <2> QED BY <1>1, <1>5, JobFacts
<1>11. ApiSound
  BY <1>1 DEF ApiSound
<1>12. EnginesSound
  BY <1>6, BlankFacts DEF EnginesSound, EngineSound
<1> QED BY <1>7, <1>8, <1>9, <1>10, <1>11, <1>12 DEF Sound

-----------------------------------------------------------------------------
(* What the sidecar leaves alone.                                          *)

(* Which entries are rotated depends on the plan only.                     *)
LEMMA JobsStay ==
    ASSUME plan' = plan
    PROVE  Jobs' = Jobs /\ \A j : Sole(j)' <=> Sole(j)
<1>1. Jobs' = Jobs
  BY DEF Jobs, EntriesOf
<1> QED BY <1>1 DEF Sole

(* Files never go back to "none", so the engines stay explained. *)
LEMMA EnginesStay ==
    ASSUME Sound, UNCHANGED <<plan, api, engine>>,
           \A f \in FileNames : file[f].state # "none" => file'[f].state # "none"
    PROVE  EnginesSound'
<1> SUFFICES ASSUME NEW k \in Keys PROVE EngineSound(k)'
  BY DEF EnginesSound
<1>1. EngineSound(k)
  BY DEF Sound, EnginesSound
<1>2. Jobs' = Jobs /\ EntriesOf(plan.docs)' = EntriesOf(plan.docs) /\ BindingOf(k)' = BindingOf(k)
  BY JobsStay DEF EntriesOf, BindingOf, Resolved, Matches
<1>3. engine'[k] = engine[k] /\ api' = api /\ plan' = plan
  OBVIOUS
<1>4. /\ engine[k] # NoEngine =>
            /\ Cardinality(Matches(api'.bindings, k[1], [name |-> k[2], padded |-> FALSE])) = 1
            /\ plan'.env.production /\ engine[k].url = "pg" => plan'.env.readonlyRole = "bare"
  BY <1>1, <1>3 DEF EngineSound
<1>5. engine[k].user # "" =>
          /\ engine[k].file \in FileNames /\ file'[engine[k].file].state # "none"
          /\ engine[k].pass[1] = engine[k].user
  BY <1>1 DEF EngineSound
<1>6. engine[k].user # "" =>
          /\ \E j \in Jobs : FileOf(j) = engine[k].file /\ Same(j, engine[k].target, engine[k].user)
          /\ \E e \in EntriesOf(plan.docs) :
                FileOf(Job(e)) = engine[k].file /\ Same(Job(e), BindingOf(k).target, BindingOf(k).role)
  BY <1>1 DEF EngineSound
<1> QED BY <1>2, <1>3, <1>4, <1>5, <1>6 DEF EngineSound

(* Steps of the sidecar leave the API alone.                               *)
LEMMA ApiStays ==
    ASSUME Sound, UNCHANGED <<plan, doc, api, edits>>
    PROVE  ApiSound'
BY DEF Sound, ApiSound

(* A step that touches neither the files nor the roles, and no job beyond  *)
(* ALTER ROLE before or after it.                                          *)
LEMMA QuietFiles ==
    ASSUME Sound, UNCHANGED <<plan, granted, file, suspect>>,
           rot.pc \notin Late
    PROVE  FilesWritten' /\ FilesFollow'
<1>1. Jobs' = Jobs /\ \A j : Sole(j)' <=> Sole(j)
  BY JobsStay
<1>2. FilesWritten'
  <2> SUFFICES ASSUME NEW f \in FileNames PROVE FileWritten(f)'
    BY DEF FilesWritten
  <2>1. FileWritten(f)
    BY DEF Sound, FilesWritten
  <2> QED BY <1>1, <2>1 DEF FileWritten
<1>3. FilesFollow'
  <2> SUFFICES ASSUME NEW j \in Jobs PROVE FollowsRole(j)'
    BY <1>1 DEF FilesFollow
  <2>1. FollowsRole(j)
    BY DEF Sound, FilesFollow
  <2>2. ~UnderWay(FileOf(j)) /\ (InStep(j)' <=> InStep(j)) /\ (Sole(j)' <=> Sole(j))
    BY <1>1 DEF UnderWay, Late, InStep
  <2> QED BY <2>1, <2>2 DEF FollowsRole
<1> QED BY <1>2, <1>3

(* The record of the sidecar after a step. *)
RotShape(r) == r = [pc |-> r.pc, todo |-> r.todo, job |-> r.job, pass |-> r.pass, met |-> r.met]

-----------------------------------------------------------------------------
(* One lemma per action of the sidecar.                                    *)

(* Between two jobs nothing is under way. *)
LEMMA IdleSound ==
    ASSUME Sound, UNCHANGED <<given, granted, file, tmp, suspect, apiVars, edits>>,
           rot.pc \notin Late, faults' \in 0 .. MaxFaults,
           RotTyped', rot'.pc \notin Late
    PROVE  Sound'
<1>1. UNCHANGED <<plan, doc, granted, file, tmp, suspect, api, engine, edits>>
  BY DEF given, apiVars
<1>2. Typed'
  BY <1>1 DEF Sound, Typed
<1>3. Midway'
  BY DEF Midway, Late
<1>4. FilesWritten' /\ FilesFollow'
  BY <1>1, QuietFiles
<1>5. ApiSound' /\ EnginesSound'
  BY <1>1, ApiStays, EnginesStay
<1> QED BY <1>2, <1>3, <1>4, <1>5 DEF Sound

(* A pass that starts keeps the invariant.                                 *)
LEMMA BeginPassSound ==
    ASSUME Sound, BeginPass
    PROVE  Sound'
<1>1. rot.pc \in {"down", "asleep"} /\ RotShape(rot) /\ rot.pass = NoPass
      /\ rot.met \subseteq Faults
  BY DEF BeginPass, Awake, Sound, Typed, RotTyped, RotShape, Busy
<1>0. plan \in Plans /\ doc \in plan.docs
  BY DEF Sound, Typed
<1>2. PICK t \in Seq(Todo) : rot' = [rot EXCEPT !.pc = "visiting", !.todo = t]
  <2>1. [i \in DOMAIN doc.entries |-> <<doc.entries[i].org, Stripped(doc.entries[i].id)>>]
            \in Seq(Todo)
    BY <1>0, TodoTyped
  <2> QED BY <2>1 DEF BeginPass
<1>3. RotShape(rot') /\ rot'.pc = "visiting" /\ rot'.pass = NoPass /\ rot'.met = rot.met
      /\ rot'.todo = t
  BY <1>1, <1>2 DEF RotShape
<1>4. RotTyped'
  BY <1>1, <1>3 DEF RotTyped, RotShape, Busy
<1>5. UNCHANGED <<given, granted, file, tmp, suspect, apiVars, edits>> /\ faults' = faults
  BY DEF BeginPass, bounds
<1>6. faults' \in 0 .. MaxFaults
  BY <1>5 DEF Sound, Typed
<1> QED BY <1>1, <1>3, <1>4, <1>5, <1>6, IdleSound DEF Late

(* A failing openssl rand keeps the invariant.                             *)
LEMMA GenerateFailsSound ==
    ASSUME Sound, GenerateFails
    PROVE  Sound'
<1>1. rot.pc = "visiting" /\ RotShape(rot) /\ rot.pass = NoPass /\ rot.todo \in Seq(Todo)
      /\ rot.met \subseteq Faults
  BY DEF GenerateFails, Sound, Typed, RotTyped, RotShape, Busy
<1>2. rot' = [rot EXCEPT !.pc = "down"]
  BY DEF GenerateFails
<1>3. RotShape(rot') /\ rot'.pc = "down" /\ rot'.pass = NoPass /\ rot'.met = rot.met
      /\ rot'.todo = rot.todo
  BY <1>1, <1>2 DEF RotShape
<1>4. RotTyped'
  BY <1>1, <1>3 DEF RotTyped, RotShape, Busy
<1>5. UNCHANGED <<given, granted, file, tmp, suspect, apiVars, edits>>
  BY DEF GenerateFails
<1>6. faults' \in 0 .. MaxFaults
  BY CredentialsAssumption DEF GenerateFails, Sound, Typed
<1> QED BY <1>1, <1>3, <1>4, <1>5, <1>6, IdleSound DEF Late

(* A job that starts, with its fresh password, keeps the invariant.        *)
LEMMA VisitSound ==
    ASSUME Sound, Visit
    PROVE  Sound'
<1>1. rot.pc = "visiting" /\ RotShape(rot) /\ rot.pass = NoPass /\ rot.todo \in Seq(Todo)
      /\ rot.met \subseteq Faults /\ plan \in Plans /\ doc \in plan.docs
  BY DEF Visit, Sound, Typed, RotTyped, RotShape, Busy
<1>2. UNCHANGED <<given, granted, file, tmp, suspect, apiVars, edits>> /\ faults' = faults
  BY DEF Visit, bounds
<1>3. faults' \in 0 .. MaxFaults
  BY <1>2 DEF Sound, Typed
<1>4. CASE rot' = [rot EXCEPT !.pc = "asleep"]
  <2>1. RotShape(rot') /\ rot'.pc = "asleep" /\ rot'.pass = NoPass /\ rot'.met = rot.met
        /\ rot'.todo = rot.todo
    BY <1>1, <1>4 DEF RotShape
  <2>2. RotTyped'
    BY <1>1, <2>1 DEF RotTyped, RotShape, Busy
  <2> QED BY <1>1, <1>2, <1>3, <2>1, <2>2, IdleSound DEF Late
<1>5. CASE rot.todo # <<>> /\ rot' = [rot EXCEPT !.todo = Tail(@)]
  <2>1. RotShape(rot') /\ rot'.pc = "visiting" /\ rot'.pass = NoPass /\ rot'.met = rot.met
        /\ rot'.todo = Tail(rot.todo)
    BY <1>1, <1>5 DEF RotShape
  <2>3. Tail(rot.todo) \in Seq(Todo)
    BY <1>1, <1>5
  <2>2. RotTyped'
    BY <1>1, <2>1, <2>3 DEF RotTyped, RotShape, Busy
  <2> QED BY <1>1, <1>2, <1>3, <2>1, <2>2, IdleSound DEF Late
<1>6. ASSUME NEW e \in EntryNow(Head(rot.todo)), TakesPart(e), NEW w \in Fresh(Job(e).role),
             rot.todo # <<>>,
             rot' = [pc |-> "altering", todo |-> Tail(rot.todo), job |-> Job(e), pass |-> w, met |-> {}]
      PROVE  Sound'
  <2>0. Tail(rot.todo) \in Seq(Todo) /\ Head(rot.todo) \in Todo
    BY <1>1, <1>6
  <2>p. ~e.id.padded
    <3>1. <<e.org, e.id>> \in Todo
      BY <2>0, <1>6 DEF EntryNow
    <3>2. PICK id \in Ids : e.id = Stripped(id)
      BY <3>1 DEF Todo
    <3> QED BY <3>2, StrippedFacts
  <2>1. e \in EntriesOf(plan.docs)
    BY <1>1, <1>6 DEF EntryNow, EntriesOf
  <2>2. PICK j : j = Job(e)
    OBVIOUS
  <2>3. j \in Jobs
    BY <1>6, <2>1, <2>2, <2>p DEF Jobs, Rotates
  <2>4. j.role \in Names /\ j.role # ""
    BY <1>1, <2>3, JobFacts
  <2>5. PICK n \in Serials : w = <<j.role, n>>
    BY <1>6, <2>2 DEF Fresh
  <2>6. w \in Passwords /\ w # NoPass /\ w[1] = j.role
    BY <2>4, <2>5 DEF Passwords, NoPass
  <2>7. /\ rot'.pc = "altering" /\ rot'.job = j /\ rot'.pass = w /\ rot'.met = {}
        /\ RotShape(rot') /\ rot'.todo = Tail(rot.todo)
    BY <1>6, <2>2 DEF RotShape
  <2>8. Jobs' = Jobs
    BY <1>2, JobsStay DEF given
  <2>9. RotTyped'
    BY <2>0, <2>3, <2>6, <2>7, <2>8 DEF RotTyped, RotShape, Busy
  <2> QED BY <1>1, <1>2, <1>3, <2>7, <2>9, IdleSound DEF Late
<1> QED BY <1>4, <1>5, <1>6 DEF Visit

(* The job in hand. *)
LEMMA InHand ==
    ASSUME Sound, rot.pc \in Busy
    PROVE  /\ rot.job \in Jobs /\ RotShape(rot) /\ rot.todo \in Seq(Todo)
           /\ rot.met \subseteq Faults
           /\ rot.pass \in Passwords /\ rot.pass # NoPass /\ rot.pass[1] = rot.job.role
           /\ FileOf(rot.job) \in FileNames /\ rot.job.role \in Names
           /\ rot.job.target \in Targets
<1>1. /\ rot.job \in Jobs /\ RotShape(rot) /\ rot.todo \in Seq(Todo)
      /\ rot.met \subseteq Faults
      /\ rot.pass \in Passwords /\ rot.pass # NoPass /\ rot.pass[1] = rot.job.role
  BY DEF Sound, Typed, RotTyped, RotShape
<1>2. plan \in Plans
  BY DEF Sound, Typed
<1> QED BY <1>1, <1>2, JobFacts

(* Steps before mv leave the files as written.                             *)
LEMMA WrittenStays ==
    ASSUME Sound, UNCHANGED <<plan, file, suspect>>
    PROVE  FilesWritten'
<1>1. Jobs' = Jobs
  BY JobsStay
<1> SUFFICES ASSUME NEW f \in FileNames PROVE FileWritten(f)'
  BY DEF FilesWritten
<1>2. FileWritten(f)
  BY DEF Sound, FilesWritten
<1> QED BY <1>1, <1>2 DEF FileWritten

(* ALTER ROLE, done or passed over. *)
LEMMA AlteredSound ==
    ASSUME Sound, rot.pc = "altering", UNCHANGED <<given, file, tmp, suspect, apiVars, edits>>,
           faults' \in 0 .. MaxFaults, NEW m \in {{}, {"skipped"}},
           rot' = [rot EXCEPT !.pc = "writing", !.met = m],
           \/ granted' = granted /\ m = {"skipped"}
           \/ PgRoleOf(rot.job) \in PgRoles /\ granted' = [granted EXCEPT ![PgRoleOf(rot.job)] = rot.pass]
    PROVE  Sound'
<1>1. UNCHANGED <<plan, doc, file, tmp, suspect, api, engine, edits>>
  BY DEF given, apiVars
<1>2. /\ rot.job \in Jobs /\ RotShape(rot) /\ rot.todo \in Seq(Todo)
      /\ rot.pass \in Passwords /\ rot.pass # NoPass /\ rot.pass[1] = rot.job.role
  BY InHand DEF Busy
<1>3. /\ RotShape(rot') /\ rot'.pc = "writing" /\ rot'.met = m /\ rot'.todo = rot.todo
      /\ rot'.job = rot.job /\ rot'.pass = rot.pass
  BY <1>2 DEF RotShape
<1>4. Jobs' = Jobs /\ \A j : Sole(j)' <=> Sole(j)
  BY <1>1, JobsStay
<1>0. m \subseteq Faults
  BY DEF Faults
<1>5. RotTyped'
  BY <1>0, <1>2, <1>3, <1>4 DEF RotTyped, RotShape, Busy
<1>6. granted \in [PgRoles -> Passwords]
  BY DEF Sound, Typed
<1>7. granted' \in [PgRoles -> Passwords]
  BY <1>2, <1>6
<1>8. Typed'
  BY <1>1, <1>5, <1>7 DEF Sound, Typed
<1>9. Midway'
  <2>1. "skipped" \notin m => PgRoleOf(rot.job) \in PgRoles /\ granted'[PgRoleOf(rot.job)] = rot.pass
    BY <1>6
  <2> QED BY <1>3, <2>1 DEF Midway
<1>10. FilesFollow'
  <2> SUFFICES ASSUME NEW j \in Jobs, Sole(j), file[FileOf(j)].state # "none", ~InStep(j)',
                      ~UnderWay(FileOf(j))'
               PROVE  suspect[FileOf(j)] # {}
    BY <1>1, <1>4 DEF FilesFollow, FollowsRole
  <2>1. FileOf(rot.job) # FileOf(j)
    BY <1>3 DEF UnderWay
  <2>2. PgRoleOf(rot.job) # PgRoleOf(j)
    BY <1>2, <2>1 DEF Sole
  <2>3. PgRoleOf(j) \in PgRoles => granted'[PgRoleOf(j)] = granted[PgRoleOf(j)]
    BY <1>6, <2>2
  <2>4. ~InStep(j)
    BY <1>1, <2>3 DEF InStep
  <2>5. ~UnderWay(FileOf(j))
    BY DEF UnderWay
  <2>6. FollowsRole(j)
    BY DEF Sound, FilesFollow
  <2> QED BY <2>4, <2>5, <2>6 DEF FollowsRole
<1>11. FilesWritten' /\ ApiSound' /\ EnginesSound'
  BY <1>1, WrittenStays, ApiStays, EnginesStay
<1> QED BY <1>8, <1>9, <1>10, <1>11 DEF Sound

(* ALTER ROLE, failing or not, puts the files of the role out of step for  *)
(* a known reason.                                                         *)
LEMMA AlterSound ==
    ASSUME Sound, Alter \/ AlterFails
    PROVE  Sound'
<1>1. faults' \in 0 .. MaxFaults
  <2>1. CASE Alter
    BY <2>1 DEF Alter, Sound, Typed, bounds
  <2>2. CASE AlterFails
    BY <2>2, CredentialsAssumption DEF AlterFails, Sound, Typed
  <2> QED BY <2>1, <2>2
<1>2. CASE AlterFails
  BY <1>1, <1>2, AlteredSound DEF AlterFails
<1>3. CASE Alter
  <2>1. PICK known \in BOOLEAN : known = (rot.job.port /\ PgRoleOf(rot.job) \in PgRoles)
    OBVIOUS
  <2>2. /\ rot.pc = "altering" /\ UNCHANGED <<given, file, tmp, suspect, apiVars, edits>>
        /\ granted' = IF known THEN [granted EXCEPT ![PgRoleOf(rot.job)] = rot.pass] ELSE granted
        /\ rot' = [rot EXCEPT !.pc = "writing", !.met = IF known THEN {} ELSE {"skipped"}]
    BY <1>3, <2>1 DEF Alter, bounds
  <2>3. CASE known
    <3>1. PgRoleOf(rot.job) \in PgRoles /\ granted' = [granted EXCEPT ![PgRoleOf(rot.job)] = rot.pass]
          /\ rot' = [rot EXCEPT !.pc = "writing", !.met = {}]
      BY <2>1, <2>2, <2>3
    <3> QED BY <1>1, <2>2, <3>1, AlteredSound
  <2>4. CASE ~known
    <3>1. granted' = granted /\ rot' = [rot EXCEPT !.pc = "writing", !.met = {"skipped"}]
      BY <2>2, <2>4
    <3> QED BY <1>1, <2>2, <3>1, AlteredSound
  <2> QED BY <2>3, <2>4
<1> QED BY <1>2, <1>3

(* Writing the temporary file: what is visible stays. *)
LEMMA WritingSound ==
    ASSUME Sound, rot.pc \in Late, rot'.pc \in Late,
           UNCHANGED <<given, granted, file, suspect, apiVars, edits>>,
           faults' \in 0 .. MaxFaults, RotShape(rot'), rot'.met \subseteq Faults,
           "skipped" \notin rot'.met => "skipped" \notin rot.met,
           rot'.todo = rot.todo, rot'.job = rot.job, rot'.pass = rot.pass,
           tmp' \in [FileNames -> CredFile],
           rot'.pc = "filling" => tmp'[FileOf(rot.job)] = Torn,
           rot'.pc = "moving" =>
              Prepared(tmp'[FileOf(rot.job)], rot.job, rot.pass, rot'.met)
    PROVE  Sound'
<1>1. UNCHANGED <<plan, doc, granted, file, suspect, api, engine, edits>>
  BY DEF given, apiVars
<1>2. /\ rot.job \in Jobs /\ rot.todo \in Seq(Todo)
      /\ rot.pass \in Passwords /\ rot.pass # NoPass /\ rot.pass[1] = rot.job.role
  BY InHand DEF Busy, Late
<1>3. Jobs' = Jobs /\ \A j : Sole(j)' <=> Sole(j)
  BY <1>1, JobsStay
<1>4. RotTyped'
  BY <1>2, <1>3 DEF RotTyped, RotShape, Busy, Late
<1>5. Typed'
  BY <1>1, <1>4 DEF Sound, Typed
<1>6. Midway'
  BY <1>1 DEF Sound, Midway
<1>7. FilesFollow'
  <2> SUFFICES ASSUME NEW j \in Jobs PROVE FollowsRole(j)'
    BY <1>3 DEF FilesFollow
  <2>1. FollowsRole(j)
    BY DEF Sound, FilesFollow
  <2>2. InStep(j)' <=> InStep(j)
    BY <1>1 DEF InStep
  <2>3. UnderWay(FileOf(j)) => UnderWay(FileOf(j))'
    BY DEF UnderWay, Late
  <2> QED BY <1>1, <1>3, <2>1, <2>2, <2>3 DEF FollowsRole
<1>8. FilesWritten' /\ ApiSound' /\ EnginesSound'
  BY <1>1, WrittenStays, ApiStays, EnginesStay
<1> QED BY <1>5, <1>6, <1>7, <1>8 DEF Sound

(* Opening the temporary file shows nothing yet.                           *)
LEMMA OpenTmpSound ==
    ASSUME Sound, OpenTmp
    PROVE  Sound'
<1>1. /\ rot.pc = "writing" /\ tmp' = [tmp EXCEPT ![FileOf(rot.job)] = Torn]
      /\ rot' = [rot EXCEPT !.pc = "filling"] /\ faults' = faults
      /\ UNCHANGED <<given, granted, file, suspect, apiVars, edits>>
  BY DEF OpenTmp, bounds
<1>2. RotShape(rot) /\ FileOf(rot.job) \in FileNames /\ rot.met \subseteq Faults
  BY <1>1, InHand DEF Busy
<1>3. /\ RotShape(rot') /\ rot'.pc = "filling" /\ rot'.met = rot.met /\ rot'.todo = rot.todo
      /\ rot'.job = rot.job /\ rot'.pass = rot.pass
  BY <1>1, <1>2 DEF RotShape
<1>4. tmp \in [FileNames -> CredFile] /\ faults' \in 0 .. MaxFaults
  BY <1>1 DEF Sound, Typed
<1>5. tmp' \in [FileNames -> CredFile] /\ tmp'[FileOf(rot.job)] = Torn
  BY <1>1, <1>2, <1>4, BlankFacts
<1> QED BY <1>1, <1>2, <1>3, <1>4, <1>5, WritingSound DEF Late

(* Writing it, in part or whole, shows nothing yet.                        *)
LEMMA FillTmpSound ==
    ASSUME Sound, FillTmp
    PROVE  Sound'
<1>1. rot.pc = "filling" /\ UNCHANGED <<given, granted, file, suspect, apiVars, edits>>
  BY DEF FillTmp
<1>2. /\ RotShape(rot) /\ FileOf(rot.job) \in FileNames /\ rot.met \subseteq Faults
      /\ rot.pass \in Passwords /\ rot.job.target \in Targets /\ rot.job.role \in Names
  BY <1>1, InHand DEF Busy
<1>3. /\ tmp \in [FileNames -> CredFile] /\ faults \in 0 .. MaxFaults
      /\ tmp[FileOf(rot.job)] = Torn
  BY <1>1 DEF Sound, Typed, Midway
<1>6. rot.job.port =>
          /\ Contents(rot.job, rot.pass) \in CredFile
          /\ Contents(rot.job, rot.pass).state = "whole"
          /\ Contents(rot.job, rot.pass).user = rot.job.role
          /\ Contents(rot.job, rot.pass).pass = rot.pass
          /\ Contents(rot.job, rot.pass).target = rot.job.target
  <2>1. PICK r, w, g : r = rot.job.role /\ w = rot.pass /\ g = rot.job.target
    OBVIOUS
  <2>2. PICK c : c = [state |-> "whole", user |-> r, pass |-> w, target |-> g]
    OBVIOUS
  <2>3. c \in CredFile /\ c.state = "whole" /\ c.user = r /\ c.pass = w /\ c.target = g
    BY <1>2, <2>1, <2>2 DEF CredFile
  <2>4. rot.job.port => Contents(rot.job, rot.pass) = c
    BY <2>1, <2>2 DEF Contents
  <2> QED BY <2>1, <2>3, <2>4
<1>7. ASSUME NEW c \in CredFile, NEW m, m \subseteq Faults,
             "skipped" \notin m => "skipped" \notin rot.met,
             Prepared(c, rot.job, rot.pass, m), faults' \in 0 .. MaxFaults,
             tmp' = [tmp EXCEPT ![FileOf(rot.job)] = c],
             rot' = [rot EXCEPT !.pc = "moving", !.met = m]
      PROVE  Sound'
  <2>1. /\ RotShape(rot') /\ rot'.pc = "moving" /\ rot'.met = m /\ rot'.todo = rot.todo
        /\ rot'.job = rot.job /\ rot'.pass = rot.pass
    BY <1>2, <1>7 DEF RotShape
  <2>2. tmp' \in [FileNames -> CredFile] /\ tmp'[FileOf(rot.job)] = c
    BY <1>2, <1>3, <1>7
  <2> QED BY <1>1, <1>7, <2>1, <2>2, WritingSound DEF Late
<1>4. CASE /\ tmp' = [tmp EXCEPT ![FileOf(rot.job)] = Contents(rot.job, rot.pass)]
           /\ rot' = [rot EXCEPT !.pc = "moving",
                                 !.met = IF rot.job.port THEN @ ELSE @ \cup {"write"}]
           /\ UNCHANGED faults
  <2>1. PICK b \in BOOLEAN : b <=> rot.job.port
    OBVIOUS
  <2>2. PICK m : m = IF b THEN rot.met ELSE rot.met \cup {"write"}
    OBVIOUS
  <2>3. rot' = [rot EXCEPT !.pc = "moving", !.met = m]
    BY <1>4, <2>1, <2>2
  <2>4. m \subseteq Faults /\ ("skipped" \notin m => "skipped" \notin rot.met)
    BY <1>2, <2>2 DEF Faults
  <2>5. PICK c \in CredFile : /\ c = Contents(rot.job, rot.pass)
                              /\ Prepared(c, rot.job, rot.pass, m)
    <3>1. CASE b
      BY <1>6, <2>1, <3>1 DEF Prepared
    <3>2. CASE ~b
      <4>1. Contents(rot.job, rot.pass) = Torn /\ "write" \in m
        BY <2>1, <2>2, <3>2 DEF Contents
      <4> QED BY <4>1, BlankFacts DEF Prepared
    <3> QED BY <3>1, <3>2
  <2>6. tmp' = [tmp EXCEPT ![FileOf(rot.job)] = c] /\ faults' \in 0 .. MaxFaults
    BY <1>3, <1>4, <2>5
  <2> QED BY <1>7, <2>3, <2>4, <2>5, <2>6
<1>5. CASE /\ faults < MaxFaults /\ faults' = faults + 1
           /\ rot' = [rot EXCEPT !.pc = "moving", !.met = @ \cup {"write"}]
           /\ UNCHANGED tmp
  <2>1. PICK m : m = rot.met \cup {"write"}
    OBVIOUS
  <2>2. rot' = [rot EXCEPT !.pc = "moving", !.met = m]
    BY <1>5, <2>1
  <2>3. m \subseteq Faults /\ ("skipped" \notin m => "skipped" \notin rot.met) /\ "write" \in m
    BY <1>2, <2>1 DEF Faults
  <2>4. Torn \in CredFile /\ Prepared(Torn, rot.job, rot.pass, m)
    BY <2>3, BlankFacts DEF Prepared
  <2>5. tmp' = [tmp EXCEPT ![FileOf(rot.job)] = Torn]
    BY <1>3, <1>5
  <2>6. faults' \in 0 .. MaxFaults
    BY <1>3, <1>5, CredentialsAssumption
  <2> QED BY <1>7, <2>2, <2>3, <2>4, <2>5, <2>6
<1>8. CASE /\ faults < MaxFaults /\ faults' = faults + 1
           /\ tmp' = [tmp EXCEPT ![FileOf(rot.job)] =
                         [Contents(rot.job, rot.pass) EXCEPT !.state = "private"]]
           /\ rot' = [rot EXCEPT !.pc = "moving", !.met = @ \cup {"chgrp"}]
  <2>1. PICK m : m = rot.met \cup {"chgrp"}
    OBVIOUS
  <2>2. rot' = [rot EXCEPT !.pc = "moving", !.met = m]
    BY <1>8, <2>1
  <2>3. m \subseteq Faults /\ ("skipped" \notin m => "skipped" \notin rot.met) /\ "chgrp" \in m
    BY <1>2, <2>1 DEF Faults
  <2>4. PICK w \in CredFile : w = Contents(rot.job, rot.pass)
    BY <1>6, BlankFacts DEF Contents
  <2>5. PICK c : c = [w EXCEPT !.state = "private"]
    OBVIOUS
  <2>6. c \in CredFile /\ c.state = "private"
    BY <2>5 DEF CredFile
  <2>7. tmp' = [tmp EXCEPT ![FileOf(rot.job)] = c]
    BY <1>8, <2>4, <2>5
  <2>8. faults' \in 0 .. MaxFaults
    BY <1>3, <1>8, CredentialsAssumption
  <2>9. Prepared(c, rot.job, rot.pass, m)
    BY <2>3, <2>6 DEF Prepared
  <2> QED BY <1>7, <2>2, <2>3, <2>6, <2>7, <2>8, <2>9
<1> QED BY <1>4, <1>5, <1>8 DEF FillTmp

(* A job that ends, or is ended, without mv: the file keeps its contents   *)
(* and what went wrong is noted at it.                                     *)
LEMMA NotedSound ==
    ASSUME Sound, rot.pc \in Late, rot'.pc \notin Late,
           UNCHANGED <<given, granted, file, tmp, apiVars, edits>>,
           faults' \in 0 .. MaxFaults, RotTyped', NEW S \in SUBSET Faults, S # {},
           suspect' = [suspect EXCEPT ![FileOf(rot.job)] = suspect[FileOf(rot.job)] \cup S]
    PROVE  Sound'
<1>1. UNCHANGED <<plan, doc, granted, file, tmp, api, engine, edits>>
  BY DEF given, apiVars
<1>2. PICK h \in FileNames : h = FileOf(rot.job)
  BY InHand DEF Busy, Late
<1>3. suspect \in [FileNames -> SUBSET Faults]
  BY DEF Sound, Typed
<1>4. suspect' = [suspect EXCEPT ![h] = suspect[h] \cup S]
  BY <1>2
<1>5. /\ suspect' \in [FileNames -> SUBSET Faults]
      /\ suspect'[h] # {}
      /\ \A f \in FileNames : suspect[f] \subseteq suspect'[f]
  BY <1>3, <1>4
<1>6. Typed'
  BY <1>1, <1>5 DEF Sound, Typed
<1>7. Midway'
  BY DEF Midway, Late
<1>8. Jobs' = Jobs /\ \A j : Sole(j)' <=> Sole(j)
  BY <1>1, JobsStay
<1>9. FilesWritten'
  <2> SUFFICES ASSUME NEW f \in FileNames PROVE FileWritten(f)'
    BY DEF FilesWritten
  <2>1. FileWritten(f)
    BY DEF Sound, FilesWritten
  <2>2. suspect[f] \subseteq suspect'[f] /\ file'[f] = file[f]
    BY <1>1, <1>5
  <2> QED BY <1>8, <2>1, <2>2 DEF FileWritten
<1>10. FilesFollow'
  <2> SUFFICES ASSUME NEW j \in Jobs, Sole(j), file[FileOf(j)].state # "none", ~InStep(j)'
               PROVE  suspect'[FileOf(j)] # {}
    BY <1>1, <1>8 DEF FilesFollow, FollowsRole
  <2>1. FollowsRole(j) /\ FileOf(j) \in FileNames
    BY JobFacts DEF Sound, Typed, FilesFollow
  <2>2. CASE FileOf(j) = h
    BY <1>5, <2>2
  <2>3. CASE FileOf(j) # h
    <3>1. ~InStep(j) /\ ~UnderWay(FileOf(j))
      BY <1>1, <1>2, <2>3 DEF InStep, UnderWay
    <3>2. suspect[FileOf(j)] # {}
      BY <2>1, <3>1 DEF FollowsRole
    <3> QED BY <1>5, <2>1, <3>2
  <2> QED BY <2>2, <2>3
<1>11. ApiSound' /\ EnginesSound'
  BY <1>1, ApiStays, EnginesStay
<1> QED BY <1>6, <1>7, <1>9, <1>10, <1>11 DEF Sound

(* mv shows what the job in hand has written, and remembers what it met. *)
LEMMA MovedSound ==
    ASSUME Sound, rot.pc = "moving", UNCHANGED <<plan, doc, granted, api, engine, faults, edits>>,
           file' = [file EXCEPT ![FileOf(rot.job)] = tmp[FileOf(rot.job)]],
           tmp' = [tmp EXCEPT ![FileOf(rot.job)] = NoFile],
           suspect' = [suspect EXCEPT ![FileOf(rot.job)] = rot.met],
           RotTyped', rot'.pc = "visiting"
    PROVE  Sound'
<1>1. /\ rot.job \in Jobs /\ rot.met \subseteq Faults
      /\ rot.pass \in Passwords /\ rot.pass[1] = rot.job.role
      /\ FileOf(rot.job) \in FileNames
  BY InHand DEF Busy
<1>2. PICK h \in FileNames : h = FileOf(rot.job)
  BY <1>1
<1>3. /\ file \in [FileNames -> CredFile] /\ tmp \in [FileNames -> CredFile]
      /\ suspect \in [FileNames -> SUBSET Faults]
  BY DEF Sound, Typed
<1>4. /\ file' \in [FileNames -> CredFile] /\ tmp' \in [FileNames -> CredFile]
      /\ suspect' \in [FileNames -> SUBSET Faults]
  <2>1. tmp[h] \in CredFile /\ rot.met \in SUBSET Faults
    BY <1>1, <1>3
  <2> QED BY <1>2, <1>3, <2>1, BlankFacts
<1>5. /\ file'[h] = tmp[h] /\ suspect'[h] = rot.met
      /\ \A f \in FileNames : f # h => file'[f] = file[f] /\ suspect'[f] = suspect[f]
  BY <1>2, <1>3
<1>6. Prepared(tmp[h], rot.job, rot.pass, rot.met)
  BY <1>2 DEF Sound, Midway
<1>7. Typed'
  BY <1>4 DEF Sound, Typed
<1>8. Midway'
  BY DEF Midway, Late
<1>9. Jobs' = Jobs /\ \A j : Sole(j)' <=> Sole(j)
  BY JobsStay
<1>10. FilesWritten'
  <2> SUFFICES ASSUME NEW f \in FileNames PROVE FileWritten(f)'
    BY DEF FilesWritten
  <2>1. CASE f = h
    <3>1. file'[f].state = "whole" =>
              /\ file'[f].pass[1] = file'[f].user
              /\ FileOf(rot.job) = f /\ rot.job.target = file'[f].target
              /\ rot.job.role = file'[f].user
      BY <1>1, <1>2, <1>5, <1>6, <2>1 DEF Prepared
    <3>2. /\ file'[f].state = "torn" => "write" \in suspect'[f]
          /\ file'[f].state = "private" => "chgrp" \in suspect'[f]
      BY <1>5, <1>6, <2>1 DEF Prepared
    <3> QED BY <1>1, <1>9, <3>1, <3>2 DEF FileWritten
  <2>2. CASE f # h
    <3>1. FileWritten(f)
      BY DEF Sound, FilesWritten
    <3>2. file'[f] = file[f] /\ suspect'[f] = suspect[f]
      BY <1>5, <2>2
    <3> QED BY <1>9, <3>1, <3>2 DEF FileWritten
  <2> QED BY <2>1, <2>2
<1>11. FilesFollow'
  <2> SUFFICES ASSUME NEW j \in Jobs, Sole(j), file'[FileOf(j)].state # "none", ~InStep(j)'
               PROVE  suspect'[FileOf(j)] # {}
    BY <1>9 DEF FilesFollow, FollowsRole
  <2>1. CASE FileOf(j) = h
    <3>1. rot.job = j
      BY <1>1, <1>2, <2>1 DEF Sole
    <3>2. SUFFICES ASSUME rot.met = {} PROVE FALSE
      BY <1>5, <2>1
    <3>3. PgRoleOf(j) \in PgRoles /\ granted[PgRoleOf(j)] = rot.pass
      BY <3>1, <3>2 DEF Sound, Midway, Late
    <3>4. file'[h].state = "whole" /\ file'[h].pass = rot.pass
      BY <1>5, <1>6, <3>2 DEF Prepared
    <3> QED BY <2>1, <3>3, <3>4 DEF InStep
  <2>2. CASE FileOf(j) # h
    <3>1. FileOf(j) \in FileNames
      BY JobFacts DEF Sound, Typed
    <3>2. file'[FileOf(j)] = file[FileOf(j)] /\ suspect'[FileOf(j)] = suspect[FileOf(j)]
      BY <1>5, <2>2, <3>1
    <3>3. ~InStep(j) /\ ~UnderWay(FileOf(j))
      BY <1>2, <2>2, <3>2 DEF InStep, UnderWay
    <3>4. FollowsRole(j)
      BY DEF Sound, FilesFollow
    <3> QED BY <3>2, <3>3, <3>4 DEF FollowsRole
  <2> QED BY <2>1, <2>2
<1>12. ApiSound'
  BY ApiStays
<1>13. EnginesSound'
  <2>1. \A f \in FileNames : file[f].state # "none" => file'[f].state # "none"
    BY <1>5, <1>6 DEF Prepared
  <2> QED BY <2>1, EnginesStay
<1> QED BY <1>7, <1>8, <1>10, <1>11, <1>12, <1>13 DEF Sound

(* mv, done or passed over, ends the job.                                  *)
LEMMA MoveSound ==
    ASSUME Sound, Move
    PROVE  Sound'
<1>1. /\ rot.pc = "moving" /\ UNCHANGED <<given, granted, apiVars, edits>>
      /\ rot' = [rot EXCEPT !.pc = "visiting", !.job = NoJob, !.pass = NoPass, !.met = {}]
  BY DEF Move
<1>2. RotShape(rot) /\ rot.todo \in Seq(Todo) /\ rot.met \subseteq Faults
  BY <1>1, InHand DEF Busy
<1>3. /\ rot'.pc = "visiting" /\ rot'.pass = NoPass /\ rot'.met = {} /\ rot'.todo = rot.todo
      /\ RotShape(rot')
  BY <1>1, <1>2 DEF RotShape
<1>4. RotTyped'
  BY <1>2, <1>3 DEF RotTyped, RotShape, Busy
<1>5. CASE /\ file' = [file EXCEPT ![FileOf(rot.job)] = tmp[FileOf(rot.job)]]
           /\ tmp' = [tmp EXCEPT ![FileOf(rot.job)] = NoFile]
           /\ suspect' = [suspect EXCEPT ![FileOf(rot.job)] = rot.met]
           /\ UNCHANGED faults
  BY <1>1, <1>3, <1>4, <1>5, MovedSound DEF given, apiVars
<1>6. CASE /\ faults < MaxFaults /\ faults' = faults + 1
           /\ suspect' = [suspect EXCEPT ![FileOf(rot.job)] = @ \cup rot.met \cup {"skipped"}]
           /\ UNCHANGED <<file, tmp>>
  <2>1. PICK S : S = rot.met \cup {"skipped"}
    OBVIOUS
  <2>2. S \in SUBSET Faults /\ S # {}
    BY <1>2, <2>1 DEF Faults
  <2>3. suspect[FileOf(rot.job)] \cup rot.met \cup {"skipped"} = suspect[FileOf(rot.job)] \cup S
    BY <2>1
  <2>4. suspect' = [suspect EXCEPT ![FileOf(rot.job)] = suspect[FileOf(rot.job)] \cup S]
    BY <1>6, <2>3
  <2>5. faults' \in 0 .. MaxFaults
    BY <1>6, CredentialsAssumption DEF Sound, Typed
  <2> QED BY <1>1, <1>3, <1>4, <1>6, <2>2, <2>4, <2>5, NotedSound DEF Late
<1> QED BY <1>5, <1>6 DEF Move

(* A killed sidecar leaves its faults noted at the file.                   *)
LEMMA CrashSound ==
    ASSUME Sound, RotatorCrash
    PROVE  Sound'
<1>1. /\ rot.pc \in {"visiting"} \cup Busy
      /\ UNCHANGED <<given, granted, file, tmp, apiVars, edits>>
      /\ rot' = [rot EXCEPT !.pc = "down", !.job = NoJob, !.pass = NoPass, !.met = {}]
  BY DEF RotatorCrash, Sound, Typed, RotTyped
<1>2. RotShape(rot) /\ rot.todo \in Seq(Todo)
  BY DEF Sound, Typed, RotTyped, RotShape
<1>3. /\ rot'.pc = "down" /\ rot'.pass = NoPass /\ rot'.met = {} /\ rot'.todo = rot.todo
      /\ RotShape(rot')
  BY <1>1, <1>2 DEF RotShape
<1>4. RotTyped'
  BY <1>2, <1>3 DEF RotTyped, RotShape, Busy
<1>5. faults' \in 0 .. MaxFaults
  BY CredentialsAssumption DEF RotatorCrash, Sound, Typed
<1>6. CASE rot.pc \notin Late
  <2>1. suspect' = suspect
    BY <1>6 DEF RotatorCrash, Late
  <2> QED BY <1>1, <1>3, <1>4, <1>5, <1>6, <2>1, IdleSound DEF Late
<1>7. CASE rot.pc \in Late
  <2>1. suspect' = [suspect EXCEPT ![FileOf(rot.job)] = suspect[FileOf(rot.job)] \cup {"skipped"}]
    BY <1>7 DEF RotatorCrash, Late
  <2>2. {"skipped"} \in SUBSET Faults /\ {"skipped"} # {}
    BY DEF Faults
  <2> QED BY <1>1, <1>3, <1>4, <1>5, <1>7, <2>1, <2>2, NotedSound DEF Late
<1> QED BY <1>6, <1>7

-----------------------------------------------------------------------------
(* The API and the operator leave the sidecar alone.                       *)

(* Steps of the API leave the sidecar and its files alone.                 *)
LEMMA RotatorStays ==
    ASSUME Sound, UNCHANGED <<plan, granted, file, tmp, rot, suspect>>
    PROVE  RotTyped' /\ Midway' /\ FilesWritten' /\ FilesFollow'
<1>1. Jobs' = Jobs /\ \A j : Sole(j)' <=> Sole(j)
  BY JobsStay
<1>2. RotTyped'
  BY <1>1 DEF Sound, Typed, RotTyped
<1>3. Midway'
  BY DEF Sound, Midway
<1>4. FilesWritten'
  BY WrittenStays
<1>5. FilesFollow'
  <2> SUFFICES ASSUME NEW j \in Jobs PROVE FollowsRole(j)'
    BY <1>1 DEF FilesFollow
  <2>1. FollowsRole(j)
    BY DEF Sound, FilesFollow
  <2>2. (InStep(j)' <=> InStep(j)) /\ (UnderWay(FileOf(j))' <=> UnderWay(FileOf(j)))
    BY DEF InStep, UnderWay
  <2> QED BY <1>1, <2>1, <2>2 DEF FollowsRole
<1> QED BY <1>2, <1>3, <1>4, <1>5

(* Without engines there is nothing to explain. *)
LEMMA NoEnginesSound ==
    ASSUME engine' = Empty
    PROVE  EnginesSound' /\ engine' \in [Keys -> Engine]
<1>1. engine' \in [Keys -> Engine] /\ \A k \in Keys : engine'[k] = NoEngine
  BY EmptySound
<1> QED BY <1>1, BlankFacts DEF EnginesSound, EngineSound

(* Starting, closing and stopping the API keep the invariant.              *)
LEMMA StartStopSound ==
    ASSUME Sound, StartApi \/ StopApi \/ Close
    PROVE  Sound'
<1>1. /\ engine' = Empty /\ UNCHANGED <<plan, doc, granted, file, tmp, rot, suspect, faults, edits>>
      /\ plan \in Plans /\ doc \in plan.docs
  BY DEF StartApi, StopApi, Close, given, rotVars, bounds, Sound, Typed
<1>2. EnginesSound' /\ engine' \in [Keys -> Engine]
  BY <1>1, NoEnginesSound
<1>3. RotTyped' /\ Midway' /\ FilesWritten' /\ FilesFollow'
  BY <1>1, RotatorStays
<1>4. edits \in 0 .. MaxEdits /\ api.since \in 0 .. edits
  BY DEF Sound, Typed
<1>5. api'.up \in BOOLEAN /\ api'.since \in 0 .. edits /\ ApiSound'
  <2>1. CASE StartApi
    <3>1. api'.up = TRUE /\ api'.bindings = Bindings(doc) /\ api'.since = edits /\ Loads(doc)
      BY <2>1 DEF StartApi
    <3>2. edits \in 0 .. edits
      BY <1>4, CredentialsAssumption
    <3> QED BY <1>1, <3>1, <3>2 DEF ApiSound
  <2>2. CASE StopApi
    BY <1>4, <2>2 DEF StopApi, ApiSound
  <2>3. CASE Close
    <3>1. api' = api
      BY <2>3 DEF Close
    <3> QED BY <1>1, <3>1, ApiStays DEF Sound, Typed
  <2> QED BY <2>1, <2>2, <2>3
<1>6. Typed'
  BY <1>1, <1>2, <1>3, <1>5 DEF Sound, Typed
<1> QED BY <1>2, <1>3, <1>5, <1>6 DEF Sound

(* A new document keeps the invariant; the API keeps its bindings.         *)
LEMMA EditSound ==
    ASSUME Sound, EditDocument
    PROVE  Sound'
<1>1. /\ UNCHANGED <<plan, granted, file, tmp, rot, suspect, api, engine, faults>>
      /\ edits < MaxEdits /\ edits' = edits + 1 /\ doc' \in plan.docs
  BY DEF EditDocument, rotVars, apiVars
<1>2. edits \in 0 .. MaxEdits /\ api.since \in 0 .. edits
  BY DEF Sound, Typed
<1>3. edits' \in 0 .. MaxEdits /\ api.since \in 0 .. edits' /\ edits' > api.since
  BY <1>1, <1>2, CredentialsAssumption
<1>4. RotTyped' /\ Midway' /\ FilesWritten' /\ FilesFollow'
  BY <1>1, RotatorStays
<1>5. Typed'
  BY <1>1, <1>3, <1>4 DEF Sound, Typed
<1>6. ApiSound'
  BY <1>1, <1>3 DEF Sound, ApiSound
<1>7. EnginesSound'
  BY <1>1, EnginesStay
<1> QED BY <1>4, <1>5, <1>6, <1>7 DEF Sound

(* An entry that loads in rotated mode names its role, host and database,  *)
(* so the script and the resolver mean the same file and target.           *)
LEMMA RotatedBinding ==
    ASSUME plan \in Plans, NEW d \in plan.docs, Loads(d), NEW i \in DOMAIN d.entries,
           NEW b, b = Binding(d.source, d.entries[i]), b.mode = "rotated"
    PROVE  \E e \in EntriesOf(plan.docs) :
               FileOf(Job(e)) = FileName(b.org, b.role) /\ Same(Job(e), b.target, b.role)
<1>1. PICK e : e = d.entries[i]
  OBVIOUS
<1>2. e \in EntriesOf(plan.docs) /\ Parses(d.source, e)
  BY <1>1 DEF EntriesOf, Loads
<1>3. /\ b.org = e.org /\ b.role = e.role /\ b.mode = ModeOf(d.source, e)
      /\ b.target = [host |-> e.host, db |-> e.db]
  BY <1>1 DEF Binding
<1>4. ~Missing(e.role) /\ ~Missing(e.host) /\ ~Missing(e.db)
  BY <1>2, <1>3 DEF Parses
<1>5. JqRaw(e.role) = e.role /\ JqRaw(e.host) = e.host /\ JqRaw(e.db) = e.db
  BY <1>4 DEF JqRaw, Missing
<1>6. FileOf(Job(e)) = FileName(e.org, JqRaw(e.role)) /\ Job(e).role = JqRaw(e.role)
      /\ Job(e).target = [host |-> JqRaw(e.host), db |-> JqRaw(e.db)]
  BY <1>2, EntryFacts
<1> QED BY <1>2, <1>3, <1>5, <1>6 DEF Same

(* The engine setup_container makes. *)
LEMMA BuiltFacts ==
    ASSUME Sound, NEW d \in plan.docs, Loads(d), NEW i \in DOMAIN d.entries,
           NEW b, b = Binding(d.source, d.entries[i]), Buildable(b)
    PROVE  /\ Built(b) \in Engine
           /\ plan.env.production /\ Built(b).url = "pg" => plan.env.readonlyRole = "bare"
           /\ Built(b).user # "" =>
                 /\ Built(b).file \in FileNames /\ file[Built(b).file].state # "none"
                 /\ Built(b).pass[1] = Built(b).user
                 /\ \E j \in Jobs : FileOf(j) = Built(b).file /\ Same(j, Built(b).target, Built(b).user)
                 /\ \E e \in EntriesOf(plan.docs) :
                       FileOf(Job(e)) = Built(b).file /\ Same(Job(e), b.target, b.role)
<1>0. plan \in Plans /\ file \in [FileNames -> CredFile]
  BY DEF Sound, Typed
<1>1. CASE b.mode = "rotated"
  <2>1. PICK e \in EntriesOf(plan.docs) :
            FileOf(Job(e)) = FileName(b.org, b.role) /\ Same(Job(e), b.target, b.role)
    BY <1>0, <1>1, RotatedBinding
  <2>2. PICK f \in FileNames : f = FileName(b.org, b.role)
    BY <1>0, <2>1, EntryFacts
  <2>3. PICK c \in CredFile : c = file[f]
    BY <1>0
  <2>4. PICK g : g = [url |-> "pg", user |-> c.user, pass |-> c.pass, file |-> f, target |-> c.target]
    OBVIOUS
  <2>5. Built(b) = g
    BY <1>1, <2>2, <2>3, <2>4 DEF Built, Credentials
  <2>6. g.url = "pg" /\ g.user = c.user /\ g.pass = c.pass /\ g.file = f /\ g.target = c.target
        /\ g \in Engine
    <3>1. c.user \in Names \cup {""} /\ c.pass \in Passwords /\ c.target \in Targets \cup {Nowhere}
      BY DEF CredFile
    <3> QED BY <2>4, <3>1 DEF Engine
  <2>7. c.state = "whole" /\ Guarded
    BY <1>1, <2>2, <2>3 DEF Buildable, Credentials
  <2>8. c.pass[1] = c.user /\ \E j \in Jobs : FileOf(j) = f /\ Same(j, c.target, c.user)
    BY <2>3, <2>7 DEF Sound, FilesWritten, FileWritten, Same
  <2>9. plan.env.production => plan.env.readonlyRole = "bare"
    BY <2>7 DEF Guarded
  <2>10. file[f].state # "none"
    BY <2>3, <2>7
  <2>11. \E x \in EntriesOf(plan.docs) : FileOf(Job(x)) = f /\ Same(Job(x), b.target, b.role)
    BY <2>1, <2>2
  <2> QED BY <2>5, <2>6, <2>8, <2>9, <2>10, <2>11
<1>2. CASE b.mode # "rotated"
  <2>1. PICK u : u = IF StaticUrl(b) = "sqlite" THEN "sqlite_ro" ELSE StaticUrl(b)
    OBVIOUS
  <2>2. StaticUrl(b) \in {"pg", "sqlite", "sqlite_ro", "memory"}
    BY <1>2 DEF Buildable
  <2>3. u \in {"pg", "sqlite_ro", "memory"}
    BY <2>1, <2>2
  <2>4. Built(b) = [NoEngine EXCEPT !.url = u]
    BY <1>2, <2>1 DEF Built
  <2>5. Built(b) \in Engine /\ Built(b).url = u /\ Built(b).user = ""
    <3>1. NoEngine \in Engine /\ NoEngine.user = ""
      BY BlankFacts
    <3> QED BY <2>3, <2>4, <3>1 DEF Engine
  <2>6. u = "pg" => Guarded
    BY <1>2, <2>1, <2>2 DEF Buildable
  <2>7. plan.env.production /\ u = "pg" => plan.env.readonlyRole = "bare"
    BY <2>6 DEF Guarded
  <2> QED BY <2>5, <2>7
<1> QED BY <1>1, <1>2

(* A service is built from the binding and the file of its entry.          *)
LEMMA RequestContextSound ==
    ASSUME Sound, NEW org \in Orgs, NEW id \in Ids, <<org, id.name>> \in Keys,
           RequestContext(org, id)
    PROVE  Sound'
<1>1. /\ UNCHANGED <<plan, doc, granted, file, tmp, rot, suspect, api, faults, edits>>
      /\ api.up /\ Resolves(api.bindings, org, id)
  BY DEF RequestContext, given, rotVars, bounds
<1>2. PICK b : b = Resolved(api.bindings, org, id)
  OBVIOUS
<1>3. Buildable(b) /\ engine' = [engine EXCEPT ![CacheKey(b)] = Built(b)]
  BY <1>2 DEF RequestContext
<1>4. PICK d \in plan.docs : Loads(d) /\ api.bindings = Bindings(d)
  BY <1>1 DEF Sound, ApiSound
<1>5. PICK M : M = Matches(api.bindings, org, id)
  OBVIOUS
<1>6. Cardinality(M) = 1
  BY <1>1, <1>5 DEF Resolves
<1>7. M # {}
  BY <1>6, FS_EmptySet
<1>8. PICK i \in M : b = api.bindings[i]
  BY <1>2, <1>5, <1>7 DEF Resolved
<1>9. i \in DOMAIN d.entries /\ b = Binding(d.source, d.entries[i])
  BY <1>4, <1>5, <1>8 DEF Matches, Bindings
<1>10. b.org = org /\ b.id = Stripped(id)
  BY <1>5, <1>8 DEF Matches
<1>11. PICK k \in Keys : k = <<org, id.name>>
  OBVIOUS
<1>12. Stripped(id) = [name |-> id.name, padded |-> FALSE]
  BY StrippedFacts
<1>13. CacheKey(b) = k
  BY <1>10, <1>11, <1>12 DEF CacheKey
<1>14. Stripped([name |-> id.name, padded |-> FALSE]) = Stripped(id)
  BY <1>12 DEF Stripped
<1>15. Matches(api.bindings, k[1], [name |-> k[2], padded |-> FALSE]) = M
  BY <1>5, <1>11, <1>14 DEF Matches
<1>16. BindingOf(k) = b
  BY <1>2, <1>5, <1>11, <1>15 DEF BindingOf, Resolved
<1>17. PICK g : g = Built(b)
  OBVIOUS
<1>18. /\ g \in Engine
       /\ plan.env.production /\ g.url = "pg" => plan.env.readonlyRole = "bare"
       /\ g.user # "" =>
             /\ g.file \in FileNames /\ file[g.file].state # "none"
             /\ g.pass[1] = g.user
             /\ \E j \in Jobs : FileOf(j) = g.file /\ Same(j, g.target, g.user)
             /\ \E e \in EntriesOf(plan.docs) :
                   FileOf(Job(e)) = g.file /\ Same(Job(e), b.target, b.role)
  BY <1>3, <1>4, <1>9, <1>17, BuiltFacts
<1>19. engine \in [Keys -> Engine] /\ engine' = [engine EXCEPT ![k] = g]
  BY <1>3, <1>13, <1>17 DEF Sound, Typed
<1>20. /\ engine' \in [Keys -> Engine] /\ engine'[k] = g
       /\ \A h \in Keys : h # k => engine'[h] = engine[h]
  BY <1>18, <1>19
<1>21. RotTyped' /\ Midway' /\ FilesWritten' /\ FilesFollow'
  BY <1>1, RotatorStays
<1>22. Typed'
  BY <1>1, <1>20, <1>21 DEF Sound, Typed
<1>23. ApiSound'
  BY <1>1, ApiStays
<1>24. Jobs' = Jobs /\ EntriesOf(plan.docs)' = EntriesOf(plan.docs)
       /\ \A h \in Keys : BindingOf(h)' = BindingOf(h)
  BY <1>1, JobsStay DEF EntriesOf, BindingOf, Resolved, Matches
<1>25. EnginesSound'
  <2> SUFFICES ASSUME NEW h \in Keys PROVE EngineSound(h)'
    BY DEF EnginesSound
  <2>1. CASE h = k
    <3>1. engine'[h] = g /\ BindingOf(h)' = b
      BY <1>16, <1>20, <1>24, <2>1
    <3>2. Cardinality(Matches(api'.bindings, h[1], [name |-> h[2], padded |-> FALSE])) = 1
      BY <1>1, <1>6, <1>15, <2>1
    <3> QED BY <1>1, <1>18, <1>24, <3>1, <3>2 DEF EngineSound
  <2>2. CASE h # k
    <3>1. engine'[h] = engine[h] /\ BindingOf(h)' = BindingOf(h)
      BY <1>20, <1>24, <2>2
    <3>2. EngineSound(h)
      BY DEF Sound, EnginesSound
    <3> QED BY <1>1, <1>24, <3>1, <3>2 DEF EngineSound
  <2> QED BY <2>1, <2>2
<1> QED BY <1>21, <1>22, <1>23, <1>25 DEF Sound

-----------------------------------------------------------------------------
(* The invariant is inductive.                                             *)
LEMMA StepSound ==
    ASSUME Sound, [Next]_vars
    PROVE  Sound'
<1>1. CASE Rotator
  BY <1>1, BeginPassSound, VisitSound, AlterSound, OpenTmpSound, FillTmpSound, MoveSound DEF Rotator
<1>2. CASE GenerateFails \/ AlterFails \/ RotatorCrash
  BY <1>2, GenerateFailsSound, AlterSound, CrashSound
<1>3. CASE StartApi \/ StopApi \/ Close
  BY <1>3, StartStopSound
<1>4. CASE \E org \in Orgs, id \in Ids : <<org, id.name>> \in Keys /\ RequestContext(org, id)
  BY <1>4, RequestContextSound
<1>5. CASE EditDocument
  BY <1>5, EditSound
<1>6. CASE UNCHANGED vars
  <2>1. UNCHANGED <<plan, doc, granted, file, tmp, rot, suspect, api, engine, faults, edits>>
    BY <1>6 DEF vars
  <2>2. RotTyped' /\ Midway' /\ FilesWritten' /\ FilesFollow'
    BY <2>1, RotatorStays
  <2>3. ApiSound' /\ EnginesSound'
    BY <2>1, ApiStays, EnginesStay
  <2>4. Typed'
    BY <2>1, <2>2 DEF Sound, Typed
  <2> QED BY <2>2, <2>3, <2>4 DEF Sound
<1> QED BY <1>1, <1>2, <1>3, <1>4, <1>5, <1>6 DEF Next

(* The three processes, in every reachable state. *)
LEMMA ProcessesSound == Spec => []Sound
BY InitSound, StepSound, PTL DEF Spec

(* The invariant implies the property of the files.                        *)
LEMMA FollowRoles == Sound => FilesFollowRoles
<1> SUFFICES ASSUME Sound PROVE FilesFollowRoles
  OBVIOUS
<1>1. MismatchExplained
  <2> SUFFICES ASSUME NEW j \in Jobs
               PROVE  /\ Sole(j) /\ file[FileOf(j)].state # "none" /\ ~InStep(j)
                             => suspect[FileOf(j)] # {} \/ UnderWay(FileOf(j))
                      /\ file[FileOf(j)].state = "torn" => "write" \in suspect[FileOf(j)]
                      /\ file[FileOf(j)].state = "private" => "chgrp" \in suspect[FileOf(j)]
    BY DEF MismatchExplained
  <2>1. FollowsRole(j)
    BY DEF Sound, FilesFollow
  <2>2. FileOf(j) \in FileNames
    BY JobFacts DEF Sound, Typed
  <2>3. FileWritten(FileOf(j))
    BY <2>2 DEF Sound, FilesWritten
  <2> QED BY <2>1, <2>3 DEF FollowsRole, FileWritten
<1>2. TypeOK
  <2>1. \A f \in FileNames : {file[f], tmp[f]} \subseteq
          [state : {"none", "torn", "private", "whole"}, user : Names \cup {""},
           pass : Passwords, target : Targets \cup {Nowhere}]
    <3>1. \A f \in FileNames : file[f] \in CredFile /\ tmp[f] \in CredFile
      BY DEF Sound, Typed
    <3>2. \A f \in FileNames : {file[f], tmp[f]} \subseteq CredFile
      BY <3>1
    <3> QED BY <3>2, Zenon DEF CredFile
  <2>2. /\ rot.pc \in {"down", "asleep", "visiting", "altering", "writing", "filling", "moving"}
        /\ rot.pass \in Passwords
        /\ (rot.pc \in {"altering", "writing", "filling", "moving"}) = (rot.pass # NoPass)
    <3>1. /\ rot.pc \in {"down", "asleep", "visiting"} \cup Busy
          /\ rot.pc \in Busy => rot.pass \in Passwords /\ rot.pass # NoPass
          /\ rot.pc \notin Busy => rot.pass = NoPass
      BY DEF Sound, Typed, RotTyped
    <3>2. rot.pass \in Passwords
      BY <3>1, BlankFacts
    <3>3. (rot.pc \in Busy) = (rot.pass # NoPass)
      BY <3>1
    <3> QED BY <3>1, <3>2, <3>3 DEF Busy
  <2>3. \A k \in Keys : engine[k].pass \in Passwords
    BY DEF Sound, Typed, Engine
  <2> QED BY <2>1, <2>2, <2>3 DEF Sound, Typed, TypeOK
<1> QED BY <1>1, <1>2 DEF FilesFollowRoles

(* The invariant implies the property of the services.                     *)
LEMMA Bound == Sound => ServicesBound
<1> SUFFICES ASSUME Sound PROVE ServicesBound
  OBVIOUS
<1>1. BoundUnlessFileShared
  <2> SUFFICES ASSUME NEW k \in Keys, engine[k].user # "",
                      ~Same(BindingOf(k), engine[k].target, engine[k].user)
               PROVE  Shared(engine[k].file)
    BY DEF BoundUnlessFileShared, Same
  <2>1. EngineSound(k)
    BY DEF Sound, EnginesSound
  <2>2. PICK j \in Jobs : FileOf(j) = engine[k].file /\ Same(j, engine[k].target, engine[k].user)
    BY <2>1 DEF EngineSound
  <2>3. PICK d \in EntriesOf(plan.docs) : j = Job(d)
    BY DEF Jobs
  <2>4. PICK e \in EntriesOf(plan.docs) :
            FileOf(Job(e)) = engine[k].file /\ Same(Job(e), BindingOf(k).target, BindingOf(k).role)
    BY <2>1 DEF EngineSound
  <2>5. Job(d).target # Job(e).target \/ Job(d).role # Job(e).role
    BY <2>2, <2>3, <2>4 DEF Same
  <2> QED BY <2>2, <2>3, <2>4, <2>5 DEF Shared
<1>2. RefusalExplained
  <2> SUFFICES ASSUME NEW k \in Keys, engine[k] # NoEngine, ~Accepted(engine[k]), NEW f,
                      f = engine[k].file,
                      suspect[f] = {}, ~UnderWay(f),
                      \A j \in Jobs : FileOf(j) = f => Sole(j)
               PROVE  engine[k].pass[1] = engine[k].user /\ engine[k].pass # file[f].pass
    BY DEF RefusalExplained
  <2>1. engine[k].user # "" /\ EngineSound(k)
    BY DEF Accepted, Sound, EnginesSound
  <2>2. f \in FileNames /\ file[f].state # "none" /\ engine[k].pass[1] = engine[k].user
    BY <2>1 DEF EngineSound
  <2>3. PICK j \in Jobs : FileOf(j) = f /\ j.target = engine[k].target /\ j.role = engine[k].user
    BY <2>1 DEF EngineSound, Same
  <2>4. Sole(j) /\ FollowsRole(j)
    BY <2>3 DEF Sound, FilesFollow
  <2>5. InStep(j)
    BY <2>2, <2>3, <2>4 DEF FollowsRole
  <2>7. PgRoleOf(j) = <<engine[k].target.host, engine[k].user>>
    BY <2>3 DEF PgRoleOf
  <2>8. PgRoleOf(j) \in PgRoles /\ file[f].pass = granted[PgRoleOf(j)]
    BY <2>3, <2>5 DEF InStep
  <2>9. engine[k].pass # granted[PgRoleOf(j)]
    BY <2>7, <2>8 DEF Accepted
  <2> QED BY <2>2, <2>8, <2>9
<1> QED BY <1>1, <1>2 DEF ServicesBound

(* The validator accepts nothing the resolver refuses, but for ports and   *)
(* empty tenant ids.                                                       *)
LEMMA ValidEntryParses ==
    ASSUME NEW e, ValidatesEntry(e), e.port # "word"
    PROVE  Parses("file", e)
<1>1. CASE e.mode \in {"absent", "static"}
  <2>1. ModeOf("file", e) = "static"
    BY <1>1 DEF ModeOf
  <2>2. e.conn \notin {"none", "blank", "bare"} /\ e.pool # "word"
    BY <1>1 DEF ValidatesEntry
  <2> QED BY <2>1, <2>2 DEF Parses, Given
<1>2. CASE e.mode = "rotated"
  <2>1. ModeOf("file", e) = "rotated"
    BY <1>2 DEF ModeOf
  <2>2. ~Missing(e.role) /\ ~Missing(e.host) /\ ~Missing(e.db) /\ e.pool # "word"
    BY <1>2 DEF ValidatesEntry
  <2> QED BY <2>1, <2>2 DEF Parses
<1>3. e.mode \in {"absent", "static"} \/ e.mode = "rotated"
  BY DEF ValidatesEntry
<1> QED BY <1>1, <1>2, <1>3

(* A document the validator accepts is one the resolver serves.            *)
LEMMA ValidServes ==
    ASSUME plan \in Plans, doc \in plan.docs
    PROVE  ValidatedServes
<1> SUFFICES ASSUME doc.source = "file", Validates(doc),
                    \A i \in DOMAIN doc.entries : doc.entries[i].port # "word" /\ doc.entries[i].org # ""
             PROVE  /\ Loads(doc)
                    /\ \A i \in DOMAIN doc.entries :
                           Resolves(Bindings(doc), doc.entries[i].org, doc.entries[i].id)
  BY DEF ValidatedServes
<1>1. Loads(doc)
  BY ValidEntryParses DEF Loads, Validates
<1>2. ASSUME NEW i \in DOMAIN doc.entries
      PROVE  Resolves(Bindings(doc), doc.entries[i].org, doc.entries[i].id)
  <2>1. PICK e : e = doc.entries[i]
    OBVIOUS
  <2>2. e \in Entries
    BY <2>1, DeployedEntries
  <2>3. e.id.name \in ValidNames /\ ~e.id.padded /\ e.org # ""
    BY <2>1 DEF Validates, ValidatesEntry
  <2>4. Stripped(e.id) = e.id
    <3>1. e.id \in Ids
      BY <2>2 DEF Ids
    <3>2. PICK N : e.id \in [name : N, padded : BOOLEAN]
      BY <3>1, CredentialsAssumption
    <3>3. e.id = [name |-> e.id.name, padded |-> FALSE]
      BY <2>3, <3>2
    <3> QED BY <3>1, <3>3, StrippedFacts
  <2>5. /\ DOMAIN Bindings(doc) = DOMAIN doc.entries
        /\ \A n \in DOMAIN doc.entries : /\ Bindings(doc)[n].org = doc.entries[n].org
                                        /\ Bindings(doc)[n].id = doc.entries[n].id
    BY DEF Bindings, Binding
  <2>6. \A n \in DOMAIN doc.entries :
            doc.entries[n].org = e.org /\ doc.entries[n].id = e.id => n = i
    BY <2>1, CredentialsAssumption
  <2>7. Matches(Bindings(doc), e.org, e.id) = {i}
    BY <2>1, <2>4, <2>5, <2>6 DEF Matches
  <2>8. Cardinality({i}) = 1
    BY FS_Singleton
  <2> QED BY <2>1, <2>3, <2>7, <2>8 DEF Resolves
<1> QED BY <1>1, <1>2

(* The invariant implies that the readers agree.                           *)
LEMMA Agree == Sound => ReadersAgree
<1> SUFFICES ASSUME Sound PROVE ReadersAgree
  OBVIOUS
<1>1. FailsClosed
  <2> SUFFICES ASSUME NEW k \in Keys, engine[k] # NoEngine
               PROVE  /\ Cardinality(Matches(api.bindings, k[1], [name |-> k[2], padded |-> FALSE])) = 1
                      /\ engine[k].url # "sqlite"
                      /\ plan.env.production /\ engine[k].url = "pg" => plan.env.readonlyRole = "bare"
    BY DEF FailsClosed
  <2>1. EngineSound(k)
    BY DEF Sound, EnginesSound
  <2>2. engine[k].url # "sqlite"
    BY DEF Sound, Typed, Engine
  <2> QED BY <2>1, <2>2 DEF EngineSound
<1>2. ReadinessTracksDocument
  BY DEF Sound, ApiSound, ReadinessTracksDocument, Ready
<1>3. ValidatedServes
  BY ValidServes DEF Sound, Typed
<1> QED BY <1>1, <1>2, <1>3 DEF ReadersAgree

(* rotate_creds.sh, rotate_tenant: whatever fails between ALTER ROLE and   *)
(* mv, and whenever the sidecar is killed, a credential file that does not *)
(* hold its role's password is explained by a fault or a pass under way,   *)
(* only a failed write shows a torn file and only a failed chgrp or chmod  *)
(* one that the API may not read.                                          *)
THEOREM FilesAreExplained == Spec => []FilesFollowRoles
BY ProcessesSound, FollowRoles, PTL

(* tenant_service_provider.py, resolve: a cached service is connected to   *)
(* the database of its entry, as its role, unless two entries, of one      *)
(* tenant or of two, share a credential file, and PostgreSQL refuses it    *)
(* only because of the rotation.                                           *)
THEOREM ServicesStayBound == Spec => []ServicesBound
BY ProcessesSound, Bound, PTL

(* tenant_database_resolver.py, resolve: through edits, restarts and       *)
(* rotations only an unambiguous entry is served, a validated document     *)
(* serves and a document that serves is ready.                             *)
THEOREM ReadersStayInStep == Spec => []ReadersAgree
BY ProcessesSound, Agree, PTL
=============================================================================
