----------------------------- MODULE ApiProjects -----------------------------
(***************************************************************************)
(* Tenants and their projects as the API changes them: provisioning a      *)
(* tenant, PUT and PATCH of a project (api/tenants.go, api/projects.go,    *)
(* repository/api_tenants.go, api_projects.go, api_idempotency.go).        *)
(*                                                                         *)
(* A call is one process.  A transaction is one step: what it decides on   *)
(* is read FOR UPDATE or guarded by a unique key.  It may fail, and it may *)
(* be committed although its caller sees an error.                         *)
(***************************************************************************)
EXTENDS Naturals, FiniteSets, Functions

CONSTANTS
  Call, Op,            \* the calls of the clients, and what each is
  Tenant, External,    \* names the clients give to tenants and projects
  TenantOf, NameOf,    \* the tenant of a call, the project it names
  KeyOf, IdemOf,       \* its key's ID and its Idempotency-Key
  Field, Body,         \* settings; the ones a call names, with their values
  MaxTime, MaxFailures, \* bounds: ticks of the clock, failing transactions
  Absent

\* The settings that calls ask for; a PUT names every field.
Value == UNION {Range(Body[c]) : c \in Call}

ASSUME ApiProjectsAssumption ==
  /\ Op \in [Call -> {"provision", "put", "patch"}]
  /\ TenantOf \in [Call -> Tenant] /\ NameOf \in [Call -> External]
  /\ \A c \in Call : Op[c] = "put" => Body[c] \in [Field -> Value]
  /\ Absent \notin Call \cup [Field -> Value] /\ Absent # "done"
  /\ MaxTime \in Nat /\ MaxFailures \in Nat

VARIABLES
  now,
  tenants, serviceUsers, \* rows of api_tenants; who inserted a service user
  projects,     \* rows of api_projects with their upstream rows
  idempotency,  \* rows of api_idempotency
  at, read, reply, \* where a call is, what it has read, its answer
  failures,
  asked, overwritten \* history: what the calls asked for; see SettingsExplained

apiVars == <<now, tenants, serviceUsers, projects, idempotency, at, read, reply, failures,
             asked, overwritten>>

Place == Tenant \X External
PlaceOf(c) == <<TenantOf[c], NameOf[c]>>

ApiInit ==
  /\ now = 0 /\ tenants = [t \in Tenant |-> Absent] /\ serviceUsers = {}
  /\ projects = [x \in Place |-> Absent] /\ idempotency = {}
  /\ at = [c \in Call |-> "begin"] /\ read = [c \in Call |-> Absent]
  /\ reply = [c \in Call |-> Absent] /\ failures = 0
  /\ asked = [x \in Place |-> Absent] /\ overwritten = [x \in Place |-> {}]

Reply(c, answer) == reply' = [reply EXCEPT ![c] = answer]
Move(c, step) == at' = [at EXCEPT ![c] = step]
Answer(c, answer) == Move(c, "end") /\ Reply(c, answer)

tenantVars == <<tenants, serviceUsers>>
projectVars == <<projects, idempotency, asked, overwritten>>

\* Effect of a transaction: its writes and its answer, if it is committed.
Commit(c, answer) ==
  \/ Answer(c, answer) /\ UNCHANGED failures
  \/ failures < MaxFailures /\ failures' = failures + 1 /\ Answer(c, "error")

RollBack(c, answer) ==
  Answer(c, answer) /\ UNCHANGED <<projectVars, failures>>

Tick == /\ now < MaxTime /\ now' = now + 1
        /\ UNCHANGED <<tenantVars, projectVars, at, read, reply, failures>>

-----------------------------------------------------------------------------
\* ProvisionTenant looks for the tenant first ...
GetTenant(c) ==
  /\ Op[c] = "provision" /\ at[c] \in {"begin", "again"}
  /\ IF tenants[TenantOf[c]] # Absent THEN Answer(c, tenants[TenantOf[c]])
     ELSE IF at[c] = "begin" THEN Move(c, "insert") /\ UNCHANGED reply
     ELSE Answer(c, "error")
  /\ UNCHANGED <<now, tenantVars, projectVars, read, failures>>

\* ... and inserts service user and tenant in one transaction; the name is
\* unique, so that the slower of two rolls back and looks again.
ProvisionTenant(c) ==
  LET t == TenantOf[c] IN
  /\ Op[c] = "provision" /\ at[c] = "insert"
  /\ IF tenants[t] = Absent
     THEN /\ tenants' = [tenants EXCEPT ![t] = c]
          /\ serviceUsers' = serviceUsers \cup {c} /\ Commit(c, c)
     ELSE Move(c, "again") /\ UNCHANGED <<tenantVars, reply, failures>>
  /\ UNCHANGED <<now, projectVars, read>>

-----------------------------------------------------------------------------
\* The record of a key with an Idempotency-Key; its expiry is never looked at.
FindIdempotency(c) == {i \in idempotency : i.key = KeyOf[c] /\ i.idem = IdemOf[c]}

\* HashProjectPut
Hash(c) == <<NameOf[c], Body[c]>>

\* The rows that an UPDATE of project and binding together counts: those that
\* get another value.
RowsAffected(row, settings) ==
  (IF settings = row.settings THEN 0 ELSE 1) + (IF now = row.updated THEN 0 ELSE 1)

Row(settings) == [settings |-> settings, updated |-> now]

\* The first execution of a request counts, not its repetitions.
Executed == {<<i.key, i.idem>> : i \in idempotency}
Asks(c) == IF <<KeyOf[c], IdemOf[c]>> \in Executed THEN asked[PlaceOf(c)] ELSE Body[c]

\* PutProject, first time: the tenant's project with this name is made or
\* replaced, and the request recorded, all or nothing.
PutNew(c) ==
  LET x == PlaceOf(c)
      row == projects[x] IN
  /\ FindIdempotency(c) = {}
  /\ IF tenants[TenantOf[c]] = Absent \/ (row # Absent /\ RowsAffected(row, Body[c]) # 1)
     THEN RollBack(c, "not found")
     ELSE /\ projects' = [projects EXCEPT ![x] = Row(Body[c])]
          /\ idempotency' = idempotency \cup
               {[key |-> KeyOf[c], idem |-> IdemOf[c], hash |-> Hash(c)]}
          /\ asked' = [asked EXCEPT ![x] = Asks(c)]
          /\ overwritten' = [overwritten EXCEPT ![x] = {}]
          /\ Commit(c, "done")

\* Mutant: a repetition stores its settings again.
PutAgain_stores(c) ==
  \E i \in FindIdempotency(c) :
    IF i.hash # Hash(c) THEN RollBack(c, "conflict")
    ELSE /\ projects' = [projects EXCEPT ![PlaceOf(c)] = Row(Body[c])] /\ Commit(c, "done")
         /\ UNCHANGED <<idempotency, asked, overwritten>>

PutAgain(c) ==
  \E i \in FindIdempotency(c) :
    RollBack(c, IF i.hash = Hash(c) THEN "done" ELSE "conflict")

PutProject(c) ==
  /\ Op[c] = "put" /\ at[c] = "begin"
  /\ PutNew(c) \/ PutAgain(c)
  /\ UNCHANGED <<now, tenantVars, read>>

\* PatchProject reads the project ...
GetProject(c) ==
  LET row == projects[PlaceOf(c)] IN
  /\ Op[c] = "patch" /\ at[c] = "begin"
  /\ IF row = Absent THEN Answer(c, "not found") /\ UNCHANGED read
     ELSE Move(c, "store") /\ read' = [read EXCEPT ![c] = row.settings] /\ UNCHANGED reply
  /\ UNCHANGED <<now, tenantVars, projectVars, failures>>

\* ... applies the fields it names ...
Apply(patch, settings) ==
  [f \in Field |-> IF f \in DOMAIN patch THEN patch[f] ELSE settings[f]]

\* ... and stores all fields in a transaction of its own.
PatchProject(c) ==
  LET x == PlaceOf(c)
      row == projects[x]
      settings == Apply(Body[c], read[c]) IN
  /\ Op[c] = "patch" /\ at[c] = "store"
  /\ IF RowsAffected(row, settings) # 1 THEN RollBack(c, "not found")
     ELSE /\ projects' = [projects EXCEPT ![x] = Row(settings)]
          /\ asked' = [asked EXCEPT ![x] = [f \in Field |->
               IF f \in DOMAIN Body[c] THEN Body[c][f] ELSE asked[x][f]]]
          /\ overwritten' = [overwritten EXCEPT ![x] = (@ \ DOMAIN Body[c]) \cup
               {f \in Field \ DOMAIN Body[c] : read[c][f] # row.settings[f]}]
          /\ Commit(c, "done") /\ UNCHANGED idempotency
  /\ UNCHANGED <<now, tenantVars, read>>

\* A transaction fails before it is committed.
TransactionFails(c) ==
  /\ failures < MaxFailures /\ failures' = failures + 1
  /\ at[c] \in {"insert", "store"} \/ (Op[c] = "put" /\ at[c] = "begin")
  /\ Answer(c, "error")
  /\ UNCHANGED <<now, tenantVars, projectVars, read>>

ApiNext == Tick \/ \E c \in Call : \/ GetTenant(c) \/ ProvisionTenant(c) \/ PutProject(c)
                                   \/ GetProject(c) \/ PatchProject(c) \/ TransactionFails(c)

ApiSpec == ApiInit /\ [][ApiNext]_apiVars

-----------------------------------------------------------------------------
\* What a tenant gets is explained by what its calls asked for.  A tenant has
\* one row and one service user, whose ID every provisioning call gets.  The
\* settings of a project are what its calls asked for, one after the other and
\* each request once, however often it was repeated and whatever failed; except
\* for fields that a PATCH did not name and wrote back as it had read them
\* before another call changed them (api/projects.go:119-134).  A call that was
\* refused changed nothing.
SettingsExplained ==
  /\ \A t \in Tenant : {c \in serviceUsers : TenantOf[c] = t} = {tenants[t]} \ {Absent}
  /\ \A c \in Call : Op[c] = "provision" /\ reply[c] \notin {Absent, "error"}
                       => reply[c] = tenants[TenantOf[c]]
  /\ \A x \in Place :
       IF asked[x] = Absent THEN projects[x] = Absent
       ELSE \A f \in Field \ overwritten[x] : projects[x].settings[f] = asked[x][f]
  /\ \A c \in Call : Op[c] = "put" /\ reply[c] = "done"
       => [key |-> KeyOf[c], idem |-> IdemOf[c], hash |-> Hash(c)] \in idempotency
=============================================================================
