-------------------------- MODULE ApiProjects_proofs --------------------------
(***************************************************************************)
(* SettingsExplained of ApiProjects, for any calls of any tenants, any     *)
(* settings and any number of failing transactions.                        *)
(***************************************************************************)
EXTENDS ApiProjects, TLAPS

Record(c) == [key |-> KeyOf[c], idem |-> IdemOf[c], hash |-> Hash(c)]

\* Service users are made by calls, and a tenant by one of its own.
TenantsOK ==
  /\ serviceUsers \subseteq Call
  /\ tenants \in [Tenant -> Call \cup {Absent}]
  /\ \A t \in Tenant : tenants[t] # Absent => TenantOf[tenants[t]] = t

\* What is asked for is settings; a PATCH that is about to store has seen some.
SettingsOK ==
  /\ asked \in [Place -> [Field -> Value] \cup {Absent}]
  /\ projects = [x \in Place |-> projects[x]] /\ overwritten = [x \in Place |-> overwritten[x]]
  /\ at \in [Call -> {"begin", "insert", "again", "store", "end"}]
  /\ DOMAIN reply = Call /\ DOMAIN read = Call
  /\ \A c \in Call : at[c] = "store" => asked[PlaceOf(c)] # Absent

\* A key and its Idempotency-Key name one request.
RecordsOK ==
  /\ \A i \in idempotency : \E c \in Call : i = Record(c)
  /\ \A i, j \in idempotency : i.key = j.key /\ i.idem = j.idem => i = j

\* SettingsExplained, one part each.
OneServiceUser ==
  \A t \in Tenant : {c \in serviceUsers : TenantOf[c] = t} = {tenants[t]} \ {Absent}
SameTenant ==
  \A c \in Call : Op[c] = "provision" /\ reply[c] \notin {Absent, "error"}
                    => reply[c] = tenants[TenantOf[c]]
AsAsked ==
  \A x \in Place :
    IF asked[x] = Absent THEN projects[x] = Absent
    ELSE \A f \in Field \ overwritten[x] : projects[x].settings[f] = asked[x][f]
Recorded ==
  \A c \in Call : Op[c] = "put" /\ reply[c] = "done" => Record(c) \in idempotency

IInv == /\ TenantsOK /\ SettingsOK /\ RecordsOK
        /\ OneServiceUser /\ SameTenant /\ AsAsked /\ Recorded

-----------------------------------------------------------------------------
(* What a step leaves alone                                                *)

\* Only c moves; it is answered, or goes on.
Moves(c) ==
  /\ at' \in [Call -> {"begin", "insert", "again", "store", "end"}]
  /\ DOMAIN reply' = Call /\ DOMAIN read' = Call
  /\ \A d \in Call : d # c => at'[d] = at[d] /\ reply'[d] = reply[d]

LEMMA Answered ==
  ASSUME SettingsOK, NEW c \in Call, NEW answer, Answer(c, answer), DOMAIN read' = Call
  PROVE  Moves(c) /\ at'[c] = "end" /\ reply'[c] = answer
BY DEF SettingsOK, Moves, Answer, Move, Reply

LEMMA MovesOn ==
  ASSUME SettingsOK, NEW c \in Call, NEW step \in {"insert", "again", "store"},
         Move(c, step), reply' = reply, DOMAIN read' = Call
  PROVE  Moves(c) /\ at'[c] = step /\ reply'[c] = reply[c]
BY DEF SettingsOK, Moves, Move

\* A call that is not the one to provision its tenant.
LEMMA TenantSide ==
  ASSUME IInv, NEW c \in Call, Moves(c), UNCHANGED tenantVars,
         Op[c] = "provision" => reply'[c] \in {tenants[TenantOf[c]], "error", reply[c]}
  PROVE  TenantsOK' /\ OneServiceUser' /\ SameTenant'
BY DEF IInv, Moves, tenantVars, TenantsOK, OneServiceUser, SameTenant

\* A call that writes no project.
LEMMA ProjectSide ==
  ASSUME IInv, NEW c \in Call, Moves(c), UNCHANGED projectVars,
         at'[c] = "store" => asked[PlaceOf(c)] # Absent,
         Op[c] = "put" /\ reply'[c] = "done" => Record(c) \in idempotency
  PROVE  SettingsOK' /\ RecordsOK' /\ AsAsked' /\ Recorded'
<1>1. SettingsOK'
  BY DEF IInv, Moves, projectVars, SettingsOK
<1>2. RecordsOK' /\ AsAsked' /\ Recorded'
  BY DEF IInv, Moves, projectVars, RecordsOK, AsAsked, Recorded
<1> QED BY <1>1, <1>2

-----------------------------------------------------------------------------
(* One lemma per action                                                    *)

LEMMA Initially == ApiInit => IInv
<1> SUFFICES ASSUME ApiInit PROVE IInv
  OBVIOUS
<1>1. TenantsOK /\ OneServiceUser
  BY DEF ApiInit, TenantsOK, OneServiceUser
<1>2. SettingsOK
  BY DEF ApiInit, SettingsOK
<1>3. RecordsOK /\ SameTenant /\ AsAsked /\ Recorded
  BY ApiProjectsAssumption DEF ApiInit, RecordsOK, SameTenant, AsAsked, Recorded
<1> QED BY <1>1, <1>2, <1>3 DEF IInv

LEMMA KeptByTick == IInv /\ Tick => IInv'
BY DEF Tick, tenantVars, projectVars, IInv, TenantsOK, SettingsOK, RecordsOK, OneServiceUser,
       SameTenant, AsAsked, Recorded

LEMMA KeptByGetTenant ==
  ASSUME IInv, NEW c \in Call, GetTenant(c)
  PROVE  IInv'
<1>1. SettingsOK /\ UNCHANGED <<tenantVars, projectVars, read>> /\ Op[c] = "provision" /\ DOMAIN read' = Call
  BY DEF IInv, GetTenant, SettingsOK
<1>2. CASE Answer(c, tenants[TenantOf[c]]) \/ Answer(c, "error")
  <2>1. Moves(c) /\ at'[c] = "end" /\ reply'[c] \in {tenants[TenantOf[c]], "error"}
    BY <1>1, <1>2, Answered
  <2> QED BY <1>1, <2>1, TenantSide, ProjectSide DEF IInv
<1>3. CASE Move(c, "insert") /\ reply' = reply
  <2>1. Moves(c) /\ at'[c] = "insert" /\ reply'[c] = reply[c]
    BY <1>1, <1>3, MovesOn
  <2> QED BY <1>1, <2>1, TenantSide, ProjectSide DEF IInv
<1> QED BY <1>2, <1>3 DEF GetTenant

LEMMA KeptByProvision ==
  ASSUME IInv, NEW c \in Call, ProvisionTenant(c)
  PROVE  IInv'
<1> DEFINE t == TenantOf[c]
<1>1. /\ SettingsOK /\ UNCHANGED <<projectVars, read>> /\ Op[c] = "provision" /\ DOMAIN read' = Call
      /\ t \in Tenant
  BY ApiProjectsAssumption DEF IInv, ProvisionTenant, SettingsOK
<1>2. CASE tenants[t] = Absent
  <2>1. Answer(c, c) \/ Answer(c, "error")
    BY <1>2 DEF ProvisionTenant, Commit
  <2>2. Moves(c) /\ at'[c] = "end" /\ reply'[c] \in {c, "error"}
    BY <1>1, <2>1, Answered
  <2>3. tenants' = [tenants EXCEPT ![t] = c] /\ serviceUsers' = serviceUsers \cup {c}
    BY <1>2 DEF ProvisionTenant
  <2>4. TenantsOK'
    BY <1>1, <2>3 DEF IInv, TenantsOK
  <2>5. OneServiceUser'
    <3>1. Absent \notin Call
      BY ApiProjectsAssumption
    <3>2. ASSUME NEW u \in Tenant
          PROVE  {d \in serviceUsers' : TenantOf[d] = u} = {tenants'[u]} \ {Absent}
      <4>1. {d \in serviceUsers : TenantOf[d] = u} = {tenants[u]} \ {Absent}
        BY DEF IInv, OneServiceUser
      <4>2. CASE u = t
        BY <1>1, <1>2, <2>3, <3>1, <4>1, <4>2 DEF IInv, TenantsOK
      <4>3. CASE u # t
        BY <1>1, <2>3, <4>1, <4>3 DEF IInv, TenantsOK
      <4> QED BY <4>2, <4>3
    <3> QED BY <3>2 DEF OneServiceUser
  <2>6. SameTenant'
    <3> SUFFICES ASSUME NEW d \in Call, Op[d] = "provision", reply'[d] \notin {Absent, "error"}
                 PROVE  reply'[d] = tenants'[TenantOf[d]]
      BY DEF SameTenant
    <3>1. tenants'[t] = c /\ \A u \in Tenant : u # t => tenants'[u] = tenants[u]
      BY <1>1, <2>3 DEF IInv, TenantsOK
    <3>2. CASE d = c
      BY <2>2, <3>1, <3>2
    <3>3. CASE d # c
      <4>1. reply'[d] = reply[d] /\ TenantOf[d] \in Tenant
        BY <2>2, <3>3, ApiProjectsAssumption DEF Moves
      <4>2. reply[d] = tenants[TenantOf[d]]
        BY <4>1 DEF IInv, SameTenant
      <4> QED BY <1>2, <3>1, <4>1, <4>2
    <3> QED BY <3>2, <3>3
  <2>7. SettingsOK' /\ RecordsOK' /\ AsAsked' /\ Recorded'
    BY <1>1, <2>2, ProjectSide
  <2> QED BY <2>4, <2>5, <2>6, <2>7 DEF IInv
<1>3. CASE tenants[t] # Absent
  <2>1. Move(c, "again") /\ reply' = reply /\ UNCHANGED tenantVars
    BY <1>3 DEF ProvisionTenant
  <2>2. Moves(c) /\ at'[c] = "again" /\ reply'[c] = reply[c]
    BY <1>1, <2>1, MovesOn
  <2> QED BY <1>1, <2>1, <2>2, TenantSide, ProjectSide DEF IInv
<1> QED BY <1>2, <1>3

\* A transaction that changes nothing.
LEMMA KeptByRollBack ==
  ASSUME IInv, NEW c \in Call, NEW answer, RollBack(c, answer), UNCHANGED <<tenantVars, read>>,
         Op[c] # "provision", Op[c] = "put" /\ answer = "done" => Record(c) \in idempotency
  PROVE  IInv'
<1>1. SettingsOK /\ DOMAIN read' = Call /\ UNCHANGED <<projectVars, tenantVars>> /\ Answer(c, answer)
  BY DEF IInv, RollBack, SettingsOK
<1>2. Moves(c) /\ at'[c] = "end" /\ reply'[c] = answer
  BY <1>1, Answered
<1> QED BY <1>1, <1>2, TenantSide, ProjectSide DEF IInv

\* A transaction that is committed, whatever its caller is told.
LEMMA Committed ==
  ASSUME SettingsOK, NEW c \in Call, NEW answer, Commit(c, answer), read' = read
  PROVE  Moves(c) /\ at'[c] = "end" /\ reply'[c] \in {answer, "error"}
<1>1. Answer(c, answer) \/ Answer(c, "error")
  BY DEF Commit
<1>2. DOMAIN read' = Call
  BY DEF SettingsOK
<1> QED BY <1>1, <1>2, Answered

\* What is asked for is never forgotten.
LEMMA SettingsWritten ==
  ASSUME SettingsOK, NEW c \in Call, Moves(c), at'[c] = "end",
         NEW x \in Place, NEW v \in [Field -> Value], NEW w, NEW o,
         projects' = [projects EXCEPT ![x] = w], overwritten' = [overwritten EXCEPT ![x] = o],
         asked' = [asked EXCEPT ![x] = v]
  PROVE  SettingsOK'
<1>1. /\ asked' \in [Place -> [Field -> Value] \cup {Absent}]
      /\ \A y \in Place : asked[y] # Absent => asked'[y] # Absent
  BY ApiProjectsAssumption DEF SettingsOK
<1>2. projects' = [y \in Place |-> projects'[y]] /\ overwritten' = [y \in Place |-> overwritten'[y]]
  BY DEF SettingsOK
<1>3. \A d \in Call : at'[d] = "store" => asked'[PlaceOf(d)] # Absent
  <2> SUFFICES ASSUME NEW d \in Call, at'[d] = "store" PROVE asked'[PlaceOf(d)] # Absent
    OBVIOUS
  <2>1. PlaceOf(d) \in Place
    BY ApiProjectsAssumption DEF Place, PlaceOf
  <2>2. asked[PlaceOf(d)] # Absent
    BY DEF Moves, SettingsOK
  <2> QED BY <1>1, <2>1, <2>2
<1> QED BY <1>1, <1>2, <1>3 DEF Moves, SettingsOK

LEMMA KeptByPutNew ==
  ASSUME IInv, NEW c \in Call, PutNew(c), Op[c] = "put", UNCHANGED <<tenantVars, read>>
  PROVE  IInv'
<1> DEFINE x == PlaceOf(c)
<1>1. CASE RollBack(c, "not found")
  BY <1>1, KeptByRollBack
<1>2. CASE ~RollBack(c, "not found")
  <2>1. /\ FindIdempotency(c) = {} /\ Commit(c, "done")
        /\ projects' = [projects EXCEPT ![x] = Row(Body[c])]
        /\ idempotency' = idempotency \cup {Record(c)}
        /\ asked' = [asked EXCEPT ![x] = Asks(c)]
        /\ overwritten' = [overwritten EXCEPT ![x] = {}]
    BY <1>2, Zenon DEF PutNew, Record
  <2>2. Moves(c) /\ at'[c] = "end" /\ reply'[c] \in {"done", "error"}
    BY <2>1, Committed DEF IInv
  <2>3. x \in Place /\ Body[c] \in [Field -> Value] /\ Absent \notin [Field -> Value]
    BY ApiProjectsAssumption DEF Place, PlaceOf
  <2>4. <<KeyOf[c], IdemOf[c]>> \notin Executed
    <3> SUFFICES ASSUME NEW i \in idempotency, <<i.key, i.idem>> = <<KeyOf[c], IdemOf[c]>>
                 PROVE  FALSE
      BY DEF Executed
    <3> QED BY <2>1 DEF FindIdempotency
  <2>5. asked' = [asked EXCEPT ![x] = Body[c]]
    BY <2>1, <2>4 DEF Asks
  <2>6. TenantsOK' /\ OneServiceUser' /\ SameTenant'
    BY <2>2, TenantSide
  <2>7. SettingsOK'
    BY <2>1, <2>2, <2>3, <2>5, SettingsWritten DEF IInv
  <2>8. RecordsOK'
    <3>1. \A i \in idempotency : ~(i.key = KeyOf[c] /\ i.idem = IdemOf[c])
      BY <2>1 DEF FindIdempotency
    <3>2. Record(c).key = KeyOf[c] /\ Record(c).idem = IdemOf[c]
      BY DEF Record
    <3> QED BY <2>1, <3>1, <3>2 DEF IInv, RecordsOK
  <2>9. AsAsked'
    <3> SUFFICES ASSUME NEW y \in Place
                 PROVE  IF asked'[y] = Absent THEN projects'[y] = Absent
                        ELSE \A f \in Field \ overwritten'[y] : projects'[y].settings[f] = asked'[y][f]
      BY DEF AsAsked
    <3>1. CASE y = x
      <4>1. asked'[x] = Body[c] /\ projects'[x] = Row(Body[c])
        BY <2>1, <2>3, <2>5 DEF IInv, SettingsOK
      <4>2. Row(Body[c]).settings = Body[c]
        BY DEF Row
      <4> QED BY <2>3, <3>1, <4>1, <4>2
    <3>2. CASE y # x
      <4>1. asked'[y] = asked[y] /\ projects'[y] = projects[y] /\ overwritten'[y] = overwritten[y]
        BY <2>1, <2>3, <2>5, <3>2 DEF IInv, SettingsOK
      <4> QED BY <4>1 DEF IInv, AsAsked
    <3> QED BY <3>1, <3>2
  <2>10. Recorded'
    BY <2>1, <2>2 DEF IInv, Recorded, Moves, Record, Hash
  <2> QED BY <2>6, <2>7, <2>8, <2>9, <2>10 DEF IInv
<1> QED BY <1>1, <1>2

LEMMA KeptByPutAgain ==
  ASSUME IInv, NEW c \in Call, PutAgain(c), Op[c] = "put", UNCHANGED <<tenantVars, read>>
  PROVE  IInv'
<1>1. PICK i \in FindIdempotency(c) : RollBack(c, IF i.hash = Hash(c) THEN "done" ELSE "conflict")
  BY DEF PutAgain
<1>2. PICK d \in Call : i = Record(d)
  BY DEF FindIdempotency, IInv, RecordsOK
<1>3. i.hash = Hash(c) => Record(c) = i
  BY <1>2 DEF FindIdempotency, Record
<1>4. CASE i.hash = Hash(c)
  BY <1>1, <1>3, <1>4, KeptByRollBack DEF FindIdempotency
<1>5. CASE i.hash # Hash(c)
  BY <1>1, <1>5, KeptByRollBack
<1> QED BY <1>4, <1>5

LEMMA KeptByGetProject ==
  ASSUME IInv, NEW c \in Call, GetProject(c)
  PROVE  IInv'
<1>1. /\ SettingsOK /\ UNCHANGED <<tenantVars, projectVars>> /\ Op[c] = "patch"
      /\ DOMAIN read' = Call
  BY DEF IInv, GetProject, SettingsOK
<1>2. CASE Answer(c, "not found")
  <2>1. Moves(c) /\ at'[c] = "end" /\ reply'[c] = "not found"
    BY <1>1, <1>2, Answered
  <2> QED BY <1>1, <2>1, TenantSide, ProjectSide DEF IInv
<1>3. CASE projects[PlaceOf(c)] # Absent /\ Move(c, "store") /\ reply' = reply
  <2>1. Moves(c) /\ at'[c] = "store" /\ reply'[c] = reply[c]
    BY <1>1, <1>3, MovesOn
  <2>2. PlaceOf(c) \in Place
    BY ApiProjectsAssumption DEF Place, PlaceOf
  <2>3. asked[PlaceOf(c)] # Absent
    BY <1>3, <2>2 DEF IInv, AsAsked
  <2> QED BY <1>1, <2>1, <2>3, TenantSide, ProjectSide DEF IInv
<1> QED BY <1>2, <1>3 DEF GetProject

LEMMA KeptByPatch ==
  ASSUME IInv, NEW c \in Call, PatchProject(c)
  PROVE  IInv'
<1> DEFINE x == PlaceOf(c)
           row == projects[x]
           settings == Apply(Body[c], read[c])
           asks == [f \in Field |-> IF f \in DOMAIN Body[c] THEN Body[c][f] ELSE asked[x][f]]
           over == (overwritten[x] \ DOMAIN Body[c]) \cup
                     {f \in Field \ DOMAIN Body[c] : read[c][f] # row.settings[f]}
<1>0. Op[c] = "patch" /\ at[c] = "store" /\ UNCHANGED <<tenantVars, read>>
  BY DEF PatchProject
<1>1. CASE RollBack(c, "not found")
  BY <1>0, <1>1, KeptByRollBack
<1>2. CASE ~RollBack(c, "not found")
  <2>1. /\ Commit(c, "done") /\ idempotency' = idempotency
        /\ projects' = [projects EXCEPT ![x] = Row(settings)]
        /\ asked' = [asked EXCEPT ![x] = asks]
        /\ overwritten' = [overwritten EXCEPT ![x] = over]
    BY <1>2, Zenon DEF PatchProject
  <2>2. Moves(c) /\ at'[c] = "end" /\ reply'[c] \in {"done", "error"}
    BY <1>0, <2>1, Committed DEF IInv
  <2>3. x \in Place /\ Absent \notin [Field -> Value]
    BY ApiProjectsAssumption DEF Place, PlaceOf
  <2>4. asked[x] \in [Field -> Value]
    BY <1>0, <2>3 DEF IInv, SettingsOK
  <2>5. asks \in [Field -> Value]
    <3>1. \A f \in DOMAIN Body[c] : Body[c][f] \in Value
      BY DEF Value, Range
    <3> QED BY <2>4, <3>1
  <2>6. TenantsOK' /\ OneServiceUser' /\ SameTenant'
    BY <1>0, <2>2, TenantSide
  <2>7. \A f \in Field \ over : settings[f] = asks[f]
    <3> SUFFICES ASSUME NEW f \in Field \ over PROVE settings[f] = asks[f]
      OBVIOUS
    <3>1. CASE f \in DOMAIN Body[c]
      BY <3>1 DEF Apply
    <3>2. CASE f \notin DOMAIN Body[c]
      <4>1. settings[f] = read[c][f] /\ asks[f] = asked[x][f]
        BY <3>2 DEF Apply
      <4>2. f \notin overwritten[x] /\ read[c][f] = row.settings[f]
        BY <3>2
      <4>3. row.settings[f] = asked[x][f]
        BY <2>3, <2>4, <4>2 DEF IInv, AsAsked
      <4> QED BY <4>1, <4>2, <4>3
    <3> QED BY <3>1, <3>2
  <2> HIDE DEF x, row, settings, asks, over
  <2>8. SettingsOK'
    BY <2>1, <2>2, <2>3, <2>5, SettingsWritten DEF IInv
  <2>9. RecordsOK' /\ Recorded'
    BY <1>0, <2>1, <2>2 DEF IInv, RecordsOK, Recorded, Moves
  <2>10. AsAsked'
    <3> SUFFICES ASSUME NEW y \in Place
                 PROVE  IF asked'[y] = Absent THEN projects'[y] = Absent
                        ELSE \A f \in Field \ overwritten'[y] : projects'[y].settings[f] = asked'[y][f]
      BY DEF AsAsked
    <3>1. CASE y = x
      <4>1. asked'[x] = asks /\ projects'[x] = Row(settings) /\ overwritten'[x] = over
        BY <2>1, <2>3 DEF IInv, SettingsOK
      <4>2. Row(settings).settings = settings
        BY DEF Row
      <4> QED BY <2>3, <2>5, <2>7, <3>1, <4>1, <4>2
    <3>2. CASE y # x
      <4>1. asked'[y] = asked[y] /\ projects'[y] = projects[y] /\ overwritten'[y] = overwritten[y]
        BY <2>1, <2>3, <3>2 DEF IInv, SettingsOK
      <4> QED BY <4>1 DEF IInv, AsAsked
    <3> QED BY <3>1, <3>2
  <2> QED BY <2>6, <2>8, <2>9, <2>10 DEF IInv
<1> QED BY <1>1, <1>2

LEMMA KeptByFailure ==
  ASSUME IInv, NEW c \in Call, TransactionFails(c)
  PROVE  IInv'
<1>1. /\ SettingsOK /\ UNCHANGED <<tenantVars, projectVars>> /\ Answer(c, "error")
      /\ DOMAIN read' = Call
  BY DEF IInv, TransactionFails, SettingsOK
<1>2. Moves(c) /\ at'[c] = "end" /\ reply'[c] = "error"
  BY <1>1, Answered
<1> QED BY <1>1, <1>2, TenantSide, ProjectSide DEF IInv

LEMMA Kept == IInv /\ [ApiNext]_apiVars => IInv'
<1> SUFFICES ASSUME IInv, [ApiNext]_apiVars PROVE IInv'
  OBVIOUS
<1>1. ASSUME NEW c \in Call, PutProject(c) PROVE IInv'
  BY <1>1, KeptByPutNew, KeptByPutAgain DEF PutProject
<1>2. CASE UNCHANGED apiVars
  BY <1>2 DEF apiVars, IInv, TenantsOK, SettingsOK, RecordsOK, OneServiceUser, SameTenant,
              AsAsked, Recorded
<1> QED BY <1>1, <1>2, KeptByTick, KeptByGetTenant, KeptByProvision, KeptByGetProject,
           KeptByPatch, KeptByFailure DEF ApiNext

-----------------------------------------------------------------------------
\* IInv holds in every state of a run.
THEOREM Invariance == ApiSpec => []IInv
<1>1. ApiInit => IInv
  BY Initially
<1>2. IInv /\ [ApiNext]_apiVars => IInv'
  BY Kept
<1> QED BY <1>1, <1>2, PTL DEF ApiSpec

\* Calls that run at the same time, are repeated or fail leave one service user
\* to a tenant and in a project what was asked for, except for what a PATCH
\* wrote back (api/tenants.go, api/projects.go:119-134).
THEOREM Explained == ApiSpec => []SettingsExplained
<1>1. IInv => SettingsExplained
  BY DEF IInv, OneServiceUser, SameTenant, AsAsked, Recorded, Record, SettingsExplained
<1> QED BY <1>1, Invariance, PTL

\* A key executes the request of an Idempotency-Key once: there is one record
\* of it, which a repetition is compared with (repository/api_idempotency.go).
ExecutedOnce == \A i, j \in idempotency : i.key = j.key /\ i.idem = j.idem => i = j

THEOREM Once == ApiSpec => []ExecutedOnce
<1>1. IInv => ExecutedOnce
  BY DEF IInv, RecordsOK, ExecutedOnce
<1> QED BY <1>1, Invariance, PTL
=============================================================================
