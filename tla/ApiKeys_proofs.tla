---------------------------- MODULE ApiKeys_proofs ----------------------------
(***************************************************************************)
(* Keys, export slots and windows of ApiKeys, for any requests, tenants,   *)
(* keys and times.  A key never changes its kind, owner or rights, so what *)
(* a rotation read of a key before its transaction still holds in it.      *)
(***************************************************************************)
EXTENDS ApiKeys, FiniteSetTheorems, TLAPS

Rights(row) == <<row.kind, row.tenant, row.project, row.scopes>>

\* Keys are numbered in the order they are issued, and what was read of one is true of it.
KeysInv ==
  /\ \E n \in Nat : Issued = 1..n
  /\ \A k \in KeyId : keys[k].kind = "none" => keys[k].from = None
  /\ \A k \in Issued : keys[k].id = k
  /\ \A r \in Request :
       At(r, "rotate") => LET old == req[r].target
                          IN  /\ old \in Row /\ old.id \in Issued
                              /\ Rights(old) = Rights(keys[old.id])

-----------------------------------------------------------------------------
(* What a step of a request leaves of what its goroutine remembers *)

\* Only r moves; its row and the key it rotates are kept.
Others(r) == \A q \in Request : q # r => req'[q] = req[q]
Moved(r, pc) == /\ req' \in [Request -> Local] /\ Others(r)
                /\ req'[r].pc = pc
                /\ req'[r].row = req[r].row /\ req'[r].target = req[r].target
                /\ req'[r].op = req[r].op

LEMMA SetPc ==
  ASSUME NEW l \in Local, NEW v \in Pc
  PROVE  LET m == [l EXCEPT !.pc = v]
         IN  m \in Local /\ m.pc = v /\ m.row = l.row /\ m.target = l.target /\ m.op = l.op
BY Zenon DEF Local

LEMMA SetRow ==
  ASSUME NEW l \in Local, NEW v \in Row
  PROVE  LET m == [l EXCEPT !.row = v]
         IN  m \in Local /\ m.pc = l.pc /\ m.row = v /\ m.target = l.target /\ m.op = l.op
BY Zenon DEF Local

LEMMA SetT ==
  ASSUME NEW l \in Local, NEW v \in 0..MaxTime
  PROVE  LET m == [l EXCEPT !.t = v]
         IN  m \in Local /\ m.pc = l.pc /\ m.row = l.row /\ m.target = l.target /\ m.op = l.op
BY Zenon DEF Local

LEMMA SetTarget ==
  ASSUME NEW l \in Local, NEW v \in Row
  PROVE  LET m == [l EXCEPT !.target = v]
         IN  m \in Local /\ m.pc = l.pc /\ m.row = l.row /\ m.target = v /\ m.op = l.op
BY Zenon DEF Local

LEMMA SetStatus ==
  ASSUME NEW l \in Local, NEW v \in Status
  PROVE  LET m == [l EXCEPT !.status = v]
         IN  m \in Local /\ m.pc = l.pc /\ m.row = l.row /\ m.target = l.target /\ m.op = l.op
BY Zenon DEF Local

LEMMA SetCounted ==
  ASSUME NEW l \in Local, NEW v \in {"no", "admitted", "refused"}
  PROVE  LET m == [l EXCEPT !.counted = v]
         IN  m \in Local /\ m.pc = l.pc /\ m.row = l.row /\ m.target = l.target /\ m.op = l.op
BY Zenon DEF Local

LEMMA Put ==
  ASSUME TypeOK, NEW r \in Request, NEW next \in Local, req' = [req EXCEPT ![r] = next]
  PROVE  req' \in [Request -> Local] /\ Others(r) /\ req'[r] = next
BY DEF TypeOK, Others

LEMMA GoMoves ==
  ASSUME TypeOK, NEW r \in Request, NEW pc \in Pc, Go(r, pc)
  PROVE  Moved(r, pc)
<1> DEFINE next == [req[r] EXCEPT !.pc = pc]
<1>1. req[r] \in Local
  BY DEF TypeOK
<1>2. /\ next \in Local /\ next.pc = pc /\ next.row = req[r].row /\ next.target = req[r].target
      /\ next.op = req[r].op
  BY <1>1, SetPc
<1>3. req' = [req EXCEPT ![r] = next]
  BY Zenon DEF Go
<1> HIDE DEF next
<1> QED BY <1>2, <1>3, Put DEF Moved

LEMMA AnswerMoves ==
  ASSUME TypeOK, NEW r \in Request, NEW status \in Status, Answer(r, status)
  PROVE  Moved(r, "answered")
<1> DEFINE half == [req[r] EXCEPT !.pc = "answered"]
           next == [half EXCEPT !.status = status]
<1>1. req[r] \in Local /\ "answered" \in Pc
  BY DEF TypeOK, Pc
<1>2. /\ half \in Local /\ half.pc = "answered" /\ half.row = req[r].row /\ half.target = req[r].target
      /\ half.op = req[r].op
  BY <1>1, SetPc
<1>3. req' = [req EXCEPT ![r] = next]
  BY <1>1 DEF Answer
<1> HIDE DEF half
<1>4. /\ next \in Local /\ next.pc = half.pc /\ next.row = half.row /\ next.target = half.target
      /\ next.op = half.op
  BY <1>2, SetStatus
<1> HIDE DEF next
<1> QED BY <1>2, <1>3, <1>4, Put DEF Moved

\* Send and Authenticate set the row.
LEMMA RowMoves ==
  ASSUME TypeOK, NEW r \in Request, NEW pc \in Pc, NEW row \in Row,
         req' = [req EXCEPT ![r].pc = pc, ![r].row = row]
  PROVE  /\ req' \in [Request -> Local] /\ Others(r)
         /\ req'[r].pc = pc /\ req'[r].row = row /\ req'[r].op = req[r].op
<1> DEFINE half == [req[r] EXCEPT !.pc = pc]
           next == [half EXCEPT !.row = row]
<1>1. req[r] \in Local
  BY DEF TypeOK
<1>2. /\ half \in Local /\ half.pc = pc /\ half.op = req[r].op
  BY <1>1, SetPc
<1>3. req' = [req EXCEPT ![r] = next]
  BY <1>1
<1> HIDE DEF half
<1>4. /\ next \in Local /\ next.pc = half.pc /\ next.row = row /\ next.op = half.op
  BY <1>2, SetRow
<1> HIDE DEF next
<1> QED BY <1>2, <1>3, <1>4, Put

LEMMA ClockMoves ==
  ASSUME TypeOK, NEW r \in Request, NEW pc \in Pc, NEW t \in 0..MaxTime,
         req' = [req EXCEPT ![r].pc = pc, ![r].t = t]
  PROVE  Moved(r, pc)
<1> DEFINE half == [req[r] EXCEPT !.pc = pc]
           next == [half EXCEPT !.t = t]
<1>1. req[r] \in Local
  BY DEF TypeOK
<1>2. /\ half \in Local /\ half.pc = pc /\ half.row = req[r].row /\ half.target = req[r].target
      /\ half.op = req[r].op
  BY <1>1, SetPc
<1>3. req' = [req EXCEPT ![r] = next]
  BY <1>1
<1> HIDE DEF half
<1>4. /\ next \in Local /\ next.pc = half.pc /\ next.row = half.row /\ next.target = half.target
      /\ next.op = half.op
  BY <1>2, SetT
<1> HIDE DEF next
<1> QED BY <1>2, <1>3, <1>4, Put DEF Moved

LEMMA TargetMoves ==
  ASSUME TypeOK, NEW r \in Request, NEW pc \in Pc, NEW old \in Row,
         req' = [req EXCEPT ![r].pc = pc, ![r].target = old]
  PROVE  /\ req' \in [Request -> Local] /\ Others(r)
         /\ req'[r].pc = pc /\ req'[r].row = req[r].row /\ req'[r].target = old
         /\ req'[r].op = req[r].op
<1> DEFINE half == [req[r] EXCEPT !.pc = pc]
           next == [half EXCEPT !.target = old]
<1>1. req[r] \in Local
  BY DEF TypeOK
<1>2. /\ half \in Local /\ half.pc = pc /\ half.row = req[r].row /\ half.op = req[r].op
  BY <1>1, SetPc
<1>3. req' = [req EXCEPT ![r] = next]
  BY <1>1
<1> HIDE DEF half
<1>4. /\ next \in Local /\ next.pc = half.pc /\ next.row = half.row /\ next.target = old
      /\ next.op = half.op
  BY <1>2, SetTarget
<1> HIDE DEF next
<1> QED BY <1>2, <1>3, <1>4, Put

\* Count sets the verdict, and the status if it refuses.
LEMMA CountMoves ==
  ASSUME TypeOK, NEW r \in Request, Count(r)
  PROVE  Moved(r, "serve") \/ Moved(r, "answered")
<1>1. req[r] \in Local /\ "serve" \in Pc /\ "answered" \in Pc /\ "rate_limited" \in Status
  BY DEF TypeOK, Pc, Status
<1>2. ASSUME req' = [req EXCEPT ![r].pc = "serve", ![r].counted = "admitted"]
      PROVE  Moved(r, "serve")
  <2> DEFINE half == [req[r] EXCEPT !.pc = "serve"]
             next == [half EXCEPT !.counted = "admitted"]
  <2>1. /\ half \in Local /\ half.pc = "serve" /\ half.row = req[r].row
        /\ half.target = req[r].target /\ half.op = req[r].op
    BY <1>1, SetPc
  <2>2. req' = [req EXCEPT ![r] = next]
    BY <1>1, <1>2
  <2> HIDE DEF half
  <2>3. /\ next \in Local /\ next.pc = half.pc /\ next.row = half.row
        /\ next.target = half.target /\ next.op = half.op
    BY <2>1, SetCounted
  <2> HIDE DEF next
  <2> QED BY <2>1, <2>2, <2>3, Put DEF Moved
<1>3. ASSUME req' = [req EXCEPT ![r].pc = "answered", ![r].counted = "refused",
                                ![r].status = "rate_limited"]
      PROVE  Moved(r, "answered")
  <2> DEFINE half == [req[r] EXCEPT !.pc = "answered"]
             more == [half EXCEPT !.counted = "refused"]
             next == [more EXCEPT !.status = "rate_limited"]
  <2>1. /\ half \in Local /\ half.pc = "answered" /\ half.row = req[r].row
        /\ half.target = req[r].target /\ half.op = req[r].op
    BY <1>1, SetPc
  <2>2. req' = [req EXCEPT ![r] = next]
    BY <1>1, <1>3
  <2> HIDE DEF half
  <2>3. /\ more \in Local /\ more.pc = half.pc /\ more.row = half.row
        /\ more.target = half.target /\ more.op = half.op
    BY <2>1, SetCounted
  <2> HIDE DEF more
  <2>4. /\ next \in Local /\ next.pc = more.pc /\ next.row = more.row
        /\ next.target = more.target /\ next.op = more.op
    BY <1>1, <2>3, SetStatus
  <2> HIDE DEF next
  <2> QED BY <2>1, <2>2, <2>3, <2>4, Put DEF Moved
<1> QED BY <1>2, <1>3 DEF Count

-----------------------------------------------------------------------------
(* Types *)

LEMMA InitType == Init => TypeOK
<1> SUFFICES ASSUME Init PROVE TypeOK
  OBVIOUS
<1>1. NoRow \in Row
  BY KeysAssumption DEF NoRow, Row, Scopes, Never
<1>2. keys \in [KeyId -> Row]
  BY <1>1, KeysAssumption DEF Init, KeyId
<1>3. req \in [Request -> Local]
  <2>1. PICK ops \in Workload : req = [r \in Request |-> [Idle EXCEPT !.op = ops[r]]]
    BY DEF Init
  <2>2. \A r \in Request : ops[r] \in Op
    BY <2>1, KeysAssumption
  <2>3. Idle \in Local
    BY <1>1, KeysAssumption DEF Idle, Local, Op, Pc, Status
  <2>4. ASSUME NEW r \in Request PROVE [Idle EXCEPT !.op = ops[r]] \in Local
    BY <2>2, <2>3, Zenon DEF Local
  <2> QED BY <2>1, <2>4
<1>4. windows \in [Class \X Subject -> [start : Int, count : Nat]]
  BY DEF Init, LimiterInit, NoWindow
<1>5. now \in 0..MaxTime /\ late \subseteq Request
  BY KeysAssumption DEF Init
<1>6. perKey \in [Tenant -> Int] /\ total \in Int /\ holders \subseteq Request
  BY DEF Init, Slots!BudgetInit
<1> QED BY <1>2, <1>3, <1>4, <1>5, <1>6 DEF TypeOK

-----------------------------------------------------------------------------
(* What a step does to the keys *)

LEMMA NewId ==
  ASSUME KeysInv
  PROVE  /\ NextId \in Nat \ {0} /\ NextId \notin Issued
         /\ Issued \cup {NextId} = 1..NextId
<1>1. PICK n \in Nat : Issued = 1..n
  BY DEF KeysInv
<1>2. Cardinality(1..n) = n
  BY FS_Interval
<1>3. NextId = n + 1
  BY <1>1, <1>2 DEF NextId
<1> QED BY <1>1, <1>3

LEMMA Rows == NoRow \in Row /\ RootRow \in Row
BY KeysAssumption DEF NoRow, RootRow, Row, Scopes, Never

Created == \E row \in Row :
  /\ NextId \in KeyId /\ keys' = [keys EXCEPT ![NextId] = row]
  /\ row.id = NextId /\ row.kind # "none" /\ row.from = None
Revoked == \E k \in Issued : keys' = [keys EXCEPT ![k].revoked = TRUE]
Rotated == \E old \in Row :
  /\ old.id \in Issued /\ Rights(old) = Rights(keys[old.id]) /\ ~keys[old.id].revoked
  /\ NextId \in KeyId
  /\ keys' = [keys EXCEPT ![old.id].expires = now + Overlap, ![NextId] = Replacement(old)]
KeysStep ==
  \/ keys' = keys /\ now' \in {now, now + 1}
  \/ now' = now /\ (Created \/ Revoked \/ Rotated)

\* A request that is about to rotate a key holds a row it read.
Recalls == \A q \in Request :
  req'[q].pc = "rotate" =>
    \/ At(q, "rotate") /\ req'[q].target = req[q].target
    \/ \E k \in Issued : req'[q].target = keys[k]

LEMMA FillRow ==
  ASSUME NEW in \in Input, NEW tenant \in Tenant \cup {None},
         NEW project \in Project \cup {None}, NextId \in KeyId
  PROVE  LET row == NewRow(in, tenant, project)
         IN  row \in Row /\ row.id = NextId /\ row.kind = in.kind /\ row.from = None
<1>1. /\ in.kind \in {"platform", "tenant", "read_only"} /\ in.scopes \in Scopes
      /\ in.expires \in Nat
  BY KeysAssumption
<1> QED BY <1>1 DEF NewRow, Row

LEMMA CreateKeys ==
  ASSUME TypeOK, NEW r \in Request, NEW STATE ok, NEW in \in Input,
         NEW tenant \in Tenant \cup {None}, NEW project \in Project \cup {None},
         Create(r, ok, NewRow(in, tenant, project))
  PROVE  KeysStep /\ Moved(r, "answered")
<1>1. Moved(r, "answered")
  BY AnswerMoves DEF Create, Status
<1>2. in.kind # "none"
  BY KeysAssumption
<1>3. KeysStep
  BY <1>2, FillRow DEF Create, KeysStep, Created
<1> QED BY <1>1, <1>3

LEMMA FindMoves ==
  ASSUME TypeOK, NEW r \in Request, NEW STATE reached, FindOld(r, reached)
  PROVE  /\ req' \in [Request -> Local] /\ Others(r)
         /\ req'[r].op = req[r].op /\ req'[r].row = req[r].row
         /\ \/ req'[r].pc = "answered"
            \/ req'[r].pc = "rotate" /\ \E k \in Issued : req'[r].target = keys[k]
<1>1. PICK k \in Issued : \/ req' = [req EXCEPT ![r].pc = "rotate", ![r].target = keys[k]]
                          \/ Answer(r, "not_found")
  BY DEF FindOld
<1>2. keys[k] \in Row /\ "rotate" \in Pc /\ "not_found" \in Status
  BY DEF TypeOK, Issued, Pc, Status
<1>3. CASE Answer(r, "not_found")
  BY <1>2, <1>3, AnswerMoves DEF Moved
<1>4. CASE req' = [req EXCEPT ![r].pc = "rotate", ![r].target = keys[k]]
  <2>1. /\ req' \in [Request -> Local] /\ Others(r)
        /\ req'[r].pc = "rotate" /\ req'[r].row = req[r].row /\ req'[r].target = keys[k]
        /\ req'[r].op = req[r].op
    BY <1>2, <1>4, TargetMoves, Zenon
  <2> QED BY <2>1
<1> QED BY <1>1, <1>3, <1>4

LEMMA RotateKeys ==
  ASSUME TypeOK, KeysInv, NEW r \in Request, At(r, "rotate"), NEW STATE reach,
         Rotate(r, reach /\ ~keys[req[r].target.id].revoked)
  PROVE  KeysStep /\ Moved(r, "answered")
<1>1. Moved(r, "answered")
  BY AnswerMoves DEF Rotate, Status
<1> DEFINE old == req[r].target
<1>2. old \in Row /\ old.id \in Issued /\ Rights(old) = Rights(keys[old.id])
  BY DEF KeysInv
<1>3. KeysStep
  BY <1>2 DEF Rotate, KeysStep, Rotated
<1> QED BY <1>1, <1>3

LEMMA RevokeKeys ==
  ASSUME TypeOK, NEW r \in Request, NEW k \in Issued, NEW STATE reach, Revoke(r, k, reach)
  PROVE  KeysStep /\ Moved(r, "answered")
<1>1. Moved(r, "answered")
  BY AnswerMoves DEF Revoke, Status
<1>2. KeysStep
  BY DEF Revoke, KeysStep, Revoked
<1> QED BY <1>1, <1>2

-----------------------------------------------------------------------------
(* Every step, by its effect on the keys and on the requests *)

\* Nothing but r's memory, windows, late and the slots may change.
Quiet(r) == /\ keys' = keys /\ now' = now
            /\ req' \in [Request -> Local] /\ Others(r) /\ req'[r].op = req[r].op
            /\ req'[r].pc # "rotate"

LEMMA SendQuiet ==
  ASSUME TypeOK, NEW r \in Request, NEW cred \in Issued \cup {Root, None}, Send(r, cred)
  PROVE  Quiet(r) /\ req'[r].pc = "found"
<1> DEFINE row == CASE cred = Root -> RootRow [] cred = None -> NoRow [] OTHER -> keys[cred]
<1>1. row \in Row
  BY Rows DEF TypeOK, Issued
<1>2. req' = [req EXCEPT ![r].pc = "found", ![r].row = row] /\ "found" \in Pc
  BY Zenon DEF Send, Pc
<1> HIDE DEF row
<1>3. req' \in [Request -> Local] /\ Others(r) /\ req'[r].pc = "found" /\ req'[r].op = req[r].op
  BY <1>1, <1>2, RowMoves, Zenon
<1> QED BY <1>3 DEF Quiet, Send

LEMMA AuthenticateQuiet ==
  ASSUME TypeOK, NEW r \in Request, Authenticate(r)
  PROVE  /\ Quiet(r) /\ req'[r].pc \in {"serve", "slot", "clock"}
         /\ req'[r].pc = "slot" => req[r].op = "export"
         /\ req'[r].pc = "clock" => req[r].op # "export"
<1> DEFINE ok == req[r].row.kind = "root" \/ Live(req[r].row, now)
           row == IF ok THEN req[r].row ELSE NoRow
           pc == CASE ~ok \/ ClassOf(req[r].op) = "none" -> "serve"
                   [] ClassOf(req[r].op) = "export" -> "slot"
                   [] OTHER -> "clock"
<1>1. req[r] \in Local /\ req[r].row \in Row
  BY DEF TypeOK, Local
<1>2. row \in Row
  BY <1>1, Rows
<1>3. /\ pc \in {"serve", "slot", "clock"}
      /\ pc = "slot" => req[r].op = "export"
      /\ pc = "clock" => req[r].op # "export"
  BY DEF ClassOf
<1>4. pc \in Pc
  BY <1>3 DEF Pc
<1>5. req' = [req EXCEPT ![r].pc = pc, ![r].row = row]
  BY Zenon DEF Authenticate
<1> HIDE DEF pc, row
<1>6. req' \in [Request -> Local] /\ Others(r) /\ req'[r].pc = pc /\ req'[r].op = req[r].op
  BY <1>2, <1>4, <1>5, RowMoves, Zenon
<1> QED BY <1>3, <1>6 DEF Quiet, Authenticate

LEMMA MovedQuiet ==
  ASSUME NEW r \in Request, NEW pc, pc # "rotate", Moved(r, pc), keys' = keys, now' = now
  PROVE  Quiet(r)
BY DEF Moved, Quiet

LEMMA ReadClockMoves ==
  ASSUME TypeOK, NEW r \in Request, ReadClock(r)
  PROVE  Quiet(r) /\ (Moved(r, "count") \/ Moved(r, "serve"))
<1> DEFINE counted == /\ CountedFor(req[r].op, req[r].row) # None
                      /\ Limited(ClassOf(req[r].op))
           pc == IF counted THEN "count" ELSE "serve"
<1>1. pc \in {"count", "serve"}
  OBVIOUS
<1>2. req' = [req EXCEPT ![r].pc = pc, ![r].t = now] /\ now \in 0..MaxTime /\ pc \in Pc
  BY <1>1 DEF ReadClock, TypeOK, Pc
<1> HIDE DEF pc
<1>3. Moved(r, pc)
  BY <1>2, ClockMoves, Zenon
<1> QED BY <1>1, <1>3, MovedQuiet DEF ReadClock

LEMMA TakeSlotMoves ==
  ASSUME TypeOK, NEW r \in Request, TakeSlot(r)
  PROVE  Quiet(r) /\ (Moved(r, "clock") \/ Moved(r, "answered"))
<1>1. CASE Go(r, "clock")
  BY <1>1, GoMoves, MovedQuiet DEF TakeSlot, Pc
<1>2. CASE Answer(r, "rate_limited")
  BY <1>2, AnswerMoves, MovedQuiet DEF TakeSlot, Status
<1> QED BY <1>1, <1>2 DEF TakeSlot

LEMMA CountQuiet ==
  ASSUME TypeOK, NEW r \in Request, Count(r)
  PROVE  Quiet(r) /\ (Moved(r, "serve") \/ Moved(r, "answered"))
BY CountMoves, MovedQuiet DEF Count

LEMMA RefuseMoves ==
  ASSUME TypeOK, NEW r \in Request, Refuse(r)
  PROVE  Quiet(r) /\ Moved(r, "answered")
<1>1. \/ Answer(r, "unauthenticated") \/ Answer(r, "forbidden")
  BY DEF Refuse
<1> QED BY <1>1, AnswerMoves, MovedQuiet DEF Refuse, Status

LEMMA ServeMoves ==
  ASSUME TypeOK, NEW r \in Request, Serve(r)
  PROVE  Quiet(r) /\ Moved(r, "answered")
<1>1. \/ Answer(r, "success") \/ Answer(r, "error")
  BY DEF Serve
<1> QED BY <1>1, AnswerMoves, MovedQuiet DEF Serve, Status

LEMMA FinishMoves ==
  ASSUME TypeOK, NEW r \in Request, Finish(r)
  PROVE  Quiet(r) /\ Moved(r, "done")
BY GoMoves, MovedQuiet DEF Finish, Pc

\* The operations that issue, rotate and revoke keys.
KeyOperation(r) ==
  \/ IssuePlatformKey(r) \/ IssueTenantKey(r) \/ IssueDelegatedKey(r)
  \/ RotateAPIKey(r) \/ RotateTenantAPIKey(r) \/ RevokeAPIKey(r) \/ RevokeTenantAPIKey(r)

LEMMA KeyOperationMoves ==
  ASSUME TypeOK, KeysInv, NEW r \in Request, KeyOperation(r)
  PROVE  KeysStep /\ Moved(r, "answered") /\ UNCHANGED <<windows, late, slotVars>>
<1> DEFINE Goal == KeysStep /\ Moved(r, "answered")
<1>1. CASE IssuePlatformKey(r)
  <2>1. PICK in \in Input :
          Create(r, in.kind = "platform" /\ ValidScopes("platform", in.scopes)
                      /\ in.expires > now, NewRow(in, None, None))
    BY <1>1 DEF IssuePlatformKey
  <2> QED BY <2>1, CreateKeys DEF Create
<1>2. CASE IssueTenantKey(r)
  <2>1. PICK in \in Input, tenant \in Tenant :
          Create(r, in.kind = "tenant" /\ ValidScopes("tenant", in.scopes) /\ in.expires > now,
                 NewRow(in, tenant, None))
    BY <1>2 DEF IssueTenantKey
  <2> QED BY <2>1, CreateKeys DEF Create
<1>3. CASE IssueDelegatedKey(r)
  <2> DEFINE ok(in) == /\ in.kind \in TenantKinds
                       /\ ValidScopes(in.kind, in.scopes)
                       /\ in.project # None => /\ in.kind = "read_only"
                                               /\ OwnerOf[in.project] = req[r].row.tenant
  <2>1. PICK in \in Input : Create(r, ok(in), NewRow(in, req[r].row.tenant, in.project))
    BY <1>3 DEF IssueDelegatedKey
  <2>2. in.project \in Project \cup {None} /\ req[r].row.tenant \in Tenant \cup {None}
    BY KeysAssumption DEF TypeOK, Local, Row
  <2> QED BY <2>1, <2>2, CreateKeys DEF Create
<1>4. CASE RotateAPIKey(r)
  BY <1>4, RotateKeys DEF RotateAPIKey, Rotate
<1>5. CASE RotateTenantAPIKey(r)
  BY <1>5, RotateKeys DEF RotateTenantAPIKey, Rotate
<1>6. CASE RevokeAPIKey(r)
  BY <1>6, RevokeKeys DEF RevokeAPIKey, Revoke
<1>7. CASE RevokeTenantAPIKey(r)
  BY <1>7, RevokeKeys DEF RevokeTenantAPIKey, Revoke
<1> QED BY <1>1, <1>2, <1>3, <1>4, <1>5, <1>6, <1>7 DEF KeyOperation

-----------------------------------------------------------------------------
(* The invariant of the keys *)

IInv == TypeOK /\ KeysInv

LEMMA InitKeys == Init => KeysInv
<1> SUFFICES ASSUME Init PROVE KeysInv
  OBVIOUS
<1> DEFINE n == Len(FirstKeys)
<1>1. n \in Nat /\ n <= MaxKeys /\ DOMAIN FirstKeys = 1..n
  BY KeysAssumption
<1>2. \A k \in KeyId : k <= n => keys[k].kind # "none" /\ keys[k].id = k
  BY <1>1, KeysAssumption DEF Init, KeyId
<1>3. \A k \in KeyId : ~(k <= n) => keys[k] = NoRow
  BY DEF Init
<1>4. Issued = 1..n
  BY <1>1, <1>2, <1>3, KeysAssumption DEF Issued, NoRow, KeyId
<1>5. \A k \in KeyId : keys[k].kind = "none" => keys[k].from = None
  BY <1>2, <1>3 DEF NoRow
<1>6. \A k \in Issued : keys[k].id = k
  BY <1>1, <1>2, <1>4, KeysAssumption DEF KeyId
<1>7. \A r \in Request : ~At(r, "rotate")
  BY DEF Init, At, Idle
<1> QED BY <1>1, <1>4, <1>5, <1>6, <1>7 DEF KeysInv

\* An issued key keeps its number and its rights; new ones are numbered on.
Extended ==
  /\ keys' \in [KeyId -> Row]
  /\ \A k \in Issued : keys'[k].kind # "none" /\ keys'[k].id = keys[k].id
                       /\ Rights(keys'[k]) = Rights(keys[k])
  /\ \/ \A k \in KeyId \ Issued : keys'[k] = keys[k]
     \/ /\ NextId \in KeyId /\ keys'[NextId].kind # "none" /\ keys'[NextId].id = NextId
        /\ \A k \in KeyId \ Issued : k # NextId => keys'[k] = keys[k]

LEMMA KeepRow ==
  ASSUME NEW row \in Row, NEW v \in Nat, NEW b \in BOOLEAN
  PROVE  LET m == [row EXCEPT !.expires = v]
             d == [row EXCEPT !.revoked = b]
         IN  /\ m \in Row /\ m.id = row.id /\ Rights(m) = Rights(row) /\ m.kind = row.kind
             /\ m.expires = v /\ m.from = row.from
             /\ d \in Row /\ d.id = row.id /\ Rights(d) = Rights(row) /\ d.kind = row.kind
             /\ d.expires = row.expires /\ d.from = row.from
BY Zenon DEF Row, Rights

LEMMA Replaces ==
  ASSUME NEW old \in Row, old.id \in KeyId, NextId \in KeyId
  PROVE  LET m == Replacement(old)
         IN  m \in Row /\ m.id = NextId /\ m.from = old.id /\ Rights(m) = Rights(old)
             /\ m.kind = old.kind
BY Zenon DEF Replacement, Row, Rights

LEMMA RotatedKeys ==
  ASSUME TypeOK, KeysInv, NEW old \in Row, old.id \in Issued, NextId \in KeyId,
         keys' = [keys EXCEPT ![old.id].expires = now + Overlap, ![NextId] = Replacement(old)]
  PROVE  /\ old.id # NextId
         /\ keys'[NextId] = Replacement(old)
         /\ keys'[old.id] = [keys[old.id] EXCEPT !.expires = now + Overlap]
         /\ \A k \in KeyId : k # old.id /\ k # NextId => keys'[k] = keys[k]
<1> DEFINE m == [keys[old.id] EXCEPT !.expires = now + Overlap]
<1>1. old.id # NextId /\ old.id \in KeyId
  BY NewId DEF Issued
<1>2. keys' = [keys EXCEPT ![old.id] = m, ![NextId] = Replacement(old)]
  BY Zenon
<1> HIDE DEF m
<1>3. /\ keys'[NextId] = Replacement(old) /\ keys'[old.id] = m
      /\ \A k \in KeyId : k # old.id /\ k # NextId => keys'[k] = keys[k]
  BY <1>1, <1>2 DEF TypeOK
<1> QED BY <1>1, <1>3 DEF m

LEMMA KeysExtended ==
  ASSUME TypeOK, KeysInv, KeysStep
  PROVE  Extended
<1>0. /\ keys \in [KeyId -> Row] /\ Issued \subseteq KeyId /\ NextId \notin Issued
      /\ \A k \in Issued : keys[k].kind # "none"
  BY NewId DEF TypeOK, Issued
<1>1. CASE keys' = keys
  BY <1>0, <1>1 DEF Extended
<1>2. CASE Created
  BY <1>0, <1>2 DEF Created, Extended
<1>3. CASE Revoked
  <2>1. PICK k \in Issued : keys' = [keys EXCEPT ![k].revoked = TRUE]
    BY <1>3 DEF Revoked
  <2> DEFINE d == [keys[k] EXCEPT !.revoked = TRUE]
  <2>2. /\ d \in Row /\ d.id = keys[k].id /\ Rights(d) = Rights(keys[k])
        /\ d.kind = keys[k].kind
    BY <1>0, KeepRow
  <2>3. keys' = [keys EXCEPT ![k] = d]
    BY <2>1, Zenon
  <2> HIDE DEF d
  <2> QED BY <1>0, <2>2, <2>3 DEF Extended
<1>4. CASE Rotated
  <2>1. PICK old \in Row :
          /\ old.id \in Issued /\ Rights(old) = Rights(keys[old.id])
          /\ NextId \in KeyId
          /\ keys' = [keys EXCEPT ![old.id].expires = now + Overlap,
                                  ![NextId] = Replacement(old)]
    BY <1>4 DEF Rotated
  <2>2. now + Overlap \in Nat
    BY KeysAssumption DEF TypeOK
  <2> DEFINE m == [keys[old.id] EXCEPT !.expires = now + Overlap]
             new == Replacement(old)
  <2>3. /\ m \in Row /\ m.id = keys[old.id].id /\ Rights(m) = Rights(keys[old.id])
        /\ m.kind = keys[old.id].kind
    BY <1>0, <2>1, <2>2, KeepRow
  <2>4. new \in Row /\ new.id = NextId /\ new.kind = old.kind
    BY <1>0, <2>1, Replaces
  <2>5. /\ old.id # NextId /\ keys'[NextId] = new /\ keys'[old.id] = m
        /\ \A k \in KeyId : k # old.id /\ k # NextId => keys'[k] = keys[k]
    BY <2>1, RotatedKeys
  <2>6. keys' \in [KeyId -> Row]
    <3>1. keys' = [keys EXCEPT ![old.id] = m, ![NextId] = new]
      BY <2>1, Zenon
    <3> HIDE DEF m, new
    <3> QED BY <1>0, <2>3, <2>4, <3>1
  <2>7. old.kind = keys[old.id].kind
    BY <2>1 DEF Rights
  <2> HIDE DEF m, new
  <2> QED BY <1>0, <2>1, <2>3, <2>4, <2>5, <2>6, <2>7 DEF Extended
<1> QED BY <1>1, <1>2, <1>3, <1>4 DEF KeysStep

LEMMA KeysKept ==
  ASSUME TypeOK, KeysInv, Extended, Recalls
  PROVE  KeysInv'
<1>0. /\ NextId \in Nat \ {0} /\ NextId \notin Issued /\ Issued \cup {NextId} = 1..NextId
      /\ Issued \subseteq KeyId
  BY NewId DEF Issued
<1>1. Issued' = Issued \/ Issued' = Issued \cup {NextId}
  BY <1>0 DEF Extended, Issued
<1>2. \E n \in Nat : Issued' = 1..n
  BY <1>0, <1>1 DEF KeysInv
<1>3. \A k \in KeyId : keys'[k].kind = "none" => keys'[k].from = None
  BY <1>0 DEF Extended, KeysInv, Issued
<1>4. \A k \in Issued' : keys'[k].id = k
  BY <1>0 DEF Extended, KeysInv, Issued
<1>5. ASSUME NEW r \in Request, req'[r].pc = "rotate"
      PROVE  LET old == req'[r].target
             IN  old \in Row /\ old.id \in Issued' /\ Rights(old) = Rights(keys'[old.id])
  <2> DEFINE old == req'[r].target
  <2>1. old \in Row /\ old.id \in Issued /\ Rights(old) = Rights(keys[old.id])
    <3>1. CASE At(r, "rotate") /\ old = req[r].target
      BY <3>1 DEF KeysInv
    <3>2. CASE \E k \in Issued : old = keys[k]
      BY <1>0, <3>2 DEF KeysInv, TypeOK
    <3> QED BY <1>5, <3>1, <3>2 DEF Recalls
  <2>2. old.id \in Issued'
    BY <1>1, <2>1
  <2>3. Rights(keys'[old.id]) = Rights(keys[old.id])
    BY <2>1 DEF Extended
  <2> QED BY <2>1, <2>2, <2>3
<1> QED BY <1>2, <1>3, <1>4, <1>5 DEF KeysInv, At

-----------------------------------------------------------------------------
(* Every step keeps the invariant *)

WindowsType == windows \in [Class \X Subject -> [start : Int, count : Nat]]
SlotsType == perKey \in [Tenant -> Int] /\ total \in Int /\ holders \subseteq Request

LEMMA AllowType ==
  ASSUME WindowsType, NEW STATE class, NEW STATE s, NEW STATE t, t \in Int, Allow(class, s, t)
  PROVE  WindowsType'
<1> DEFINE cur == Current(class, s, t)
           n == IF Admits(class, s, t) THEN cur.count + 1 ELSE cur.count
           next == [cur EXCEPT !.count = n]
<1>1. windows' = [windows EXCEPT ![<<class, s>>] = next]
  BY Zenon DEF Allow
<1>2. ASSUME <<class, s>> \in Class \X Subject
      PROVE  next \in [start : Int, count : Nat]
  <2>1. WindowAt(t) \in Int
    BY LimiterAssumption DEF WindowAt
  <2>2. cur \in [start : Int, count : Nat]
    BY <1>2, <2>1 DEF Current, WindowsType
  <2>3. n \in Nat
    BY <2>2
  <2> HIDE DEF cur, n
  <2> QED BY <2>2, <2>3
<1> HIDE DEF next
<1> QED BY <1>1, <1>2 DEF WindowsType

LEMMA AcquireType ==
  ASSUME SlotsType, NEW r \in Request, NEW STATE tenant, Slots!Acquire(tenant, r)
  PROVE  SlotsType'
<1>1. /\ perKey' = [perKey EXCEPT ![tenant] = @ + 1]
      /\ total' = total + 1 /\ holders' = holders \cup {r}
  BY DEF Slots!Acquire
<1>2. perKey' \in [Tenant -> Int]
  <2> DEFINE n == perKey[tenant] + 1
  <2>1. tenant \in Tenant => n \in Int
    BY DEF SlotsType
  <2>2. perKey' = [perKey EXCEPT ![tenant] = n]
    BY <1>1
  <2> HIDE DEF n
  <2> QED BY <2>1, <2>2 DEF SlotsType
<1>3. total' \in Int
  BY <1>1 DEF SlotsType
<1>4. holders' \subseteq Request
  BY <1>1 DEF SlotsType
<1> QED BY <1>2, <1>3, <1>4 DEF SlotsType

LEMMA ReleaseType ==
  ASSUME SlotsType, NEW r \in Request, NEW STATE tenant, Slots!Release(tenant, r)
  PROVE  SlotsType'
BY DEF SlotsType, Slots!Release, Slots!budgetVars

\* What Quiet says of a step, with the rest of the state.
QuietStep(r) ==
  \/ \E cred \in Issued \cup {Root, None} : Send(r, cred)
  \/ Authenticate(r) \/ TakeSlot(r) \/ ReadClock(r) \/ Count(r) \/ Refuse(r) \/ Serve(r)
  \/ Finish(r)
Find(r) == FindPlatformKey(r) \/ FindTenantKey(r)

LEMMA StepKinds ==
  ASSUME NEW r \in Request, Step(r)
  PROVE  QuietStep(r) \/ Find(r) \/ KeyOperation(r)
BY DEF Step, QuietStep, Find, KeyOperation

LEMMA QuietStepQuiet ==
  ASSUME TypeOK, NEW r \in Request, QuietStep(r)
  PROVE  Quiet(r)
BY SendQuiet, AuthenticateQuiet, TakeSlotMoves, ReadClockMoves, CountQuiet, RefuseMoves,
   ServeMoves, FinishMoves DEF QuietStep

LEMMA FindIs ==
  ASSUME NEW r \in Request, Find(r)
  PROVE  /\ req[r].op \in {"rootRotate", "rotate"} /\ At(r, "serve")
         /\ FindOld(r, [k \in KeyId |-> PlatformReach(keys[k])])
              \/ FindOld(r, [k \in KeyId |-> TenantReach(req[r].row, keys[k])])
BY DEF Find, FindPlatformKey, FindTenantKey, Serving

LEMMA StepRecalls ==
  ASSUME TypeOK, NEW r \in Request, Others(r),
         req'[r].pc = "rotate" => \E k \in Issued : req'[r].target = keys[k]
  PROVE  Recalls
BY DEF Recalls, Others, At

LEMMA RestType ==
  ASSUME TypeOK, NEW r \in Request, QuietStep(r)
  PROVE  WindowsType' /\ (late \subseteq Request)' /\ SlotsType'
<1>0. WindowsType /\ SlotsType
  BY DEF TypeOK, WindowsType, SlotsType
<1>1. CASE \E cred \in Issued \cup {Root, None} : Send(r, cred)
  BY <1>0, <1>1 DEF TypeOK, Send, WindowsType, SlotsType, slotVars
<1>2. CASE Authenticate(r)
  BY <1>0, <1>2 DEF TypeOK, Authenticate, WindowsType, SlotsType, slotVars
<1>3. CASE TakeSlot(r)
  <2>1. SlotsType'
    BY <1>0, <1>3, AcquireType DEF TakeSlot, slotVars, SlotsType
  <2> QED BY <1>0, <1>3, <2>1 DEF TypeOK, TakeSlot, WindowsType
<1>4. CASE ReadClock(r)
  BY <1>0, <1>4 DEF TypeOK, ReadClock, WindowsType, SlotsType, slotVars
<1>5. CASE Count(r)
  <2>1. req[r].t \in Int
    BY DEF TypeOK, Local
  <2>2. WindowsType'
    BY <1>0, <1>5, <2>1, AllowType DEF Count
  <2>3. (late \subseteq Request)'
    BY <1>5 DEF Count, TypeOK
  <2> QED BY <1>0, <1>5, <2>2, <2>3 DEF Count, SlotsType, slotVars
<1>6. CASE Refuse(r)
  BY <1>0, <1>6 DEF TypeOK, Refuse, WindowsType, SlotsType, slotVars
<1>7. CASE Serve(r)
  BY <1>0, <1>7 DEF TypeOK, Serve, WindowsType, SlotsType, slotVars
<1>8. CASE Finish(r)
  <2>1. SlotsType'
    BY <1>0, <1>8, ReleaseType DEF Finish, slotVars, SlotsType
  <2> QED BY <1>0, <1>8, <2>1 DEF TypeOK, Finish, WindowsType
<1> QED BY <1>1, <1>2, <1>3, <1>4, <1>5, <1>6, <1>7, <1>8 DEF QuietStep

LEMMA StepKeeps ==
  ASSUME IInv, [Next]_vars
  PROVE  IInv' /\ KeysStep
<1>0. TypeOK /\ KeysInv
  BY DEF IInv
<1> DEFINE NowType == now' \in 0..MaxTime
           Rest == WindowsType' /\ (late \subseteq Request)' /\ SlotsType'
<1>1. SUFFICES KeysStep /\ Recalls /\ NowType /\ req' \in [Request -> Local] /\ Rest
  <2>1. Extended /\ KeysInv'
    BY <1>0, <1>1, KeysExtended, KeysKept
  <2>2. TypeOK'
    BY <1>1, <2>1 DEF Extended, TypeOK, WindowsType, SlotsType
  <2> QED BY <1>1, <2>1, <2>2 DEF IInv
<1>2. CASE UNCHANGED vars
  BY <1>0, <1>2 DEF vars, slotVars, KeysStep, Recalls, At, TypeOK, WindowsType, SlotsType
<1>3. CASE Tick
  <2>1. NowType
    BY <1>0, <1>3, KeysAssumption DEF Tick, TypeOK
  <2> QED BY <1>0, <1>3, <2>1
          DEF Tick, slotVars, KeysStep, Recalls, At, TypeOK, WindowsType, SlotsType
<1>4. ASSUME NEW r \in Request, QuietStep(r)
      PROVE  KeysStep /\ Recalls /\ NowType /\ req' \in [Request -> Local] /\ Rest
  <2>1. Quiet(r)
    BY <1>0, <1>4, QuietStepQuiet
  <2>2. Rest
    BY <1>0, <1>4, RestType
  <2>3. Recalls
    BY <1>0, <2>1, StepRecalls DEF Quiet
  <2> QED BY <1>0, <2>1, <2>2, <2>3 DEF Quiet, KeysStep, TypeOK
<1>5. ASSUME NEW r \in Request, Find(r)
      PROVE  KeysStep /\ Recalls /\ NowType /\ req' \in [Request -> Local] /\ Rest
  <2>1. UNCHANGED <<now, keys, windows, late, slotVars>>
    BY <1>5, FindIs DEF FindOld
  <2>2. /\ req' \in [Request -> Local] /\ Others(r)
        /\ \/ req'[r].pc = "answered"
           \/ req'[r].pc = "rotate" /\ \E k \in Issued : req'[r].target = keys[k]
    BY <1>0, <1>5, FindIs, FindMoves
  <2>3. Recalls
    BY <1>0, <2>2, StepRecalls
  <2> QED BY <1>0, <2>1, <2>2, <2>3 DEF slotVars, KeysStep, TypeOK, WindowsType, SlotsType
<1>6. ASSUME NEW r \in Request, KeyOperation(r)
      PROVE  KeysStep /\ Recalls /\ NowType /\ req' \in [Request -> Local] /\ Rest
  <2>1. KeysStep /\ Moved(r, "answered") /\ UNCHANGED <<windows, late, slotVars>>
    BY <1>0, <1>6, KeyOperationMoves
  <2>2. now' = now
    BY <1>6 DEF KeyOperation, IssuePlatformKey, IssueTenantKey, IssueDelegatedKey, Create,
         RotateAPIKey, RotateTenantAPIKey, Rotate, RevokeAPIKey, RevokeTenantAPIKey, Revoke
  <2>3. Recalls
    BY <1>0, <2>1, StepRecalls DEF Moved
  <2> QED BY <1>0, <2>1, <2>2, <2>3 DEF Moved, slotVars, TypeOK, WindowsType, SlotsType
<1> QED BY <1>2, <1>3, <1>4, <1>5, <1>6, StepKinds DEF Next

\* Keys are numbered without gaps; one that was issued keeps its number, kind, owner and
\* scopes; and what a rotation read of them is still true when its transaction starts.
THEOREM Invariance == Spec => []IInv
<1>1. Init => IInv
  BY InitType, InitKeys DEF IInv
<1>2. IInv /\ [Next]_vars => IInv'
  BY StepKeeps
<1> QED BY <1>1, <1>2, PTL DEF Spec

\* The types of the rows, requests, windows and slots.
THEOREM TypeCorrect == Spec => []TypeOK
<1>1. IInv => TypeOK
  BY DEF IInv
<1> QED BY <1>1, Invariance, PTL

-----------------------------------------------------------------------------
(* Rotation and revocation *)

LineEnds ==
  \A k \in KeyId :
    keys[k].kind = "none" /\ keys'[k].from \in KeyId =>
      LET old == keys[keys'[k].from] IN
        /\ ~old.revoked
        /\ <<old.kind, old.tenant, old.project, old.scopes>>
             = <<keys'[k].kind, keys'[k].tenant, keys'[k].project, keys'[k].scopes>>

Revives ==
  \A k \in Issued :
    Expired(keys[k], now) /\ ~Expired(keys'[k], now') =>
      \E n \in KeyId : keys[n].kind = "none" /\ keys'[n].from = k

LEMMA StepEndsLine == IInv /\ KeysStep => LineEnds
<1> SUFFICES ASSUME IInv, KeysStep, NEW k \in KeyId,
                    keys[k].kind = "none", keys'[k].from \in KeyId
             PROVE  LET old == keys[keys'[k].from]
                    IN  ~old.revoked /\ Rights(old) = Rights(keys'[k])
  BY DEF LineEnds, Rights
<1>0. TypeOK /\ KeysInv /\ keys[k].from = None /\ k \notin Issued /\ keys \in [KeyId -> Row]
  BY DEF IInv, KeysInv, Issued, TypeOK
<1>1. keys'[k] # keys[k]
  BY <1>0, KeysAssumption
<1>2. CASE Created
  BY <1>0, <1>1, <1>2, KeysAssumption DEF Created
<1>3. CASE Revoked
  BY <1>0, <1>1, <1>3 DEF Revoked
<1>4. CASE Rotated
  <2>1. PICK old \in Row :
          /\ old.id \in Issued /\ Rights(old) = Rights(keys[old.id]) /\ ~keys[old.id].revoked
          /\ NextId \in KeyId
          /\ keys' = [keys EXCEPT ![old.id].expires = now + Overlap,
                                  ![NextId] = Replacement(old)]
    BY <1>4 DEF Rotated
  <2>2. k = NextId /\ keys'[k] = Replacement(old)
    BY <1>0, <1>1, <2>1, RotatedKeys
  <2>3. keys'[k].from = old.id /\ Rights(keys'[k]) = Rights(old)
    BY <2>1, <2>2, Replaces DEF Issued
  <2> QED BY <2>1, <2>3
<1> QED BY <1>1, <1>2, <1>3, <1>4 DEF KeysStep

LEMMA StepRevives == IInv /\ KeysStep => Revives
<1> SUFFICES ASSUME IInv, KeysStep, NEW k \in Issued,
                    Expired(keys[k], now), ~Expired(keys'[k], now')
             PROVE  \E n \in KeyId : keys[n].kind = "none" /\ keys'[n].from = k
  BY DEF Revives
<1>0. /\ TypeOK /\ KeysInv /\ k \in KeyId /\ keys \in [KeyId -> Row] /\ NextId \notin Issued
      /\ keys[k] \in Row /\ keys[k].expires \in Nat /\ now \in Nat
  BY NewId DEF IInv, Issued, TypeOK, Row
<1>1. keys'[k].expires # keys[k].expires
  BY <1>0 DEF Expired, KeysStep
<1>2. CASE Created
  BY <1>0, <1>1, <1>2 DEF Created
<1>3. CASE Revoked
  <2>1. PICK j \in Issued : keys' = [keys EXCEPT ![j].revoked = TRUE]
    BY <1>3 DEF Revoked
  <2> DEFINE d == [keys[j] EXCEPT !.revoked = TRUE]
  <2>2. keys[j] \in Row
    BY <1>0 DEF Issued
  <2>3. d.expires = keys[j].expires
    BY <2>2, KeepRow
  <2>4. keys' = [keys EXCEPT ![j] = d]
    BY <2>1, Zenon
  <2> HIDE DEF d
  <2> QED BY <1>0, <1>1, <2>3, <2>4
<1>4. CASE Rotated
  <2>1. PICK old \in Row :
          /\ old.id \in Issued /\ NextId \in KeyId
          /\ keys' = [keys EXCEPT ![old.id].expires = now + Overlap,
                                  ![NextId] = Replacement(old)]
    BY <1>4 DEF Rotated
  <2>2. k = old.id /\ keys'[NextId] = Replacement(old)
    BY <1>0, <1>1, <2>1, RotatedKeys
  <2>3. keys'[NextId].from = k
    BY <1>0, <2>1, <2>2, Replaces
  <2> QED BY <1>0, <2>1, <2>3 DEF Issued
<1> QED BY <1>1, <1>2, <1>3, <1>4 DEF KeysStep

\* A key that is revoked is never replaced, and a replacement has the rights and the owner of
\* the key it replaces, however many rotations and revocations of the key overlap.
THEOREM RevocationIsFinal == Spec => RevocationEndsLine
<1>1. IInv /\ [Next]_vars => [LineEnds]_vars
  BY StepKeeps, StepEndsLine
<1> QED BY <1>1, Invariance, PTL DEF Spec, RevocationEndsLine, LineEnds

\* An expired key lives again only by the transaction that also inserts its replacement.
THEOREM RevivalIsRotation == Spec => RevivedOnlyWithReplacement
<1>1. IInv /\ [Next]_vars => [Revives]_vars
  BY StepKeeps, StepRevives
<1> QED BY <1>1, Invariance, PTL DEF Spec, RevivedOnlyWithReplacement, Revives

-----------------------------------------------------------------------------
(* Export slots *)

Busy == {"clock", "count", "serve", "answered"}
HeldFor(t) == {r \in holders : req[r].row.tenant = t}

SlotsInv ==
  /\ ExportSlotsExact
  /\ \A r \in holders : req[r].op = "export" /\ req[r].row.tenant \in Tenant
  /\ \A r \in Request : At(r, "slot") => req[r].op = "export"

LEMMA InitSlots == Init => SlotsInv
<1> SUFFICES ASSUME Init PROVE SlotsInv
  OBVIOUS
<1>1. holders = {} /\ total = 0 /\ \A t \in Tenant : perKey[t] = 0
  BY DEF Init, Slots!BudgetInit
<1>2. Cardinality({}) = 0
  BY FS_EmptySet
<1>3. \A t \in Tenant : {r \in holders : req[r].row.tenant = t} = {}
  BY <1>1
<1>4. \A r \in Request : ~At(r, "slot")
  BY DEF Init, At, Idle
<1> QED BY <1>1, <1>2, <1>3, <1>4, KeysAssumption DEF SlotsInv, ExportSlotsExact

LEMMA Finite ==
  ASSUME TypeOK
  PROVE  /\ IsFiniteSet(holders) /\ Cardinality(holders) \in Nat
         /\ \A t \in Tenant : IsFiniteSet(HeldFor(t)) /\ Cardinality(HeldFor(t)) \in Nat
<1>1. IsFiniteSet(holders)
  BY KeysAssumption, FS_Subset DEF TypeOK
<1>2. \A t \in Tenant : IsFiniteSet(HeldFor(t))
  BY <1>1, FS_Subset DEF HeldFor
<1> QED BY <1>1, <1>2, FS_CardinalityType

\* A request that takes no slot and gives none back.
LEMMA SlotsStay ==
  ASSUME SlotsInv, UNCHANGED slotVars,
         \A q \in holders : /\ req'[q].op = req[q].op /\ req'[q].row = req[q].row
                            /\ req'[q].pc \in Busy,
         \A q \in Request : req'[q].pc = "slot" => req'[q].op = "export",
         holders \subseteq Request
  PROVE  SlotsInv'
<1>1. \A t \in Tenant : {q \in holders : req'[q].row.tenant = t}
                         = {q \in holders : req[q].row.tenant = t}
  OBVIOUS
<1>2. ExportSlotsExact'
  BY <1>1 DEF SlotsInv, ExportSlotsExact, slotVars, Busy
<1> QED BY <1>2 DEF SlotsInv, slotVars, At

LEMMA AcquireSlot ==
  ASSUME TypeOK, SlotsInv, NEW r \in Request, At(r, "slot"), Moved(r, "clock"),
         req[r].row.tenant # None, Slots!Acquire(req[r].row.tenant, r)
  PROVE  SlotsInv'
<1>0. req[r].row.tenant \in Tenant /\ req[r].op = "export"
  BY DEF TypeOK, Local, Row, SlotsInv
<1>1. PICK x \in Tenant : x = req[r].row.tenant
  BY <1>0
<1>2. r \notin holders
  BY DEF SlotsInv, ExportSlotsExact, At
<1>3. /\ perKey' = [perKey EXCEPT ![x] = @ + 1]
      /\ total' = total + 1 /\ holders' = holders \cup {r} /\ ~Slots!Full(x)
  BY <1>1 DEF Slots!Acquire
<1>4. \A q \in Request : req'[q].row = req[q].row /\ req'[q].op = req[q].op
  BY <1>0 DEF Moved, Others
<1>5. holders \subseteq Request /\ holders' \subseteq Request
  BY <1>3 DEF TypeOK
<1>6. \A q \in holders' : req'[q].pc \in Busy
  BY <1>3, <1>5 DEF SlotsInv, ExportSlotsExact, Busy, Moved, Others
<1>7. /\ HeldFor(x)' = HeldFor(x) \cup {r} /\ r \notin HeldFor(x)
      /\ \A t \in Tenant : t # x => HeldFor(t)' = HeldFor(t)
  BY <1>1, <1>2, <1>3, <1>4, <1>5 DEF HeldFor
<1>8. /\ Cardinality(holders') = Cardinality(holders) + 1
      /\ Cardinality(HeldFor(x)') = Cardinality(HeldFor(x)) + 1
  BY <1>1, <1>2, <1>3, <1>7, Finite, FS_AddElement
<1>9. total' = Cardinality(holders')
  BY <1>3, <1>8 DEF SlotsInv, ExportSlotsExact
<1>10. \A t \in Tenant : perKey'[t] = Cardinality(HeldFor(t)')
  <2>1. \A t \in Tenant : perKey[t] = Cardinality(HeldFor(t))
    BY DEF SlotsInv, ExportSlotsExact, HeldFor
  <2>2. perKey'[x] = perKey[x] + 1
    BY <1>1, <1>3 DEF TypeOK
  <2>3. \A t \in Tenant : t # x => perKey'[t] = perKey[t]
    BY <1>3 DEF TypeOK
  <2>4. perKey'[x] = Cardinality(HeldFor(x)')
    BY <1>1, <1>8, <2>1, <2>2
  <2>5. \A t \in Tenant : t # x => perKey'[t] = Cardinality(HeldFor(t)')
    BY <1>7, <2>1, <2>3
  <2> QED BY <2>4, <2>5
<1>11. TotalSlots > 0 => total' <= TotalSlots
  <2>1. total \in Int /\ TotalSlots \in Nat
    BY KeysAssumption DEF TypeOK
  <2>2. TotalSlots > 0 => ~(total >= TotalSlots)
    BY <1>3 DEF Slots!Full
  <2> QED BY <1>3, <2>1, <2>2
<1>12. ExportSlotsExact'
  BY <1>5, <1>6, <1>9, <1>10, <1>11 DEF ExportSlotsExact, HeldFor, Busy
<1>13. \A q \in holders' : req'[q].op = "export" /\ req'[q].row.tenant \in Tenant
  BY <1>0, <1>3, <1>4, <1>5 DEF SlotsInv
<1>14. \A q \in Request : req'[q].pc = "slot" => req'[q].op = "export"
  BY DEF SlotsInv, At, Moved, Others
<1> QED BY <1>12, <1>13, <1>14 DEF SlotsInv, At

LEMMA ReleaseSlot ==
  ASSUME TypeOK, SlotsInv, NEW r \in holders, Moved(r, "done"),
         Slots!Release(req[r].row.tenant, r)
  PROVE  SlotsInv'
<1>0. r \in Request
  BY DEF TypeOK
<1>1. PICK x \in Tenant : x = req[r].row.tenant
  BY DEF SlotsInv
<1>3. /\ perKey' = [perKey EXCEPT ![x] = @ - 1]
      /\ total' = total - 1 /\ holders' = holders \ {r}
  BY <1>1 DEF Slots!Release
<1>4. \A q \in Request : req'[q].row = req[q].row /\ req'[q].op = req[q].op
  BY <1>0 DEF Moved, Others
<1>5. holders \subseteq Request /\ holders' \subseteq Request
  BY <1>3 DEF TypeOK
<1>6. \A q \in holders' : req'[q].pc \in Busy
  BY <1>3, <1>5 DEF SlotsInv, ExportSlotsExact, Busy, Moved, Others
<1>7. /\ HeldFor(x)' = HeldFor(x) \ {r} /\ r \in HeldFor(x)
      /\ \A t \in Tenant : t # x => HeldFor(t)' = HeldFor(t)
  BY <1>1, <1>3, <1>4, <1>5 DEF HeldFor
<1>8. /\ Cardinality(holders') = Cardinality(holders) - 1
      /\ Cardinality(HeldFor(x)') = Cardinality(HeldFor(x)) - 1
  <2>1. Cardinality(holders \ {r}) = Cardinality(holders) - 1
    BY Finite, FS_RemoveElement
  <2>2. Cardinality(HeldFor(x) \ {r}) = Cardinality(HeldFor(x)) - 1
    BY <1>7, Finite, FS_RemoveElement
  <2> QED BY <1>3, <1>7, <2>1, <2>2
<1>9. total' = Cardinality(holders')
  BY <1>3, <1>8 DEF SlotsInv, ExportSlotsExact
<1>10. \A t \in Tenant : perKey'[t] = Cardinality(HeldFor(t)')
  <2>1. \A t \in Tenant : perKey[t] = Cardinality(HeldFor(t))
    BY DEF SlotsInv, ExportSlotsExact, HeldFor
  <2>2. perKey'[x] = perKey[x] - 1
    BY <1>1, <1>3 DEF TypeOK
  <2>3. \A t \in Tenant : t # x => perKey'[t] = perKey[t]
    BY <1>3 DEF TypeOK
  <2>4. perKey'[x] = Cardinality(HeldFor(x)')
    BY <1>1, <1>8, <2>1, <2>2
  <2>5. \A t \in Tenant : t # x => perKey'[t] = Cardinality(HeldFor(t)')
    BY <1>7, <2>1, <2>3
  <2> QED BY <2>4, <2>5
<1>11. TotalSlots > 0 => total' <= TotalSlots
  <2>1. total \in Int /\ TotalSlots \in Nat
    BY KeysAssumption DEF TypeOK
  <2>2. TotalSlots > 0 => total <= TotalSlots
    BY DEF SlotsInv, ExportSlotsExact
  <2> QED BY <1>3, <2>1, <2>2
<1>12. ExportSlotsExact'
  BY <1>5, <1>6, <1>9, <1>10, <1>11 DEF ExportSlotsExact, HeldFor, Busy
<1>13. \A q \in holders' : req'[q].op = "export" /\ req'[q].row.tenant \in Tenant
  BY <1>3, <1>4, <1>5 DEF SlotsInv
<1>14. \A q \in Request : req'[q].pc = "slot" => req'[q].op = "export"
  BY DEF SlotsInv, At, Moved, Others
<1> QED BY <1>12, <1>13, <1>14 DEF SlotsInv, At

\* r moves on with the slot it has, if it has one.
LEMMA SlotsMoved ==
  ASSUME TypeOK, SlotsInv, NEW r \in Request, NEW pc \in Busy, Moved(r, pc), UNCHANGED slotVars
  PROVE  SlotsInv'
<1>1. holders \subseteq Request
  BY DEF TypeOK
<1>2. \A q \in holders : /\ req'[q].op = req[q].op /\ req'[q].row = req[q].row
                         /\ req'[q].pc \in Busy
  BY <1>1 DEF Moved, Others, SlotsInv, ExportSlotsExact, Busy
<1>3. \A q \in Request : req'[q].pc = "slot" => req'[q].op = "export"
  BY DEF Moved, Others, SlotsInv, At, Busy
<1> QED BY <1>1, <1>2, <1>3, SlotsStay

\* r has no slot.
LEMMA SlotsElsewhere ==
  ASSUME TypeOK, SlotsInv, NEW r \in Request, r \notin holders, Others(r), UNCHANGED slotVars,
         req'[r].pc = "slot" => req'[r].op = "export"
  PROVE  SlotsInv'
<1>1. holders \subseteq Request
  BY DEF TypeOK
<1>2. \A q \in holders : /\ req'[q].op = req[q].op /\ req'[q].row = req[q].row
                         /\ req'[q].pc \in Busy
  BY <1>1 DEF Others, SlotsInv, ExportSlotsExact, Busy
<1>3. \A q \in Request : req'[q].pc = "slot" => req'[q].op = "export"
  BY DEF Others, SlotsInv, At
<1> QED BY <1>1, <1>2, <1>3, SlotsStay

LEMMA Idling ==
  ASSUME SlotsInv, NEW r \in Request, NEW pc, At(r, pc), pc \notin Busy
  PROVE  r \notin holders
BY DEF SlotsInv, ExportSlotsExact, At, Busy

LEMMA SlotsKept ==
  ASSUME IInv, SlotsInv, [Next]_vars
  PROVE  SlotsInv'
<1>0. TypeOK /\ KeysInv
  BY DEF IInv
<1>1. CASE UNCHANGED <<req, slotVars>>
  BY <1>1 DEF SlotsInv, ExportSlotsExact, slotVars, At
<1>2. CASE UNCHANGED vars \/ Tick
  BY <1>1, <1>2 DEF vars, Tick
<1>3. ASSUME NEW r \in Request, QuietStep(r)
      PROVE  SlotsInv'
  <2>0. Quiet(r)
    BY <1>0, <1>3, QuietStepQuiet
  <2>1. ASSUME NEW cred \in Issued \cup {Root, None}, Send(r, cred)
        PROVE  SlotsInv'
    <3>1. r \notin holders /\ UNCHANGED slotVars
      BY <2>1, Idling DEF Send, Busy
    <3>2. req'[r].pc = "found"
      BY <1>0, <2>1, SendQuiet
    <3> QED BY <1>0, <2>0, <3>1, <3>2, SlotsElsewhere DEF Quiet
  <2>2. CASE Authenticate(r)
    <3>1. r \notin holders /\ UNCHANGED slotVars
      BY <2>2, Idling DEF Authenticate, Busy
    <3>2. req'[r].pc = "slot" => req'[r].op = "export"
      BY <1>0, <2>2, AuthenticateQuiet DEF Quiet
    <3> QED BY <1>0, <2>0, <3>1, <3>2, SlotsElsewhere DEF Quiet
  <2>3. CASE TakeSlot(r)
    <3>1. CASE Go(r, "clock")
      <4>1. Moved(r, "clock")
        BY <1>0, <3>1, GoMoves DEF Pc
      <4>2. CASE UNCHANGED slotVars
        BY <1>0, <4>1, <4>2, SlotsMoved DEF Busy
      <4>3. CASE req[r].row.tenant # None /\ Slots!Acquire(req[r].row.tenant, r)
        BY <1>0, <2>3, <4>1, <4>3, AcquireSlot DEF TakeSlot
      <4>4. \/ UNCHANGED slotVars
            \/ req[r].row.tenant # None /\ Slots!Acquire(req[r].row.tenant, r)
        BY <2>3 DEF TakeSlot
      <4> QED BY <4>2, <4>3, <4>4
    <3>2. CASE Answer(r, "rate_limited") /\ UNCHANGED slotVars
      BY <1>0, <3>2, AnswerMoves, SlotsMoved DEF Busy, Status
    <3> QED BY <2>3, <3>1, <3>2 DEF TakeSlot
  <2>4. CASE ReadClock(r)
    BY <1>0, <2>4, ReadClockMoves, SlotsMoved DEF ReadClock, Busy
  <2>5. CASE Count(r)
    BY <1>0, <2>5, CountMoves, SlotsMoved DEF Count, Busy
  <2>6. CASE Refuse(r)
    BY <1>0, <2>6, RefuseMoves, SlotsMoved DEF Refuse, Busy
  <2>7. CASE Serve(r)
    BY <1>0, <2>7, ServeMoves, SlotsMoved DEF Serve, Busy
  <2>8. CASE Finish(r)
    <3>1. Moved(r, "done")
      BY <1>0, <2>8, FinishMoves
    <3>2. CASE r \in holders
      BY <1>0, <2>8, <3>1, <3>2, ReleaseSlot DEF Finish
    <3>3. CASE r \notin holders
      BY <1>0, <2>8, <3>1, <3>3, SlotsElsewhere DEF Finish, Moved
    <3> QED BY <3>2, <3>3
  <2> QED BY <1>3, <2>1, <2>2, <2>3, <2>4, <2>5, <2>6, <2>7, <2>8 DEF QuietStep
<1>4. ASSUME NEW r \in Request, Find(r)
      PROVE  SlotsInv'
  <2>1. r \notin holders /\ UNCHANGED slotVars
    BY <1>4, FindIs DEF FindOld, SlotsInv
  <2>2. Others(r) /\ req'[r].pc # "slot"
    BY <1>0, <1>4, FindIs, FindMoves
  <2> QED BY <1>0, <2>1, <2>2, SlotsElsewhere
<1>5. ASSUME NEW r \in Request, KeyOperation(r)
      PROVE  SlotsInv'
  BY <1>0, <1>5, KeyOperationMoves, SlotsMoved DEF Busy
<1> QED BY <1>2, <1>3, <1>4, <1>5, StepKinds DEF Next

\* The counters of the export slots are exactly the requests that hold one, none of which has
\* finished, and the limit of all tenants together holds.
THEOREM SlotsAreExact == Spec => []ExportSlotsExact
<1>1. Init => SlotsInv
  BY InitSlots
<1>2. IInv /\ SlotsInv /\ [Next]_vars => SlotsInv'
  BY SlotsKept
<1>3. SlotsInv => ExportSlotsExact
  BY DEF SlotsInv
<1> QED BY <1>1, <1>2, <1>3, Invariance, PTL DEF Spec

-----------------------------------------------------------------------------
(* The windows *)

\* What a request was counted for.
SameCount(m, l) == m.counted = l.counted /\ m.op = l.op /\ m.row = l.row /\ m.t = l.t

LEMMA SetOthers ==
  ASSUME NEW l \in Local, NEW m, NEW v, NEW w,
         \/ m = [l EXCEPT !.pc = v]
         \/ m = [l EXCEPT !.pc = v, !.status = w]
         \/ m = [l EXCEPT !.pc = v, !.target = w]
  PROVE  SameCount(m, l)
BY DEF Local, SameCount

\* Before its count a request has no verdict; one that was late has one.
Early == {"idle", "found", "slot", "clock", "count"}
Verdicts == /\ \A q \in Request : req[q].pc \in Early => req[q].counted = "no"
            /\ \A q \in late : req[q].counted # "no"

\* A step that counts nothing.
Uncounted ==
  /\ windows' = windows /\ late' = late
  /\ \A q \in Request : /\ req'[q].counted = req[q].counted
                        /\ req[q].counted # "no" => SameCount(req'[q], req[q])
                        /\ req'[q].pc \in Early => req'[q].counted = "no"

LEMMA StepUncounted ==
  ASSUME Verdicts, NEW r \in Request, Others(r), windows' = windows, late' = late,
         \/ SameCount(req'[r], req[r]) /\ (req'[r].pc \notin Early \/ req[r].pc \in Early)
         \/ req[r].pc \in Early /\ req'[r].counted = req[r].counted
  PROVE  Uncounted
BY DEF Uncounted, Verdicts, Others, SameCount

LEMMA MovedUncounted ==
  ASSUME TypeOK, Verdicts, NEW r \in Request, NEW v, NEW w,
         Others(r), windows' = windows, late' = late,
         \/ req' = [req EXCEPT ![r].pc = v]
         \/ req' = [req EXCEPT ![r].pc = v, ![r].status = w]
         \/ req' = [req EXCEPT ![r].pc = v, ![r].target = w],
         req'[r].pc \notin Early \/ req[r].pc \in Early
  PROVE  Uncounted
<1>1. req[r] \in Local
  BY DEF TypeOK
<1>2. SameCount(req'[r], req[r])
  <2>1. \/ req'[r] = [req[r] EXCEPT !.pc = v]
        \/ req'[r] = [req[r] EXCEPT !.pc = v, !.status = w]
        \/ req'[r] = [req[r] EXCEPT !.pc = v, !.target = w]
    BY DEF TypeOK
  <2> QED BY <1>1, <2>1, SetOthers, Zenon
<1> QED BY <1>2, StepUncounted

LEMMA BeforeUncounted ==
  ASSUME TypeOK, Verdicts, NEW r \in Request, NEW v, NEW w,
         Others(r), windows' = windows, late' = late,
         \/ req' = [req EXCEPT ![r].pc = v, ![r].row = w]
         \/ req' = [req EXCEPT ![r].pc = v, ![r].t = w],
         req[r].pc \in Early
  PROVE  Uncounted
<1>1. req[r] \in Local
  BY DEF TypeOK
<1>2. req'[r].counted = req[r].counted
  <2>1. req'[r] = [req[r] EXCEPT !.pc = v, !.row = w] \/ req'[r] = [req[r] EXCEPT !.pc = v, !.t = w]
    BY DEF TypeOK
  <2> QED BY <1>1, <2>1 DEF Local
<1> QED BY <1>2, StepUncounted

LEMMA OthersUncounted ==
  ASSUME IInv, Verdicts, NEW r \in Request, Step(r), ~Count(r)
  PROVE  Uncounted
<1>0. TypeOK /\ KeysInv /\ req[r] \in Local
  BY DEF IInv, TypeOK
<1>1. ASSUME NEW cred \in Issued \cup {Root, None}, Send(r, cred)
      PROVE  Uncounted
  <2> DEFINE row == CASE cred = Root -> RootRow [] cred = None -> NoRow [] OTHER -> keys[cred]
  <2>1. req' = [req EXCEPT ![r].pc = "found", ![r].row = row]
    BY <1>1, Zenon DEF Send
  <2> HIDE DEF row
  <2>2. Others(r)
    BY <1>0, <1>1, SendQuiet DEF Quiet
  <2> QED BY <1>0, <1>1, <2>1, <2>2, BeforeUncounted DEF Send, At, Early
<1>2. CASE Authenticate(r)
  <2>1. PICK pc, row : req' = [req EXCEPT ![r].pc = pc, ![r].row = row]
    BY <1>2, Zenon DEF Authenticate
  <2>2. Others(r)
    BY <1>0, <1>2, AuthenticateQuiet DEF Quiet
  <2> QED BY <1>0, <1>2, <2>1, <2>2, BeforeUncounted DEF Authenticate, At, Early
<1>3. CASE TakeSlot(r)
  <2>1. Go(r, "clock") \/ Answer(r, "rate_limited")
    BY <1>3 DEF TakeSlot
  <2>2. Others(r)
    BY <1>0, <1>3, TakeSlotMoves DEF Quiet
  <2> QED BY <1>0, <1>3, <2>1, <2>2, MovedUncounted DEF TakeSlot, Go, Answer, At, Early
<1>4. CASE ReadClock(r)
  <2>1. PICK pc : req' = [req EXCEPT ![r].pc = pc, ![r].t = now]
    BY <1>4, Zenon DEF ReadClock
  <2>2. Others(r)
    BY <1>0, <1>4, ReadClockMoves DEF Quiet
  <2> QED BY <1>0, <1>4, <2>1, <2>2, BeforeUncounted DEF ReadClock, At, Early
<1>5. CASE Refuse(r) \/ Serve(r)
  <2>1. Moved(r, "answered") /\ \E status : Answer(r, status)
    BY <1>0, <1>5, RefuseMoves, ServeMoves DEF Refuse, Serve
  <2>2. windows' = windows /\ late' = late
    BY <1>5 DEF Refuse, Serve
  <2> QED BY <1>0, <2>1, <2>2, MovedUncounted DEF Answer, Moved, Early
<1>6. CASE Finish(r)
  <2>1. Moved(r, "done")
    BY <1>0, <1>6, FinishMoves
  <2> QED BY <1>0, <1>6, <2>1, MovedUncounted DEF Finish, Go, Moved, Early
<1>7. CASE Find(r)
  <2>1. PICK reached : FindOld(r, reached)
    BY <1>7, FindIs
  <2>2. Others(r) /\ req'[r].pc \notin Early
    BY <1>0, <1>7, FindIs, FindMoves DEF Early
  <2>3. \E k \in Issued : \/ req' = [req EXCEPT ![r].pc = "rotate", ![r].target = keys[k]]
                          \/ Answer(r, "not_found")
    BY <2>1 DEF FindOld
  <2> QED BY <1>0, <2>1, <2>2, <2>3, MovedUncounted DEF FindOld, Answer
<1>8. CASE KeyOperation(r)
  <2>1. Moved(r, "answered") /\ UNCHANGED <<windows, late>>
    BY <1>0, <1>8, KeyOperationMoves
  <2>2. \E status : Answer(r, status)
    BY <1>8 DEF KeyOperation, IssuePlatformKey, IssueTenantKey, IssueDelegatedKey, Create,
         RotateAPIKey, RotateTenantAPIKey, Rotate, RevokeAPIKey, RevokeTenantAPIKey, Revoke
  <2> QED BY <1>0, <2>1, <2>2, MovedUncounted DEF Answer, Moved, Early
<1> QED BY <1>1, <1>2, <1>3, <1>4, <1>5, <1>6, <1>7, <1>8, StepKinds DEF QuietStep

-----------------------------------------------------------------------------
(* The bound of a window *)

Told(class, s) == Counted(class, s, {"admitted", "refused"})
Admitted(class, s, w) == {r \in Counted(class, s, {"admitted"}) : WindowAt(req[r].t) = w}
LateOnes(class, s) == Told(class, s) \cap late

\* Room for the window w when l requests were late: the windows before the one that is open
\* may be full once more, the open one has what it counts, and one that is to come has
\* only what was admitted before a late request emptied it.
Room(m, cur, l, w) ==
  m * l + (IF w = cur.start THEN cur.count ELSE IF w < cur.start THEN m ELSE 0)

Bounded(class, s) ==
  LET cur == windows[<<class, s>>]
  IN  /\ cur.count <= Limit[class]
      /\ \A w \in Int : Cardinality(Admitted(class, s, w))
                          <= Room(Limit[class], cur, Cardinality(LateOnes(class, s)), w)
WindowsInv ==
  /\ Verdicts
  /\ \A class \in Class, s \in Subject : Limited(class) => Bounded(class, s)

LEMMA FiniteCounts ==
  ASSUME NEW class, NEW s, NEW w
  PROVE  /\ IsFiniteSet(Admitted(class, s, w)) /\ Cardinality(Admitted(class, s, w)) \in Nat
         /\ IsFiniteSet(LateOnes(class, s)) /\ Cardinality(LateOnes(class, s)) \in Nat
<1>1. Admitted(class, s, w) \subseteq Request /\ LateOnes(class, s) \subseteq Request
  BY DEF Admitted, LateOnes, Told, Counted
<1> QED BY <1>1, KeysAssumption, FS_Subset, FS_CardinalityType

\* What one count does to the room, for a limit m.
LEMMA LateRoom ==
  ASSUME NEW m \in Nat, m > 0, NEW l \in Nat, NEW cur \in [start : Int, count : Nat],
         cur.count <= m, NEW x \in Int, x < cur.start,
         NEW w \in Int, NEW n \in Nat, n <= Room(m, cur, l, w)
  PROVE  LET new == [start |-> x, count |-> 1]
         IN  /\ w # x => n <= Room(m, new, l + 1, w)
             /\ w = x => n + 1 <= Room(m, new, l + 1, w)
<1> DEFINE k == m * l
<1>1. m * (l + 1) = k + m /\ k \in Int
  OBVIOUS
<1> HIDE DEF k
<1>2. n <= k + (IF w = cur.start THEN cur.count ELSE IF w < cur.start THEN m ELSE 0)
  BY DEF Room, k
<1> QED BY <1>1, <1>2 DEF Room

LEMMA NewerRoom ==
  ASSUME NEW m \in Nat, m > 0, NEW l \in Nat, NEW cur \in [start : Int, count : Nat],
         cur.count <= m, NEW x \in Int, x > cur.start,
         NEW w \in Int, NEW n \in Nat, n <= Room(m, cur, l, w)
  PROVE  LET new == [start |-> x, count |-> 1]
         IN  /\ w # x => n <= Room(m, new, l, w)
             /\ w = x => n + 1 <= Room(m, new, l, w)
<1> DEFINE k == m * l
<1>1. k \in Int
  OBVIOUS
<1>2. n <= k + (IF w = cur.start THEN cur.count ELSE IF w < cur.start THEN m ELSE 0)
  BY DEF Room
<1>3. \A new : Room(m, new, l, w)
                 = k + (IF w = new.start THEN new.count ELSE IF w < new.start THEN m ELSE 0)
  BY DEF Room
<1> HIDE DEF k
<1> QED BY <1>1, <1>2, <1>3

LEMMA SameRoom ==
  ASSUME NEW m \in Nat, NEW l \in Nat, NEW cur \in [start : Int, count : Nat],
         NEW w \in Int, NEW n \in Nat, n <= Room(m, cur, l, w)
  PROVE  LET new == [start |-> cur.start, count |-> cur.count + 1]
         IN  /\ w # cur.start => n <= Room(m, new, l, w)
             /\ w = cur.start => n + 1 <= Room(m, new, l, w)
<1> DEFINE k == m * l
<1>1. k \in Int
  OBVIOUS
<1>2. n <= k + (IF w = cur.start THEN cur.count ELSE IF w < cur.start THEN m ELSE 0)
  BY DEF Room
<1>3. \A new : Room(m, new, l, w)
                 = k + (IF w = new.start THEN new.count ELSE IF w < new.start THEN m ELSE 0)
  BY DEF Room
<1> HIDE DEF k
<1> QED BY <1>1, <1>2, <1>3

\* Count gives r its verdict.
LEMMA CountVerdict ==
  ASSUME TypeOK, Verdicts, NEW r \in Request, Count(r)
  PROVE  /\ Others(r) /\ req'[r].pc \notin Early /\ req[r].counted = "no" /\ r \notin late
         /\ req'[r].op = req[r].op /\ req'[r].row = req[r].row /\ req'[r].t = req[r].t
         /\ req'[r].counted = IF Admits(ClassOf(req[r].op), CountedFor(req[r].op, req[r].row), req[r].t)
                              THEN "admitted" ELSE "refused"
<1>1. req[r] \in Local
  BY DEF TypeOK
<1>2. Others(r) /\ req'[r].pc \notin Early
  BY CountMoves DEF Moved, Early
<1>3. req[r].counted = "no" /\ r \notin late
  BY DEF Count, Verdicts, Early, At
<1> DEFINE ok == Admits(ClassOf(req[r].op), CountedFor(req[r].op, req[r].row), req[r].t)
<1>4. CASE ok
  <2>1. req'[r] = [req[r] EXCEPT !.pc = "serve", !.counted = "admitted"]
    BY <1>4 DEF Count, TypeOK
  <2>2. /\ req'[r].op = req[r].op /\ req'[r].row = req[r].row /\ req'[r].t = req[r].t
        /\ req'[r].counted = "admitted"
    BY <1>1, <2>1 DEF Local
  <2> QED BY <1>2, <1>3, <1>4, <2>2
<1>5. CASE ~ok
  <2>1. req'[r] = [req[r] EXCEPT !.pc = "answered", !.counted = "refused", !.status = "rate_limited"]
    BY <1>5 DEF Count, TypeOK
  <2>2. /\ req'[r].op = req[r].op /\ req'[r].row = req[r].row /\ req'[r].t = req[r].t
        /\ req'[r].counted = "refused"
    BY <1>1, <2>1 DEF Local
  <2> QED BY <1>2, <1>3, <1>5, <2>2
<1> QED BY <1>4, <1>5

\* What the sets of counted requests gain by it.
LEMMA CountSets ==
  ASSUME TypeOK, Verdicts, NEW r \in Request, Count(r), NEW class \in Class, NEW s \in Subject
  PROVE  LET here == class = ClassOf(req[r].op) /\ s = CountedFor(req[r].op, req[r].row)
             x == WindowAt(req[r].t)
         IN  /\ LateOnes(class, s)' = LateOnes(class, s)
                                       \cup (IF here /\ Late(class, s, req[r].t) THEN {r} ELSE {})
             /\ \A w : Admitted(class, s, w)' = Admitted(class, s, w)
                  \cup (IF here /\ w = x /\ Admits(class, s, req[r].t) THEN {r} ELSE {})
             /\ r \notin LateOnes(class, s) /\ \A w : r \notin Admitted(class, s, w)
<1>1. /\ Others(r) /\ req'[r].pc \notin Early /\ req[r].counted = "no" /\ r \notin late
      /\ req'[r].op = req[r].op /\ req'[r].row = req[r].row /\ req'[r].t = req[r].t
      /\ req'[r].counted = IF Admits(ClassOf(req[r].op), CountedFor(req[r].op, req[r].row), req[r].t)
                           THEN "admitted" ELSE "refused"
  BY CountVerdict
<1>2. late' = IF Late(ClassOf(req[r].op), CountedFor(req[r].op, req[r].row), req[r].t)
              THEN late \cup {r} ELSE late
  BY DEF Count
<1>3. \A verdicts : Counted(class, s, verdicts)' = {q \in Request : /\ req'[q].counted \in verdicts
                  /\ ClassOf(req'[q].op) = class
                  /\ CountedFor(req'[q].op, req'[q].row) = s}
  BY DEF Counted
<1>4. r \notin LateOnes(class, s) /\ \A w : r \notin Admitted(class, s, w)
  BY <1>1 DEF LateOnes, Told, Admitted, Counted
<1>5. Told(class, s)' = Told(class, s)
        \cup (IF class = ClassOf(req[r].op) /\ s = CountedFor(req[r].op, req[r].row) THEN {r} ELSE {})
  BY <1>1, <1>3 DEF Told, Counted, Others
<1>6. LateOnes(class, s)' = LateOnes(class, s)
        \cup (IF /\ class = ClassOf(req[r].op) /\ s = CountedFor(req[r].op, req[r].row)
                 /\ Late(class, s, req[r].t) THEN {r} ELSE {})
  BY <1>1, <1>2, <1>5 DEF LateOnes, Told, Counted
<1>7. ASSUME NEW w
      PROVE  Admitted(class, s, w)' = Admitted(class, s, w)
                  \cup (IF /\ class = ClassOf(req[r].op) /\ s = CountedFor(req[r].op, req[r].row)
                           /\ w = WindowAt(req[r].t) /\ Admits(class, s, req[r].t) THEN {r} ELSE {})
  BY <1>1, <1>3 DEF Admitted, Counted, Others, WindowAt
<1> QED BY <1>4, <1>6, <1>7

LEMMA CountBounded ==
  ASSUME TypeOK, WindowsInv, NEW r \in Request, Count(r),
         NEW class \in Class, NEW s \in Subject, Limited(class)
  PROVE  Bounded(class, s)'
<1> DEFINE m == Limit[class]
           l == Cardinality(LateOnes(class, s))
           cur == windows[<<class, s>>]
           t == req[r].t
           x == WindowAt(t)
           n(w) == Cardinality(Admitted(class, s, w))
           here == class = ClassOf(req[r].op) /\ s = CountedFor(req[r].op, req[r].row)
<1>1. /\ m \in Nat /\ m > 0 /\ t \in Int /\ x \in Int /\ l \in Nat /\ (\A w : n(w) \in Nat)
      /\ cur \in [start : Int, count : Nat] /\ Verdicts
      /\ cur.count <= m /\ \A w \in Int : n(w) <= Room(m, cur, l, w)
  <2>1. t \in Int
    BY DEF TypeOK, Local
  <2>2. x \in Int
    BY <2>1, LimiterAssumption DEF WindowAt
  <2>3. cur \in [start : Int, count : Nat]
    BY DEF TypeOK
  <2>4. m \in Nat /\ m > 0
    BY LimiterAssumption DEF Limited
  <2> QED BY <2>1, <2>2, <2>3, <2>4, FiniteCounts DEF WindowsInv, Bounded
<1>2. /\ LateOnes(class, s)' = LateOnes(class, s) \cup (IF here /\ Late(class, s, t) THEN {r} ELSE {})
      /\ \A w : Admitted(class, s, w)' = Admitted(class, s, w)
                  \cup (IF here /\ w = x /\ Admits(class, s, t) THEN {r} ELSE {})
      /\ r \notin LateOnes(class, s) /\ \A w : r \notin Admitted(class, s, w)
  BY <1>1, CountSets
<1>3. /\ Cardinality(LateOnes(class, s)') = IF here /\ Late(class, s, t) THEN l + 1 ELSE l
      /\ \A w : Cardinality(Admitted(class, s, w)')
                  = IF here /\ w = x /\ Admits(class, s, t) THEN n(w) + 1 ELSE n(w)
  <2>1. Cardinality(LateOnes(class, s) \cup {r}) = l + 1
    BY <1>2, FiniteCounts, FS_AddElement
  <2>2. \A w : Cardinality(Admitted(class, s, w) \cup {r}) = n(w) + 1
    BY <1>2, FiniteCounts, FS_AddElement
  <2> QED BY <1>2, <2>1, <2>2
<1>4. windows'[<<class, s>>] =
        IF here THEN [Current(class, s, t) EXCEPT !.count = IF Admits(class, s, t) THEN @ + 1 ELSE @]
        ELSE cur
  BY DEF Count, Allow, TypeOK
<1> DEFINE new == windows'[<<class, s>>]
           k == Cardinality(LateOnes(class, s)')
<1>5. SUFFICES /\ new.count <= m
               /\ \A w \in Int : Cardinality(Admitted(class, s, w)') <= Room(m, new, k, w)
  BY DEF Bounded, Room
<1> HIDE DEF m, l, x, t, n
<1>6. CASE ~here
  BY <1>1, <1>3, <1>4, <1>6
<1>7. CASE here /\ Late(class, s, t)
  <2>1. x < cur.start /\ Current(class, s, t) = [start |-> x, count |-> 0]
    BY <1>1, <1>7 DEF Late, Current, x
  <2>2. Admits(class, s, t)
    BY <1>1, <2>1 DEF Admits, m
  <2>3. new = [start |-> x, count |-> 1] /\ k = l + 1
    BY <1>3, <1>4, <1>7, <2>1, <2>2
  <2> HIDE DEF cur, new, k
  <2>4. new.count = 1
    BY <2>3
  <2> SUFFICES ASSUME NEW w \in Int
               PROVE  Cardinality(Admitted(class, s, w)') <= Room(m, new, k, w)
    BY <1>1, <2>4
  <2>5. /\ w # x => n(w) <= Room(m, new, k, w)
        /\ w = x => n(w) + 1 <= Room(m, new, k, w)
    BY <1>1, <2>1, <2>3, LateRoom
  <2>6. Cardinality(Admitted(class, s, w)') = IF w = x THEN n(w) + 1 ELSE n(w)
    BY <1>3, <1>7, <2>2
  <2> QED BY <2>5, <2>6
<1>8. CASE here /\ ~Late(class, s, t) /\ x # cur.start
  <2>1. x > cur.start /\ Current(class, s, t) = [start |-> x, count |-> 0]
    BY <1>1, <1>8 DEF Late, Current, x
  <2>2. Admits(class, s, t)
    BY <1>1, <2>1 DEF Admits, m
  <2>3. new = [start |-> x, count |-> 1] /\ k = l
    BY <1>3, <1>4, <1>8, <2>1, <2>2
  <2> HIDE DEF cur, new, k
  <2>4. new.count = 1
    BY <2>3
  <2> SUFFICES ASSUME NEW w \in Int
               PROVE  Cardinality(Admitted(class, s, w)') <= Room(m, new, k, w)
    BY <1>1, <2>4
  <2>5. /\ w # x => n(w) <= Room(m, new, k, w)
        /\ w = x => n(w) + 1 <= Room(m, new, k, w)
    BY <1>1, <2>1, <2>3, NewerRoom
  <2>6. Cardinality(Admitted(class, s, w)') = IF w = x THEN n(w) + 1 ELSE n(w)
    BY <1>3, <1>8, <2>2
  <2> QED BY <2>5, <2>6
<1>9. CASE here /\ ~Late(class, s, t) /\ x = cur.start
  <2>1. Current(class, s, t) = cur /\ k = l
    BY <1>1, <1>3, <1>9 DEF Current, x
  <2>2. CASE Admits(class, s, t)
    <3>1. new = [start |-> cur.start, count |-> cur.count + 1] /\ cur.count < m
      BY <1>1, <1>4, <1>9, <2>1, <2>2 DEF Admits, m
    <3> HIDE DEF cur, new, k
    <3> QED BY <1>1, <1>3, <1>9, <2>1, <2>2, <3>1, SameRoom
  <2>3. CASE ~Admits(class, s, t)
    <3>1. new = cur
      BY <1>1, <1>4, <1>9, <2>1, <2>3
    <3> HIDE DEF cur, new, k
    <3> QED BY <1>1, <1>3, <2>1, <2>3, <3>1
  <2> QED BY <2>2, <2>3
<1> QED BY <1>6, <1>7, <1>8, <1>9

LEMMA UncountedBounded ==
  ASSUME WindowsInv, Uncounted, NEW class \in Class, NEW s \in Subject, Limited(class)
  PROVE  Bounded(class, s)'
<1>1. Told(class, s)' = Told(class, s) /\ late' = late /\ windows' = windows
  BY DEF Uncounted, Told, Counted, SameCount
<1>2. \A w : Admitted(class, s, w)' = Admitted(class, s, w)
  BY DEF Uncounted, Admitted, Counted, SameCount, WindowAt
<1>3. LateOnes(class, s)' = LateOnes(class, s)
  BY <1>1 DEF LateOnes
<1>4. Bounded(class, s)
  BY DEF WindowsInv
<1> QED BY <1>1, <1>2, <1>3, <1>4 DEF Bounded, Room

LEMMA WindowsKept ==
  ASSUME IInv, WindowsInv, [Next]_vars
  PROVE  WindowsInv'
<1>0. TypeOK /\ Verdicts
  BY DEF IInv, WindowsInv
<1>1. CASE Uncounted
  <2>1. Verdicts'
    BY <1>0, <1>1 DEF Verdicts, Uncounted, TypeOK
  <2> QED BY <1>1, <2>1, UncountedBounded DEF WindowsInv, Limited
<1>2. CASE UNCHANGED vars \/ Tick
  <2>1. Uncounted
    BY <1>0, <1>2 DEF vars, Tick, Uncounted, SameCount, Verdicts
  <2> QED BY <1>1, <2>1
<1>3. ASSUME NEW r \in Request, Step(r), ~Count(r)
      PROVE  WindowsInv'
  BY <1>0, <1>1, <1>3, OthersUncounted
<1>4. ASSUME NEW r \in Request, Count(r)
      PROVE  WindowsInv'
  <2>1. late' \subseteq late \cup {r}
    BY <1>4 DEF Count
  <2>2. Verdicts'
    BY <1>0, <1>4, <2>1, CountVerdict DEF Verdicts, Others, TypeOK
  <2> QED BY <1>0, <1>4, <2>2, CountBounded DEF WindowsInv, Limited
<1> QED BY <1>2, <1>3, <1>4 DEF Next

LEMMA InitWindows == Init => WindowsInv
<1> SUFFICES ASSUME Init PROVE WindowsInv
  OBVIOUS
<1>1. late = {} /\ \A r \in Request : req[r].counted = "no"
  BY DEF Init, Idle
<1>2. ASSUME NEW class \in Class, NEW s \in Subject, Limited(class)
      PROVE  Bounded(class, s)
  <2>1. windows[<<class, s>>].start = -1 /\ windows[<<class, s>>].count = 0
    BY DEF Init, LimiterInit, NoWindow
  <2>2. LateOnes(class, s) = {} /\ \A w : Admitted(class, s, w) = {}
    BY <1>1 DEF LateOnes, Admitted, Counted
  <2>3. Limit[class] \in Nat /\ Limit[class] > 0
    BY <1>2, LimiterAssumption DEF Limited
  <2>4. Cardinality({}) = 0
    BY FS_EmptySet
  <2> QED BY <2>1, <2>2, <2>3, <2>4 DEF Bounded, Room
<1> QED BY <1>1, <1>2 DEF WindowsInv, Verdicts

\* FixedWindowLimiter.Allow admits no more than the limit in a window, but once more as many for
\* each request that brought the number of a window that was over: the clock is read before
\* the lock is taken.
THEOREM OvershootIsLateness == Spec => []OvershootNeedsLateRequest
<1>1. ASSUME IInv, WindowsInv
      PROVE  OvershootNeedsLateRequest
  <2> SUFFICES ASSUME NEW class \in Class, NEW s \in Subject,
                      NEW w \in 0..WindowAt(MaxTime), Limited(class)
               PROVE  Cardinality(Admitted(class, s, w))
                        <= Limit[class] * (1 + Cardinality(LateOnes(class, s)))
    BY DEF OvershootNeedsLateRequest, Admitted, LateOnes, Told
  <2> DEFINE m == Limit[class]
             l == Cardinality(LateOnes(class, s))
             n == Cardinality(Admitted(class, s, w))
             cur == windows[<<class, s>>]
  <2>1. m \in Nat /\ l \in Nat /\ n \in Nat /\ cur \in [start : Int, count : Nat]
    BY <1>1, LimiterAssumption, FiniteCounts DEF IInv, TypeOK
  <2>2. n <= Room(m, cur, l, w) /\ cur.count <= m
    BY <1>1 DEF WindowsInv, Bounded
  <2> HIDE DEF m, l, n, cur
  <2>3. m * (1 + l) = m * l + m /\ m * l \in Int
    BY <2>1
  <2>4. n <= m * (1 + l)
    BY <2>1, <2>2, <2>3 DEF Room
  <2> QED BY <2>4 DEF m, l, n
<1>2. IInv /\ WindowsInv /\ [Next]_vars => WindowsInv'
  BY WindowsKept
<1> QED BY <1>1, <1>2, InitWindows, Invariance, PTL DEF Spec

=============================================================================
