------------------------------- MODULE ApiKeys -------------------------------
(***************************************************************************)
(* The keys of the API (internal/api/key_manager.go, platform_keys.go,     *)
(* tenants.go over repository/api_keys.go) and the way of every request    *)
(* through the server (server.go, audit.go, auth.go): it authenticates     *)
(* once, takes an export slot, is counted, is served, and is audited.      *)
(*                                                                         *)
(* An actor is a request.  One statement or transaction of the store is    *)
(* one step, and so is each read of the clock and each call under a lock.  *)
(* Keys are numbered in the order they are issued.                         *)
(***************************************************************************)
EXTENDS RateLimiter, FiniteSets, Sequences

CONSTANTS
  Request, Tenant, Project,
  OwnerOf,       \* the tenant of a project
  Root, None,
  Workload,      \* bound: what the requests ask for, each a function of them
  Input,         \* bodies of requests for a key
  FirstKeys,     \* the keys issued so far, a sequence of rows
  Overlap,       \* RotationOverlap
  TenantSlots, TotalSlots,
  MaxKeys,       \* bound: keys ever issued
  MaxTime        \* bound: the clock

KeyId == 1..MaxKeys
\* No expiry: later than every time of the model.
Never == MaxTime + Overlap + 1

Op == {"read", "crawl", "export", "rootIssue", "rootRotate", "rootRevoke",
       "tenantIssue", "delegate", "rotate", "revoke"}
Scopes == SUBSET {"read", "run", "manage", "issue"}
Row == [id : KeyId \cup {Root, None},
        kind : {"none", "root", "platform", "tenant", "read_only"},
        tenant : Tenant \cup {None}, project : Project \cup {None},
        scopes : Scopes,
        expires : Nat, revoked : BOOLEAN, from : KeyId \cup {None}]

ASSUME KeysAssumption ==
  /\ None \notin KeyId /\ Root \notin KeyId /\ None \notin Tenant
  /\ IsFiniteSet(Request)
  /\ {MaxKeys, MaxTime, Overlap, TenantSlots, TotalSlots} \subseteq Nat
  /\ OwnerOf \in [Project -> Tenant]
  /\ Workload \subseteq [Request -> Op]
  /\ Input \subseteq [kind : {"platform", "tenant", "read_only"}, scopes : Scopes,
                     project : Project \cup {None}, expires : Nat]
  /\ FirstKeys \in Seq(Row) /\ Len(FirstKeys) <= MaxKeys
  /\ \A k \in DOMAIN FirstKeys : FirstKeys[k].id = k /\ FirstKeys[k].kind # "none"

VARIABLES
  now,
  keys,      \* api_keys
  req,       \* the requests, each with what its goroutine remembers
  late,      \* history: requests counted in a window that was over
  perKey, total, holders   \* ExportSlots

Slots == INSTANCE ConcurrencyBudget
           WITH Key <- Tenant, KeyLimit <- TenantSlots, TotalLimit <- TotalSlots

slotVars == <<perKey, total, holders>>
vars == <<now, keys, windows, req, late, slotVars>>

----------------------------------------------------------------------------
\* Rows of api_keys, and principals, which are what a row says of its key.

NoRow == [id |-> None, kind |-> "none", tenant |-> None, project |-> None,
          scopes |-> {}, expires |-> Never, revoked |-> FALSE, from |-> None]
RootRow == [id |-> Root, kind |-> "root", tenant |-> None, project |-> None,
            scopes |-> {}, expires |-> Never, revoked |-> FALSE, from |-> None]

Issued == {k \in KeyId : keys[k].kind # "none"}
Expired(row, t) == row.expires <= t
Live(row, t) == row.kind # "none" /\ ~row.revoked /\ ~Expired(row, t)

TenantKinds == {"tenant", "read_only"}
PlatformScopes == {"issue"}
TenantScopes(kind) == IF kind = "tenant" THEN {"read", "run", "manage"} ELSE {"read"}
ValidScopes(kind, scopes) ==
  /\ scopes # {}
  /\ scopes \subseteq IF kind = "platform" THEN PlatformScopes ELSE TenantScopes(kind)

\* The class of a route (openapi.go), and whom it is counted for.
ClassOf(op) == IF op \in {"read", "crawl", "export"} THEN op ELSE "none"
CountedFor(op, row) == IF op = "read" THEN row.id ELSE row.tenant

\* requireRoot, requirePlatform, requireTenantManager, requireCrawlScope and those like it.
RootMay(row)         == row.kind = "root"
PlatformMay(row)     == row.kind = "platform" /\ "issue" \in row.scopes
ManagerMay(row)      == row.kind = "tenant" /\ "manage" \in row.scopes
CrawlMay(row, write) == IF write
                        THEN row.kind = "tenant" /\ "run" \in row.scopes
                        ELSE row.kind \in TenantKinds /\ "read" \in row.scopes

Permits(row, op) ==
  CASE op \in {"rootIssue", "rootRotate", "rootRevoke"} -> RootMay(row)
    [] op = "tenantIssue" -> PlatformMay(row)
    [] op \in {"delegate", "rotate", "revoke"} -> ManagerMay(row)
    [] op \in {"crawl", "read", "export"} -> CrawlMay(row, op = "crawl")

Pc == {"idle", "found", "slot", "clock", "count", "serve", "rotate", "answered", "done"}
Status == {"none", "success", "error", "rate_limited", "invalid", "not_found",
           "unauthenticated", "forbidden"}
Local == [pc : Pc, op : Op, row : Row, t : 0..MaxTime, target : Row \cup {None},
          status : Status, counted : {"no", "admitted", "refused"}]

Idle == [pc |-> "idle", op |-> "read", row |-> NoRow, t |-> 0, target |-> None,
         status |-> "none", counted |-> "no"]

Init ==
  /\ now = 0
  /\ keys = [k \in KeyId |-> IF k <= Len(FirstKeys) THEN FirstKeys[k] ELSE NoRow]
  /\ \E ops \in Workload : req = [r \in Request |-> [Idle EXCEPT !.op = ops[r]]]
  /\ late = {}
  /\ LimiterInit
  /\ Slots!BudgetInit

At(r, pc) == req[r].pc = pc
Go(r, pc) == req' = [req EXCEPT ![r].pc = pc]
Answer(r, status) ==
  req' = [req EXCEPT ![r].pc = "answered", ![r].status = status]

----------------------------------------------------------------------------
\* The way of a request.

\* FindAPIKey: the row is read now, and what follows goes by this reading.
Send(r, cred) ==
  /\ At(r, "idle")
  /\ req' = [req EXCEPT ![r].pc = "found",
               ![r].row = CASE cred = Root -> RootRow
                            [] cred = None -> NoRow
                            [] OTHER -> keys[cred]]
  /\ UNCHANGED <<now, keys, windows, late, slotVars>>

\* The secret is verified in between; the clock is read last.  Without a
\* principal the request goes straight on to its handler, which refuses it.
Authenticate(r) ==
  /\ At(r, "found")
  /\ LET row == req[r].row
         ok  == row.kind = "root" \/ Live(row, now)
         class == ClassOf(req[r].op)
     IN  req' = [req EXCEPT
           ![r].pc = CASE ~ok \/ class = "none" -> "serve"
                       [] class = "export" -> "slot"
                       [] OTHER -> "clock",
           ![r].row = IF ok THEN row ELSE NoRow]
  /\ UNCHANGED <<now, keys, windows, late, slotVars>>

\* Acquire() has no limit for a principal without a tenant.
TakeSlot(r) ==
  /\ At(r, "slot")
  /\ LET tenant == req[r].row.tenant
     IN  \/ tenant = None /\ Go(r, "clock") /\ UNCHANGED slotVars
         \/ /\ tenant # None
            /\ Slots!Acquire(tenant, r)
            /\ Go(r, "clock")
         \/ /\ tenant # None
            /\ Slots!Full(tenant)
            /\ Answer(r, "rate_limited")
            /\ UNCHANGED slotVars
  /\ UNCHANGED <<now, keys, windows, late>>

\* Allow() reads the clock ...
ReadClock(r) ==
  /\ At(r, "clock")
  /\ LET counted == /\ CountedFor(req[r].op, req[r].row) # None
                    /\ Limited(ClassOf(req[r].op))
     IN  req' = [req EXCEPT ![r].pc = IF counted THEN "count" ELSE "serve",
                            ![r].t = now]
  /\ UNCHANGED <<now, keys, windows, late, slotVars>>

\* ... and takes the lock.
Count(r) ==
  /\ At(r, "count")
  /\ LET class == ClassOf(req[r].op)
         subject == CountedFor(req[r].op, req[r].row)
         t == req[r].t
     IN  /\ Allow(class, subject, t)
         /\ late' = IF Late(class, subject, t) THEN late \cup {r} ELSE late
         /\ req' = IF Admits(class, subject, t)
                   THEN [req EXCEPT ![r].pc = "serve", ![r].counted = "admitted"]
                   ELSE [req EXCEPT ![r].pc = "answered", ![r].counted = "refused",
                                    ![r].status = "rate_limited"]
  /\ UNCHANGED <<now, keys, slotVars>>

Refuse(r) ==
  /\ At(r, "serve")
  /\ ~Permits(req[r].row, req[r].op)
  /\ Answer(r, IF req[r].row.kind = "none" THEN "unauthenticated" ELSE "forbidden")
  /\ UNCHANGED <<now, keys, windows, late, slotVars>>

Serving(r, ops) ==
  /\ At(r, "serve")
  /\ req[r].op \in ops
  /\ Permits(req[r].row, req[r].op)

\* What the other modules model; it may succeed or fail.
Serve(r) ==
  /\ Serving(r, {"read", "crawl", "export"})
  /\ \E status \in {"success", "error"} : Answer(r, status)
  /\ UNCHANGED <<now, keys, windows, late, slotVars>>

\* Mutant of Finish: the slot is handed back only by requests that were served.
Finish_servedOnly(r) ==
  /\ At(r, "answered")
  /\ IF r \in holders /\ req[r].status # "rate_limited"
     THEN Slots!Release(req[r].row.tenant, r)
     ELSE UNCHANGED slotVars
  /\ Go(r, "done")
  /\ UNCHANGED <<now, keys, windows, late>>

\* The deferred calls release the slot and record the audit; nothing depends on a
\* record that could not be written.
Finish(r) ==
  /\ At(r, "answered")
  /\ IF r \in holders
     THEN Slots!Release(req[r].row.tenant, r)
     ELSE UNCHANGED slotVars
  /\ Go(r, "done")
  /\ UNCHANGED <<now, keys, windows, late>>

----------------------------------------------------------------------------
\* Issuing, rotating and revoking.

NextId == Cardinality(Issued) + 1

\* The row that newIssued and issueBound fill from the request.
NewRow(in, tenant, project) ==
  [id |-> NextId, kind |-> in.kind, tenant |-> tenant, project |-> project,
   scopes |-> in.scopes, expires |-> in.expires, revoked |-> FALSE, from |-> None]

\* One INSERT, or a refusal of the request.
Create(r, ok, row) ==
  /\ NextId \in KeyId
  /\ IF ok
     THEN keys' = [keys EXCEPT ![NextId] = row] /\ Answer(r, "success")
     ELSE Answer(r, "invalid") /\ UNCHANGED keys
  /\ UNCHANGED <<now, windows, late, slotVars>>

IssuePlatformKey(r) ==
  /\ Serving(r, {"rootIssue"})
  /\ \E in \in Input :
       Create(r, in.kind = "platform" /\ ValidScopes("platform", in.scopes) /\ in.expires > now,
              NewRow(in, None, None))

IssueTenantKey(r) ==
  /\ Serving(r, {"tenantIssue"})
  /\ \E in \in Input, tenant \in Tenant :
       Create(r, in.kind = "tenant" /\ ValidScopes("tenant", in.scopes) /\ in.expires > now,
              NewRow(in, tenant, None))

\* A delegated key may be expired already when it is issued.
IssueDelegatedKey(r) ==
  /\ Serving(r, {"delegate"})
  /\ \E in \in Input :
       LET issuer == req[r].row IN
       Create(r, /\ in.kind \in TenantKinds
                 /\ ValidScopes(in.kind, in.scopes)
                 /\ in.project # None => /\ in.kind = "read_only"
                                         /\ OwnerOf[in.project] = issuer.tenant,
              NewRow(in, issuer.tenant, in.project))

\* The keys a principal can rotate or revoke.
PlatformReach(row) == row.kind = "platform"
TenantReach(principal, row) == row.kind \in TenantKinds /\ row.tenant = principal.tenant

\* RotatePlatformKey and RotateTenantKey first read the key; an expired one will do.
FindOld(r, reached) ==
  /\ \E k \in Issued :
       IF reached[k] /\ ~keys[k].revoked
       THEN req' = [req EXCEPT ![r].pc = "rotate", ![r].target = keys[k]]
       ELSE Answer(r, "not_found")
  /\ UNCHANGED <<now, keys, windows, late, slotVars>>

FindPlatformKey(r) ==
  /\ Serving(r, {"rootRotate"})
  /\ FindOld(r, [k \in KeyId |-> PlatformReach(keys[k])])
FindTenantKey(r) ==
  /\ Serving(r, {"rotate"})
  /\ FindOld(r, [k \in KeyId |-> TenantReach(req[r].row, keys[k])])

Replacement(old) == [old EXCEPT !.id = NextId, !.from = old.id]

\* The transaction that rotates: the UPDATE gives the old key the end of the overlap as
\* its expiry, whatever it was, and the INSERT takes what FindOld read, the expiry
\* too.  An UPDATE that changes nothing, because the key was rotated in the same
\* microsecond, counts no row and fails like one that finds no row.
Rotate(r, matches) ==
  /\ NextId \in KeyId
  /\ LET old == req[r].target
         until == now + Overlap
     IN  \/ /\ matches
            /\ keys' = [keys EXCEPT ![old.id].expires = until, ![NextId] = Replacement(old)]
            /\ Answer(r, "success")
         \/ /\ ~matches \/ keys[old.id].expires = until
            /\ Answer(r, "not_found")
            /\ UNCHANGED keys
         \/ Answer(r, "error") /\ UNCHANGED keys
  /\ UNCHANGED <<now, windows, late, slotVars>>

\* Mutant of RotateAPIKey: the UPDATE is no part of the transaction, and the INSERT fails.
RotateAPIKey_halfDone(r) ==
  /\ At(r, "rotate") /\ req[r].op = "rootRotate"
  /\ LET old == req[r].target
     IN  /\ ~keys[old.id].revoked
         /\ keys' = [keys EXCEPT ![old.id].expires = now + Overlap]
         /\ Answer(r, "error")
  /\ UNCHANGED <<now, windows, late, slotVars>>

RotateAPIKey(r) ==
  /\ At(r, "rotate") /\ req[r].op = "rootRotate"
  /\ LET row == keys[req[r].target.id]
     IN  Rotate(r, PlatformReach(row) /\ ~row.revoked)

\* Mutant of RotateTenantAPIKey: the UPDATE does not ask whether the key was revoked.
RotateTenantAPIKey_revokedToo(r) ==
  /\ At(r, "rotate") /\ req[r].op = "rotate"
  /\ LET row == keys[req[r].target.id]
     IN  Rotate(r, TenantReach(req[r].row, row))

RotateTenantAPIKey(r) ==
  /\ At(r, "rotate") /\ req[r].op = "rotate"
  /\ LET row == keys[req[r].target.id]
     IN  Rotate(r, TenantReach(req[r].row, row) /\ ~row.revoked)

\* One UPDATE with COALESCE(revoked_at, ...): a key revoked before is not changed, and
\* therefore not found.
Revoke(r, k, matches) ==
  /\ IF matches /\ ~keys[k].revoked
     THEN keys' = [keys EXCEPT ![k].revoked = TRUE] /\ Answer(r, "success")
     ELSE Answer(r, "not_found") /\ UNCHANGED keys
  /\ UNCHANGED <<now, windows, late, slotVars>>

RevokeAPIKey(r) ==
  /\ Serving(r, {"rootRevoke"})
  /\ \E k \in Issued : Revoke(r, k, PlatformReach(keys[k]))
RevokeTenantAPIKey(r) ==
  /\ Serving(r, {"revoke"})
  /\ \E k \in Issued : Revoke(r, k, TenantReach(req[r].row, keys[k]))

Tick ==
  /\ now < MaxTime
  /\ now' = now + 1
  /\ UNCHANGED <<keys, windows, req, late, slotVars>>

Step(r) ==
  \/ \E cred \in Issued \cup {Root, None} : Send(r, cred)
  \/ Authenticate(r)
  \/ TakeSlot(r)
  \/ ReadClock(r)
  \/ Count(r)
  \/ Refuse(r)
  \/ Serve(r)
  \/ IssuePlatformKey(r)
  \/ IssueTenantKey(r)
  \/ IssueDelegatedKey(r)
  \/ FindPlatformKey(r)
  \/ FindTenantKey(r)
  \/ RotateAPIKey(r)
  \/ RotateTenantAPIKey(r)
  \/ RevokeAPIKey(r)
  \/ RevokeTenantAPIKey(r)
  \/ Finish(r)

Next == Tick \/ \E r \in Request : Step(r)

Spec == Init /\ [][Next]_vars

----------------------------------------------------------------------------
\* Types of the state (models the rows and structs of auth.go, audit.go).
TypeOK ==
  /\ now \in 0..MaxTime
  /\ keys \in [KeyId -> Row]
  /\ windows \in [Class \X Subject -> [start : Int, count : Nat]]
  /\ req \in [Request -> Local]
  /\ late \subseteq Request
  /\ perKey \in [Tenant -> Int] /\ total \in Int /\ holders \subseteq Request

\* Revocation ends a line of keys: while requests to rotate and to revoke a key
\* overlap, no key is issued in place of one that is revoked already, and the
\* replacement has the rights of the key it replaces and no other owner.
RevocationEndsLine ==
  [][\A k \in KeyId :
       keys[k].kind = "none" /\ keys'[k].from \in KeyId =>
         LET old == keys[keys'[k].from] IN
           /\ ~old.revoked
           /\ <<old.kind, old.tenant, old.project, old.scopes>>
                = <<keys'[k].kind, keys'[k].tenant, keys'[k].project, keys'[k].scopes>>
    ]_vars

\* An expired key comes back to life (rotation sets its expiry whatever it was) only
\* together with a replacement for it, so never by a rotation that failed half way.
RevivedOnlyWithReplacement ==
  [][\A k \in Issued :
       Expired(keys[k], now) /\ ~Expired(keys'[k], now') =>
         \E n \in KeyId : keys[n].kind = "none" /\ keys'[n].from = k
    ]_vars

\* A window admits no more than its limit, but once more as many for each request that was
\* counted late, with a clock that was behind: such a request empties the newer window.
Counted(class, s, verdicts) ==
  {r \in Request : /\ req[r].counted \in verdicts
                   /\ ClassOf(req[r].op) = class
                   /\ CountedFor(req[r].op, req[r].row) = s}
OvershootNeedsLateRequest ==
  \A class \in Class, s \in Subject, w \in 0..WindowAt(MaxTime) :
    LET all == Counted(class, s, {"admitted", "refused"})
        admitted == {r \in Counted(class, s, {"admitted"}) : WindowAt(req[r].t) = w}
    IN  Limited(class) =>
          Cardinality(admitted) <= Limit[class] * (1 + Cardinality(all \cap late))

\* The export slots taken are those of the requests under way: a request that is refused
\* by the limiter after it took its slot gives it back like one that is served.
ExportSlotsExact ==
  /\ holders \subseteq {r \in Request : req[r].pc \in {"clock", "count", "serve", "answered"}}
  /\ total = Cardinality(holders)
  /\ \A t \in Tenant : perKey[t] = Cardinality({r \in holders : req[r].row.tenant = t})
  /\ TotalSlots > 0 => total <= TotalSlots
=============================================================================
