------------------------------ MODULE MCApiKeys ------------------------------
(***************************************************************************)
(* An instance of ApiKeys for TLC: one tenant with a key that manages its  *)
(* keys, and one of a second tenant, each issued before.                   *)
(***************************************************************************)
EXTENDS ApiKeys

CONSTANTS t1, t2, p1, q1, q2, q3

MCWorkload ==
  LET Ask(a, b, c) == [r \in Request |-> CASE r = q1 -> a [] r = q2 -> b [] r = q3 -> c]
  IN  { Ask("read", "read", "read"), Ask("export", "export", "export"),
        Ask("read", "export", "crawl"), Ask("rotate", "rotate", "revoke"),
        Ask("rootRotate", "rootRotate", "rootRevoke"), Ask("delegate", "rotate", "revoke"),
        Ask("tenantIssue", "rootRevoke", "rootRotate"), Ask("rootIssue", "delegate", "read") }

MCClass == {"read", "crawl", "export"}
MCSubject == KeyId \cup {Root} \cup Tenant
MCLimit == [c \in MCClass |-> IF c = "crawl" THEN 0 ELSE 1]
MCOwnerOf == [p \in Project |-> t1]

MCFirstKeys ==
  << [NoRow EXCEPT !.id = 1, !.kind = "tenant", !.tenant = t1,
        !.scopes = {"read", "manage"}],
     [NoRow EXCEPT !.id = 2, !.kind = "platform", !.scopes = {"issue"}, !.expires = 1] >>

In(kind, project, scopes, expires) ==
  [kind |-> kind, project |-> project, scopes |-> scopes, expires |-> expires]
MCInput ==
  { In("platform", None, {"issue"}, 1), In("tenant", None, {"read", "run"}, Never),
    In("read_only", p1, {"read"}, 1), In("read_only", p1, {"run"}, 1) }
=============================================================================
