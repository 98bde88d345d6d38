---------------------------- MODULE MCRoleScope ----------------------------
(* Small instances of RoleScope for TLC: one or two tenant scopes stand for *)
(* the ten of the catalogue.                                                *)
EXTENDS RoleScope

CONSTANTS x, y, w1, w2, l1, l2

\* The seeds: owner holds the superuser scope, admin every tenant scope, member
\* some of them, readonly none.
MCDefaults == [r \in Roles |->
  CASE r = "owner" -> {Super} [] r = "admin" -> TenantScopes
    [] r = "member" -> {x} [] r = "readonly" -> {}]

MCRoleOf == [l \in Logins |-> IF l = l1 THEN "admin" ELSE "member"]

\* w1 is a platform admin without tenant scopes, every other writer an owner.
MCActorScopes == [w \in Writers |-> IF w = w1 THEN {} ELSE {Super}]
=============================================================================
