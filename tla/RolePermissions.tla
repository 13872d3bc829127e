-------------------------- MODULE RolePermissions --------------------------
(* The tables the seed script fills (Accounts) beside what the server       *)
(* declares a role to have (RolePatterns).                                  *)
EXTENDS Accounts, RolePatterns

\* Declared for customers, and matched by none of their patterns in the script:
\* "cart.read.own" and "cart.update.own" are codes of no permission.
NeverSeeded(code) == IF code = "customer" THEN {<<"cart", "read">>, <<"cart", "update">>} ELSE {}

\* What the tables are to hold for a role.
Declared == [code \in Codes |-> ResolveRolePermissions(code) \ NeverSeeded(code)]

\* Once a run of the script has ended, a role has in the tables exactly what
\* permission.constant.ts resolves for it, though the two are written apart: all
\* but the two permissions on the cart, which customers are left without.
RolesAsDeclared ==
  seed.done => \A code \in Codes, i \in RoleIds :
    role[i] = code =>
      {p \in Permissions : <<i, p>> \in rolePermission} = Declared[code] \cap Permissions
=============================================================================
