----------------------------- MODULE MCAccounts -----------------------------
(* Instances of Accounts for TLC: a permission for each set of roles that   *)
(* declare it or are seeded with it, also where the script lists it by its  *)
(* own code ("audit.read", "warehouse.read"), and an identifier that is     *)
(* both a username and an email, a username that starts with a space, and  *)
(* an email too long to log in with.                                        *)
EXTENDS RolePermissions, TLC

CONSTANTS n1, e1,
          spaced   \* n1 after a space

UsernamesSent == {n1, spaced, e1}
TrimSpace == (n1 :> n1) @@ (spaced :> n1) @@ (e1 :> e1)

PermissionList ==
  <<<<"user", "create">>, <<"audit", "read">>, <<"category", "read">>,
    <<"category", "create">>, <<"warehouse", "read">>, <<"cart", "read">>, <<"cart", "delete">>,
    <<"wishlist", "read", "own">>, <<"order", "create">>, <<"review", "read">>, <<"review", "create">>>>
OneOfEach == {PermissionList[i] : i \in 1 .. Len(PermissionList)}
RankOfEach == [p \in OneOfEach |-> CHOOSE i \in 1 .. Len(PermissionList) : PermissionList[i] = p]

RolesOf(p) == <<{code \in Codes : p \in ResolveRolePermissions(code)},
                {code \in Codes : p \in Resolved(code)}>>
ASSUME EveryCodeHasOne == \A p \in ALL_PERMISSIONS : \E q \in OneOfEach : RolesOf(p) = RolesOf(q)

SeedGranted == [code \in Codes |-> Resolved(code) \cap OneOfEach]

Symmetry == Permutations(AccountIds) \cup Permutations(Requests)
=============================================================================
