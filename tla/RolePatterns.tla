---------------------------- MODULE RolePatterns ----------------------------
(***************************************************************************)
(* Which permissions a role has, twice: as the server declares it           *)
(* (src/src/common/constants/permission.constant.ts) and as the seed        *)
(* script resolves it into the tables (src/prisma/seed/rabc.seed.ts).       *)
(* A code such as "user.read.own" is the sequence of its segments, and a    *)
(* pattern is a code or ends in "*".                                        *)
(***************************************************************************)
EXTENDS Naturals, Sequences

Under(prefix, leaves) == {Append(prefix, leaf) : leaf \in leaves}
Everything(areas) == {<<area, "*">> : area \in areas}

Crud == {"read", "create", "update", "delete"}
AnyOrOwn(area, acts) == {<<area, act, whose>> : act \in acts, whose \in {"any", "own"}}

\* The leaves of PERMISSION.  The script lists the same codes.
ALL_PERMISSIONS ==
  UNION {
    {<<"system", "health", "read">>, <<"rbac", "permission", "read">>, <<"audit", "read">>},
    Under(<<"rbac", "role">>, Crud),
    Under(<<"rbac", "user_role">>, {"assign", "revoke"}),
    AnyOrOwn("user", {"read", "update"}), Under(<<"user">>, {"create", "delete"}),
    AnyOrOwn("session", {"read", "revoke"}),
    Under(<<"category">>, Crud \cup {"reorder"}),
    Under(<<"product">>, Crud \cup {"publish"}),
    Under(<<"variant">>, Crud), Under(<<"option">>, Crud), Under(<<"warehouse">>, Crud),
    Under(<<"media">>, {"read", "upload", "delete"}),
    Under(<<"inventory">>, {"read", "adjust", "reserve"}),
    Under(<<"stock_move">>, {"read", "create", "revert"}),
    Under(<<"cart">>, {"read", "update", "delete"}),
    AnyOrOwn("wishlist", {"read", "update"}),
    Under(<<"coupon">>, Crud \cup {"publish"}), {<<"coupon_redemption", "read">>},
    Under(<<"order", "read">>, {"any", "own"}),
    Under(<<"order">>, {"create", "update", "cancel", "manage"}),
    Under(<<"payment">>, {"read", "capture", "cancel"}),
    Under(<<"payment", "refund">>, {"partial", "full"}),
    Under(<<"shipment">>, {"read", "create", "update", "cancel"}),
    Under(<<"review">>, (Crud \ {"update"}) \cup {"approve", "reject"}),
    Under(<<"notification">>, {"read", "create", "publish", "cancel"}),
    Under(<<"notification", "target">>, {"role", "broadcast"})}

-----------------------------------------------------------------------------
(* As declared *)

Catalog == {"category", "product", "variant", "media", "option"}
Managed == Catalog \cup {"user", "session", "warehouse", "inventory", "stock_move", "order",
                         "payment", "shipment", "coupon", "review", "notification"}

StaffOnly ==   \* what a staff member may do outside the catalog
  UNION {{<<"user", "read", "any">>, <<"order", "read", "any">>, <<"payment", "read">>},
         Under(<<"warehouse">>, {"read", "create", "update"}),
         Under(<<"inventory">>, {"read", "adjust", "reserve"}),
         Under(<<"stock_move">>, {"read", "create"}),
         Under(<<"order">>, {"create", "update", "cancel"}),
         Under(<<"shipment">>, {"read", "create", "update", "cancel"}),
         Under(<<"coupon">>, {"read", "create", "update"}),
         Under(<<"review">>, {"read", "approve", "reject"}),
         Under(<<"notification">>, {"read", "create"})}

OwnThings ==   \* what a customer may do, their cart apart
  UNION {{<<area, act, "own">> : area \in {"user", "wishlist"}, act \in {"read", "update"}},
         {<<"session", "read", "own">>, <<"session", "revoke", "own">>},
         {<<"order", "read", "own">>, <<"order", "create">>, <<"order", "cancel">>},
         {<<"review", "create">>, <<"review", "read">>, <<"notification", "read">>}}

ROLE_PERMISSION_PATTERNS ==
  [owner    |-> {<<"*">>},
   admin    |-> UNION {Under(<<"rbac", "role">>, Crud),
                       Under(<<"rbac", "user_role">>, {"assign", "revoke"}),
                       Everything(Managed),
                       {<<"rbac", "permission", "read">>, <<"coupon_redemption", "read">>,
                        <<"audit", "read">>, <<"system", "health", "read">>}},
   staff    |-> Everything(Catalog) \cup StaffOnly,
   customer |-> OwnThings \cup {<<"cart", "read">>, <<"cart", "update">>},
   guest    |-> {<<"product", "read">>, <<"category", "read">>, <<"review", "read">>}]

\* "area.*" stands for the codes that start with "area.".
MatchPattern(pattern, code) ==
  LET n == Len(pattern) IN
  IF pattern[n] = "*" THEN Len(code) >= n /\ SubSeq(code, 1, n - 1) = SubSeq(pattern, 1, n - 1)
  ELSE pattern = code

ResolveRolePermissions(role) ==
  {code \in ALL_PERMISSIONS :
     \E pattern \in ROLE_PERMISSION_PATTERNS[role] : MatchPattern(pattern, code)}

-----------------------------------------------------------------------------
(* As seeded *)

ROLE_PERMS ==
  [owner    |-> {<<"*">>},
   admin    |-> Everything(Managed) \cup
                {<<"rbac", "role", "*">>, <<"rbac", "permission", "read">>,
                 <<"rbac", "user_role", "*">>, <<"coupon_redemption", "read">>,
                 <<"audit", "read">>, <<"system", "health", "read">>},
   staff    |-> Everything(Catalog) \cup StaffOnly,
   customer |-> OwnThings \cup {<<"cart", "read", "own">>, <<"cart", "update", "own">>},
   guest    |-> {<<"product", "read">>, <<"category", "read">>, <<"review", "read">>}]

MatchesNoArea(pattern, code) == pattern \in {<<"*">>, code}   \* a mutant
\* The arrow function of the script, written as the server's function is.
Match(pattern, code) == MatchPattern(pattern, code)

Resolved(role) ==
  {code \in ALL_PERMISSIONS : \E pattern \in ROLE_PERMS[role] : Match(pattern, code)}
=============================================================================
