------------------------------ MODULE Accounts ------------------------------
(***************************************************************************)
(* Accounts and roles: AuthService.register, UserService and               *)
(* UserRoleService (src/src/auth, src/src/user, src/src/user-role) on the  *)
(* tables that the seed script (src/prisma/seed/rabc.seed.ts) fills.  A    *)
(* registration is a query, an insert of the user and an insert of its     *)
(* role, three database calls and no transaction; the script is an upsert  *)
(* after another.  Each may stop between two calls, and the script be run  *)
(* again.  No route gives an account another role: operators do, by hand.  *)
(* Emails and usernames that the collation of the table takes for equal    *)
(* (upper and lower case, spaces at the end) are one value; a username     *)
(* that starts with a space is another than the one without.               *)
(***************************************************************************)
EXTENDS Naturals, Sequences, FiniteSets

CONSTANTS AccountIds, Emails, Usernames,
          EmailLike,     \* the identifiers that match emailRegex
          Trimmed,       \* Trimmed[n]: a username as the lookups trim it
          LoginRefuses,  \* the identifiers too long, or short, for LoginAuthDTO
          Permissions,
          Rank,          \* the order the script goes through them
          Granted,       \* Granted[code]: the permissions its patterns match
          OperatorRoles, \* bound: the codes of the roles operators assign
          Requests,      \* slots for registrations in flight
          None

\* The roles in the order ROLE_PERMS lists them.
RoleOrder == <<"owner", "admin", "staff", "customer", "guest">>
Codes == {RoleOrder[i] : i \in 1 .. Len(RoleOrder)}
RoleIds == 1 .. Len(RoleOrder)

ASSUME ConstantsAssumption ==
  /\ Emails \subseteq EmailLike
  /\ DOMAIN Trimmed = Usernames
  /\ \A n \in Usernames \cap EmailLike : Trimmed[n] = n
  /\ OperatorRoles \subseteq Codes
  /\ Rank \in [Permissions -> Nat]
  /\ Granted \in [Codes -> (SUBSET Permissions) \ {{}}]
  /\ None \notin AccountIds \cup Emails \cup Usernames \cup Codes

VARIABLES permission,      \* the permission table
          role,            \* role[id]: the code of a role, or None
          rolePermission,  \* pairs <<role id, permission>>
          seed,            \* the seed script
          user,            \* user[a]: the row of a, or None
          userRole,        \* pairs <<account, role id>>
          assigned,        \* history: those of them that an operator inserted
          answered,        \* the accounts whose registration was answered with success
          req              \* req[r]: the locals of a registration

rbac == <<permission, role, rolePermission>>
registrations == <<user, userRole, assigned, answered, req>>
vars == <<permission, role, rolePermission, seed, user, userRole, assigned, answered, req>>

User == [email : Emails, username : Usernames]
ASSUME NoneIsNoUser == None \notin User

Handler == [pc : {"idle", "insert", "grant"}, email : Emails \cup {None},
            username : Usernames \cup {None}, id : AccountIds \cup {None}]
Idle == [pc |-> "idle", email |-> None, username |-> None, id |-> None]

Script == [pc   : {"idle", "permissions", "role", "links"},
           next : 1 .. Len(RoleOrder) + 1,   \* the role it is at
           todo : SUBSET Permissions,        \* upserts left in the loop it is in
           done : BOOLEAN]                   \* a run has ended

Init == /\ permission = {} /\ rolePermission = {} /\ userRole = {}
        /\ assigned = {} /\ answered = {}
        /\ role = [i \in RoleIds |-> None]
        /\ seed = [pc |-> "idle", next |-> 1, todo |-> {}, done |-> FALSE]
        /\ user = [a \in AccountIds |-> None]
        /\ req = [r \in Requests |-> Idle]

-----------------------------------------------------------------------------
(* The seed script *)

SeedStart ==
  /\ seed.pc = "idle"
  /\ seed' = [seed EXCEPT !.pc = "permissions", !.next = 1, !.todo = Permissions]
  /\ UNCHANGED <<permission, role, rolePermission, registrations>>

IsNext(p) == p \in seed.todo /\ \A q \in seed.todo : Rank[p] <= Rank[q]

UpsertPermission(p) ==
  /\ seed.pc = "permissions" /\ IsNext(p)
  /\ permission' = permission \cup {p}
  /\ seed' = [seed EXCEPT !.todo = @ \ {p}, !.pc = IF seed.todo = {p} THEN "role" ELSE @]
  /\ UNCHANGED <<role, rolePermission, registrations>>

\* Ids are autoincremented from 1.
NextRoleId == Cardinality({i \in RoleIds : role[i] # None}) + 1

LinksOfNewRole(code) ==   \* a mutant
  IF \E i \in RoleIds : role[i] = code THEN {} ELSE Granted[code] \cap permission
LinksToMake(code) == Granted[code] \cap permission

\* Where the script is once the links in todo are all that is left of its role.
AtLinks(n, todo) ==
  IF todo # {} THEN [seed EXCEPT !.pc = "links", !.next = n, !.todo = todo]
  ELSE IF n < Len(RoleOrder) THEN [seed EXCEPT !.pc = "role", !.next = n + 1, !.todo = {}]
  ELSE [seed EXCEPT !.pc = "idle", !.next = n + 1, !.todo = {}, !.done = TRUE]

UpsertRole ==
  LET code == RoleOrder[seed.next] IN
  /\ seed.pc = "role"
  /\ role' = IF \E i \in RoleIds : role[i] = code THEN role
             ELSE [role EXCEPT ![NextRoleId] = code]
  /\ seed' = AtLinks(seed.next, LinksToMake(code))
  /\ UNCHANGED <<permission, rolePermission, registrations>>

UpsertLink(p) ==
  /\ seed.pc = "links" /\ IsNext(p)
  /\ rolePermission' = rolePermission \cup
       {<<i, p>> : i \in {j \in RoleIds : role[j] = RoleOrder[seed.next]}}
  /\ seed' = AtLinks(seed.next, seed.todo \ {p})
  /\ UNCHANGED <<permission, role, registrations>>

SeedDies ==
  /\ seed.pc # "idle"
  /\ seed' = [seed EXCEPT !.pc = "idle", !.todo = {}]
  /\ UNCHANGED <<permission, role, rolePermission, registrations>>

-----------------------------------------------------------------------------
(* register *)

Finish(r) == req' = [req EXCEPT ![r] = Idle]
InUse(e, n) ==
  \E a \in AccountIds : user[a] # None /\ (user[a].email = e \/ user[a].username = n)
Trim(i) == IF i \in Usernames THEN Trimmed[i] ELSE i
FindUserByBothEmailAndUsername(e, n) == InUse(e, Trim(n))

\* Bound: no more registrations in flight than ids of AccountIds left.
IdsLeft == Cardinality({a \in AccountIds : user[a] = None})
             > Cardinality({r \in Requests : req[r].pc = "insert"})

\* The query for either identifier, trimmed (RegisterAuthDTO trims the email, and
\* not the username); with a match the request is refused (400).
RegisterFind(r, e, n) ==
  /\ IdsLeft
  /\ req[r].pc = "idle"
  /\ ~FindUserByBothEmailAndUsername(e, n)
  /\ req' = [req EXCEPT ![r] = [Idle EXCEPT !.pc = "insert", !.email = e, !.username = n]]
  /\ UNCHANGED <<rbac, seed, user, userRole, assigned, answered>>

\* The identifiers are inserted as they were sent, into unique columns: one that
\* is taken fails the insert (P2002), also where the query looked for another.
CreateUser(r, a) ==
  LET q == req[r] IN
  /\ q.pc = "insert" /\ user[a] = None
  /\ IF InUse(q.email, q.username)
       THEN Finish(r) /\ UNCHANGED user
       ELSE /\ user' = [user EXCEPT ![a] = [email |-> q.email, username |-> q.username]]
            /\ req' = [req EXCEPT ![r] = [q EXCEPT !.pc = "grant", !.id = a]]
  /\ UNCHANGED <<rbac, seed, userRole, assigned, answered>>

DefaultRoleIsGuest == 5   \* a mutant
DefaultRegisterRole == 4   \* UserRoleIDS.CUSTOMER

\* A role id without a row fails the insert (foreign key), and so does a pair that
\* an operator inserted (primary key); the user row inserted before stays.
RolesGrantedUnchecked(a) == {<<a, DefaultRegisterRole>>}   \* a mutant
RolesGranted(a) == IF role[DefaultRegisterRole] # None /\ <<a, DefaultRegisterRole>> \notin userRole
                     THEN {<<a, DefaultRegisterRole>>} ELSE {}

AnswersWithoutRole(a) == TRUE   \* a mutant
AnswersSuccess(a) == RolesGranted(a) # {}

CreateUserRole(r) ==
  LET a == req[r].id IN
  /\ req[r].pc = "grant"
  /\ userRole' = userRole \cup RolesGranted(a)
  /\ answered' = IF AnswersSuccess(a) THEN answered \cup {a} ELSE answered
  /\ Finish(r)
  /\ UNCHANGED <<rbac, seed, user, assigned>>

Abort(r) ==
  req[r].pc # "idle" /\ Finish(r) /\ UNCHANGED <<rbac, seed, user, userRole, assigned, answered>>

\* An operator gives an account a role: staff and admins get theirs so, there is
\* no route for it.
AssignRole(a, i) ==
  /\ user[a] # None /\ role[i] \in OperatorRoles /\ <<a, i>> \notin userRole
  /\ userRole' = userRole \cup {<<a, i>>}
  /\ assigned' = assigned \cup {<<a, i>>}
  /\ UNCHANGED <<rbac, seed, user, answered, req>>

Next ==
  \/ SeedStart
  \/ \E p \in Permissions : UpsertPermission(p)
  \/ UpsertRole
  \/ \E p \in Permissions : UpsertLink(p)
  \/ SeedDies
  \/ \E r \in Requests :
       \/ \E e \in Emails, n \in Usernames : RegisterFind(r, e, n)
       \/ \E a \in AccountIds : CreateUser(r, a)
       \/ CreateUserRole(r)
       \/ Abort(r)
  \/ \E a \in AccountIds, i \in RoleIds : AssignRole(a, i)

Spec == Init /\ [][Next]_vars

-----------------------------------------------------------------------------
(* What the rest of the server reads *)

\* The permissions of an account: those of all its roles.
GetPermissionsForUser(a) ==
  {p \in Permissions :
     \E i \in RoleIds : <<a, i>> \in userRole /\ <<i, p>> \in rolePermission}

\* The account an identifier stands for (findUserForAuth).
FindUserByEither(i) ==   \* a mutant
  {a \in AccountIds : user[a] # None /\ Trim(i) \in {user[a].email, user[a].username}}
FindUserForAuth(i) ==
  {a \in AccountIds : user[a] # None /\
     IF Trim(i) \in EmailLike THEN user[a].email = Trim(i) ELSE user[a].username = Trim(i)}

\* The accounts a login by i is checked against: LoginAuthDTO takes emails for
\* usernames, of 6 to 49 characters, and RegisterAuthDTO emails of any length.
Login(i) == IF Trim(i) \in LoginRefuses THEN {} ELSE FindUserForAuth(i)

-----------------------------------------------------------------------------
\* Every variable has its type, and links join rows that exist, however the
\* script was interrupted.
TypeOK == /\ permission \subseteq Permissions
          /\ role \in [RoleIds -> Codes \cup {None}]
          /\ rolePermission \subseteq {i \in RoleIds : role[i] # None} \X permission
          /\ seed \in Script
          /\ user \in [AccountIds -> User \cup {None}]
          /\ userRole \subseteq {a \in AccountIds : user[a] # None}
                                  \X {i \in RoleIds : role[i] # None}
          /\ assigned \subseteq userRole
          /\ answered \subseteq AccountIds
          /\ req \in [Requests -> Handler]

\* Once a run of the script has ended, every role is there once with all its
\* permissions and no other, wherever earlier runs died and later runs are.
SeedConverges ==
  seed.done => \A code \in Codes : \E i \in RoleIds :
    /\ {j \in RoleIds : role[j] = code} = {i}
    /\ {p \in Permissions : <<i, p>> \in rolePermission} = Granted[code]

\* What a registration gives its account is the customer role: id 4, written in
\* UserRoleIDS, is what the script numbered it, also for accounts that registered
\* while the script ran.  Once it has run, such an account has the permissions of
\* a customer and those of the roles operators gave it, and no others.
RegisteredAsCustomers ==
  \A x \in userRole \ assigned :
    /\ role[x[2]] = "customer"
    /\ seed.done => GetPermissionsForUser(x[1]) =
         UNION {Granted[role[i]] : i \in {j \in RoleIds :
                                            j = x[2] \/ <<x[1], j>> \in assigned}}

\* A registration answered with success left an account with the customer role,
\* whatever registrations raced it; one that failed may leave an account too
\* (UserService.create, 137).  The account logs in by its email, unless that is
\* longer than the 49 characters LoginAuthDTO allows, and by its username, unless
\* that is an address (another account's perhaps) or starts with a space: where
\* neither serves, no login finds the account.
SuccessMeansCustomer ==
  \A a \in answered :
    /\ user[a] # None
    /\ <<a, DefaultRegisterRole>> \in userRole
    /\ \A i \in {user[a].email, user[a].username} :
         Login(i) = {a} <=> /\ Trim(i) \notin LoginRefuses
                            /\ Trim(i) = user[a].email \/ (i \notin EmailLike /\ Trim(i) = i)

\* No registration changes the account an identifier logs in to, also where the
\* username of one account is the email of another.
LookupStable ==
  [][\A i \in Emails \cup Usernames :
       FindUserForAuth(i) # {} => FindUserForAuth(i)' = FindUserForAuth(i)]_user
=============================================================================
