--------------------------- MODULE AccountsProofs ---------------------------
(* Theorems about Accounts, for any accounts, identifiers, permissions and  *)
(* registrations in flight, wherever the script or a registration stops.    *)
(* The last one compares the tables with the patterns the server declares.  *)
EXTENDS RolePermissions, FiniteSetTheorems, SequenceTheorems, TLAPS

USE ConstantsAssumption, NoneIsNoUser

-----------------------------------------------------------------------------
(* The inductive invariant *)

LinksOf(i) == {p \in Permissions : <<i, p>> \in rolePermission}

\* A role that a run of the script is done with, in its final place.
Complete(i) == role[i] = RoleOrder[i] /\ LinksOf(i) = Granted[RoleOrder[i]]

\* Ids follow the order of ROLE_PERMS and have no gaps.
RolesInOrder ==
  \A i \in RoleIds : /\ role[i] \in {RoleOrder[i], None}
                     /\ role[i] # None => \A j \in RoleIds : j < i => role[j] # None

LinksGranted ==
  \A i \in RoleIds, p \in Permissions :
    <<i, p>> \in rolePermission => role[i] # None /\ p \in Granted[RoleOrder[i]]

\* What the run in progress has behind it.
RunOnItsWay ==
  /\ seed.pc = "permissions" =>
       seed.next = 1 /\ seed.todo # {} /\ Permissions \ seed.todo \subseteq permission
  /\ seed.pc \in {"role", "links"} =>
       /\ seed.next \in RoleIds /\ permission = Permissions
       /\ \A i \in RoleIds : i < seed.next => Complete(i)
  /\ seed.pc = "links" =>
       /\ role[seed.next] = RoleOrder[seed.next]
       /\ seed.todo \subseteq Granted[RoleOrder[seed.next]]
       /\ Granted[RoleOrder[seed.next]] \ seed.todo \subseteq LinksOf(seed.next)
  /\ seed.done => \A i \in RoleIds : Complete(i)

ScriptTypeOK == /\ permission \subseteq Permissions
                /\ role \in [RoleIds -> Codes \cup {None}]
                /\ rolePermission \subseteq {i \in RoleIds : role[i] # None} \X permission
                /\ seed \in Script

ScriptInv == ScriptTypeOK /\ RolesInOrder /\ LinksGranted /\ RunOnItsWay

UsersTypeOK == /\ user \in [AccountIds -> User \cup {None}]
               /\ assigned \subseteq userRole
               /\ answered \subseteq AccountIds
               /\ req \in [Requests -> Handler]

\* Both columns are unique.
IdentifiersUnique ==
  \A a, b \in AccountIds :
    user[a] # None /\ user[b] # None
      /\ (user[a].email = user[b].email \/ user[a].username = user[b].username) => a = b

HandlersHold ==
  \A r \in Requests :
    /\ req[r].pc = "insert" => req[r].email \in Emails /\ req[r].username \in Usernames
    /\ req[r].pc = "grant" => req[r].id \in AccountIds /\ user[req[r].id] # None

RolesHeld ==
  \A x \in userRole : /\ x \in AccountIds \X RoleIds
                      /\ user[x[1]] # None /\ role[x[2]] # None
                      /\ x \notin assigned => x[2] = DefaultRegisterRole

AnsweredHaveRole ==
  \A a \in answered : user[a] # None /\ <<a, DefaultRegisterRole>> \in userRole

UsersInv ==
  UsersTypeOK /\ IdentifiersUnique /\ HandlersHold /\ RolesHeld /\ AnsweredHaveRole

IInv == ScriptInv /\ UsersInv

-----------------------------------------------------------------------------
(* The order of the roles *)

LEMMA FiveRoles == RoleIds = 1 .. 5 /\ RoleIds \subseteq Nat /\ 4 \in RoleIds
  BY DEF RoleIds, RoleOrder

LEMMA ScriptIs ==
  Script = [pc : {"idle", "permissions", "role", "links"}, next : 1 .. 6,
            todo : SUBSET Permissions, done : BOOLEAN]
  <1>1. Len(RoleOrder) + 1 = 6
    BY DEF RoleOrder
  <1> QED BY <1>1 DEF Script

LEMMA ScriptMoved ==
  ASSUME seed \in Script, NEW todo \in SUBSET Permissions, NEW n \in 1 .. 6,
         NEW pc \in {"idle", "permissions", "role", "links"},
         seed' = [seed EXCEPT !.pc = pc, !.next = n, !.todo = todo]
  PROVE  /\ seed'.pc = pc /\ seed'.next = n /\ seed'.todo = todo
         /\ seed'.done = seed.done /\ seed' \in Script
  <1>1. seed'.pc = pc /\ seed'.next = n /\ seed'.todo = todo
    BY ScriptIs
  <1>2. seed'.done = seed.done
    BY ScriptIs
  <1>3. seed' \in Script
    BY ScriptIs
  <1> QED BY <1>1, <1>2, <1>3

LEMMA RoleNamed ==
  /\ \A i \in RoleIds : RoleOrder[i] \in Codes /\ RoleOrder[i] # None
  /\ RoleOrder[4] = "customer"
  <1>1. \A i \in RoleIds : RoleOrder[i] \in Codes
    BY DEF RoleIds, Codes
  <1> QED BY <1>1 DEF RoleOrder

LEMMA RolesDiffer == \A i, j \in RoleIds : RoleOrder[i] = RoleOrder[j] => i = j
  <1> SUFFICES ASSUME NEW i \in 1 .. 5, NEW j \in 1 .. 5, RoleOrder[i] = RoleOrder[j]
               PROVE  i = j
    BY FiveRoles
  <1>1. i \in {1, 2, 3, 4, 5} /\ j \in {1, 2, 3, 4, 5}
    OBVIOUS
  <1> QED BY <1>1 DEF RoleOrder

\* A role that is not there yet gets the id of its place in the order.
LEMMA NextIdIsPlace ==
  ASSUME RolesInOrder, NEW n \in RoleIds, \A i \in RoleIds : i < n => role[i] # None,
         ~\E i \in RoleIds : role[i] = RoleOrder[n]
  PROVE  NextRoleId = n /\ role[n] = None
  <1>1. role[n] = None
    BY DEF RolesInOrder
  <1>2. \A i \in RoleIds : role[i] # None <=> i < n
    BY <1>1, FiveRoles DEF RolesInOrder
  <1>3. {i \in RoleIds : role[i] # None} = 1 .. n - 1
    BY <1>2, FiveRoles
  <1>4. Cardinality(1 .. n - 1) = n - 1
    <2>1. n \in 1 .. 5 /\ n \in Int /\ n - 1 \in Int
      BY FiveRoles
    <2>2. Cardinality(1 .. n - 1) = IF 1 > n - 1 THEN 0 ELSE (n - 1) - 1 + 1
      BY <2>1, FS_Interval
    <2>3. (IF 1 > n - 1 THEN 0 ELSE (n - 1) - 1 + 1) = n - 1
      BY <2>1
    <2> QED BY <2>2, <2>3
  <1>5. NextRoleId = Cardinality(1 .. n - 1) + 1
    BY <1>3 DEF NextRoleId
  <1>6. n - 1 + 1 = n
    BY FiveRoles
  <1> QED BY <1>1, <1>4, <1>5, <1>6

-----------------------------------------------------------------------------
(* The script *)

LEMMA GrantedPermissions ==
  \A i \in RoleIds : Granted[RoleOrder[i]] \subseteq Permissions /\ Granted[RoleOrder[i]] # {}
  <1> SUFFICES ASSUME NEW i \in RoleIds
               PROVE  Granted[RoleOrder[i]] \in (SUBSET Permissions) \ {{}}
    OBVIOUS
  <1> QED BY RoleNamed

\* With todo left of role n, the script is on its way, or done with the role.
LEMMA LinksLeft ==
  ASSUME NEW n \in RoleIds, NEW todo \in SUBSET Granted[RoleOrder[n]],
         seed \in Script, seed' = AtLinks(n, todo),
         permission' = Permissions, role'[n] = RoleOrder[n],
         \A i \in RoleIds : i < n => Complete(i)',
         Granted[RoleOrder[n]] \ todo \subseteq LinksOf(n)',
         LinksGranted',
         seed.done => \A i \in RoleIds : Complete(i)'
  PROVE  seed' \in Script /\ RunOnItsWay'
  <1>1. Len(RoleOrder) = 5 /\ n \in 1 .. 5
    BY FiveRoles DEF RoleOrder
  <1>2. todo \subseteq Permissions
    BY GrantedPermissions
  <1>3. CASE todo # {}
    <2>1. seed' = [seed EXCEPT !.pc = "links", !.next = n, !.todo = todo]
      BY <1>3 DEF AtLinks
    <2>2. /\ seed'.pc = "links" /\ seed'.next = n /\ seed'.todo = todo
          /\ seed'.done = seed.done /\ seed' \in Script
      <3>1. n \in 1 .. 6
        BY <1>1
      <3> QED BY <1>2, <2>1, <3>1, ScriptMoved
    <2> QED BY <2>2 DEF RunOnItsWay
  <1>4. CASE todo = {}
    <2>1. Complete(n)'
      <3>1. LinksOf(n)' \subseteq Granted[RoleOrder[n]]
        BY DEF LinksGranted, LinksOf
      <3> QED BY <1>4, <3>1 DEF Complete
    <2>2. CASE n < 5
      <3>1. seed' = [seed EXCEPT !.pc = "role", !.next = n + 1, !.todo = {}]
        BY <1>1, <1>4, <2>2 DEF AtLinks
      <3>2. /\ seed'.pc = "role" /\ seed'.next = n + 1
            /\ seed'.done = seed.done /\ seed' \in Script
        <4>1. n + 1 \in 1 .. 6
          BY <1>1
        <4> QED BY <3>1, <4>1, ScriptMoved
      <3>3. n + 1 \in RoleIds /\ \A i \in RoleIds : i < n + 1 => i < n \/ i = n
        BY <1>1, <2>2, FiveRoles
      <3> QED BY <2>1, <3>2, <3>3 DEF RunOnItsWay
    <2>3. CASE n = 5
      <3>1. seed' = [seed EXCEPT !.pc = "idle", !.next = n + 1, !.todo = {}, !.done = TRUE]
        BY <1>1, <1>4, <2>3 DEF AtLinks
      <3>2. n + 1 \in 1 .. 6
        BY <1>1
      <3>3. seed'.pc = "idle"
        BY <3>1, ScriptIs
      <3>4. seed' \in Script
        BY <3>1, <3>2, ScriptIs
      <3>5. \A i \in RoleIds : i < n \/ i = n
        BY <2>3, FiveRoles
      <3> QED BY <2>1, <3>3, <3>4, <3>5 DEF RunOnItsWay
    <2> QED BY <1>1, <2>2, <2>3
  <1> QED BY <1>3, <1>4

LEMMA SeedStartInv == ScriptInv /\ SeedStart => ScriptInv'
  <1> SUFFICES ASSUME ScriptInv, SeedStart PROVE ScriptInv'
    OBVIOUS
  <1>1. Permissions # {}
    BY GrantedPermissions, FiveRoles
  <1>2. /\ seed'.pc = "permissions" /\ seed'.next = 1 /\ seed'.todo = Permissions
        /\ seed'.done = seed.done /\ seed' \in Script
    <2>1. seed \in Script /\ 1 \in 1 .. 6
      BY DEF ScriptInv, ScriptTypeOK
    <2>2. seed' = [seed EXCEPT !.pc = "permissions", !.next = 1, !.todo = Permissions]
      BY DEF SeedStart
    <2> QED BY <2>1, <2>2, ScriptMoved
  <1>3. UNCHANGED <<permission, role, rolePermission>>
    BY DEF SeedStart
  <1>4. RunOnItsWay'
    BY <1>1, <1>2, <1>3 DEF ScriptInv, RunOnItsWay, Complete, LinksOf
  <1> QED BY <1>2, <1>3, <1>4 DEF ScriptInv, ScriptTypeOK, RolesInOrder, LinksGranted

LEMMA UpsertPermissionInv ==
  ASSUME NEW p \in Permissions, ScriptInv, UpsertPermission(p)
  PROVE  ScriptInv'
  <1>1. /\ seed'.pc = IF seed.todo = {p} THEN "role" ELSE "permissions"
        /\ seed'.next = seed.next /\ seed'.todo = seed.todo \ {p}
        /\ seed'.done = seed.done /\ seed' \in Script
    BY DEF UpsertPermission, ScriptInv, ScriptTypeOK, Script
  <1>2. UNCHANGED <<role, rolePermission>> /\ permission' = permission \cup {p}
    BY DEF UpsertPermission
  <1>3. p \in seed.todo /\ seed.pc = "permissions" /\ seed.next = 1
    BY DEF UpsertPermission, IsNext, ScriptInv, RunOnItsWay
  <1>4. Permissions \ seed'.todo \subseteq permission' /\ permission' \subseteq Permissions
    BY <1>1, <1>2, <1>3 DEF ScriptInv, RunOnItsWay, ScriptTypeOK
  <1>5. CASE seed.todo = {p}
    <2>1. permission' = Permissions
      BY <1>1, <1>4, <1>5
    <2>2. seed'.pc = "role" /\ seed'.next = 1
      BY <1>1, <1>3, <1>5
    <2>3. 1 \in RoleIds /\ ~\E i \in RoleIds : i < 1
      BY FiveRoles
    <2>4. RunOnItsWay'
      BY <1>1, <1>2, <2>1, <2>2, <2>3 DEF ScriptInv, RunOnItsWay, Complete, LinksOf
    <2> QED BY <1>1, <1>2, <1>4, <2>4 DEF ScriptInv, ScriptTypeOK, RolesInOrder, LinksGranted
  <1>6. CASE seed.todo # {p}
    <2>1. seed'.pc = "permissions" /\ seed'.todo # {}
      BY <1>1, <1>3, <1>6
    <2>2. RunOnItsWay'
      BY <1>1, <1>2, <1>3, <1>4, <2>1 DEF ScriptInv, RunOnItsWay, Complete, LinksOf
    <2> QED BY <1>1, <1>2, <1>4, <2>2 DEF ScriptInv, ScriptTypeOK, RolesInOrder, LinksGranted
  <1> QED BY <1>5, <1>6

LEMMA SeedDiesInv == ScriptInv /\ SeedDies => ScriptInv'
  <1> SUFFICES ASSUME ScriptInv, SeedDies PROVE ScriptInv'
    OBVIOUS
  <1>1. seed'.pc = "idle" /\ seed'.done = seed.done /\ seed' \in Script
    BY DEF SeedDies, ScriptInv, ScriptTypeOK, Script
  <1>2. UNCHANGED <<permission, role, rolePermission>>
    BY DEF SeedDies
  <1> QED BY <1>1, <1>2 DEF ScriptInv, ScriptTypeOK, RolesInOrder, LinksGranted,
                            RunOnItsWay, Complete, LinksOf

LEMMA UpsertRoleInv ==
  ASSUME ScriptInv, UpsertRole
  PROVE  ScriptInv' /\ \A i \in RoleIds : role[i] # None => role'[i] = role[i]
  <1>0. PICK n \in RoleIds : n = seed.next
    BY DEF ScriptInv, RunOnItsWay, UpsertRole
  <1>1. permission = Permissions /\ seed.pc = "role"
    BY DEF ScriptInv, RunOnItsWay, UpsertRole
  <1>2. seed' = AtLinks(n, LinksToMake(RoleOrder[n])) /\ UNCHANGED <<permission, rolePermission>>
    BY <1>0 DEF UpsertRole
  <1>3. LinksToMake(RoleOrder[n]) = Granted[RoleOrder[n]]
    BY <1>1, GrantedPermissions DEF LinksToMake
  <1>4. \A i \in RoleIds : i < n => role[i] # None
    BY <1>0, <1>1, RoleNamed DEF ScriptInv, RunOnItsWay, Complete
  <1>5. role' = IF \E i \in RoleIds : role[i] = RoleOrder[n] THEN role
                ELSE [role EXCEPT ![n] = RoleOrder[n]]
    <2>1. role' = IF \E i \in RoleIds : role[i] = RoleOrder[n] THEN role
                  ELSE [role EXCEPT ![NextRoleId] = RoleOrder[n]]
      BY <1>0 DEF UpsertRole
    <2> QED BY <1>1, <1>4, <2>1, NextIdIsPlace DEF ScriptInv
  <1>6. /\ \A i \in RoleIds : i # n => role'[i] = role[i]
        /\ role'[n] = RoleOrder[n]
        /\ role' \in [RoleIds -> Codes \cup {None}]
        /\ role[n] # None => role[n] = RoleOrder[n]
    <2>1. CASE \E i \in RoleIds : role[i] = RoleOrder[n]
      <3>1. PICK i \in RoleIds : role[i] = RoleOrder[n]
        BY <2>1
      <3>2. role[i] = RoleOrder[i]
        BY <1>1, <3>1, RoleNamed DEF ScriptInv, RolesInOrder
      <3>3. i = n
        BY <1>1, <3>1, <3>2, RolesDiffer
      <3> QED BY <1>5, <2>1, <3>1, <3>3 DEF ScriptInv, ScriptTypeOK
    <2>2. CASE ~\E i \in RoleIds : role[i] = RoleOrder[n]
      <3> QED BY <1>1, <1>5, <2>2, RoleNamed DEF ScriptInv, ScriptTypeOK, RolesInOrder
    <2> QED BY <2>1, <2>2
  <1>7. \A i \in RoleIds : role[i] # None => role'[i] = role[i]
    BY <1>1, <1>6
  <1>8. RolesInOrder'
    BY <1>1, <1>4, <1>6, FiveRoles, RoleNamed DEF ScriptInv, RolesInOrder
  <1>9. LinksGranted'
    BY <1>2, <1>7 DEF ScriptInv, LinksGranted
  <1>10. \A i \in RoleIds : Complete(i) => Complete(i)'
    BY <1>2, <1>7, RoleNamed DEF Complete, LinksOf
  <1>11. seed' \in Script /\ RunOnItsWay'
    <2>1. \A i \in RoleIds : i < n => Complete(i)'
      BY <1>0, <1>1, <1>10 DEF ScriptInv, RunOnItsWay
    <2>2. seed.done => \A i \in RoleIds : Complete(i)'
      BY <1>10 DEF ScriptInv, RunOnItsWay
    <2>3. seed \in Script /\ permission' = Permissions
      BY <1>1, <1>2 DEF ScriptInv, ScriptTypeOK
    <2>4. seed' = AtLinks(n, Granted[RoleOrder[n]])
      BY <1>2, <1>3
    <2> QED BY <1>1, <1>6, <1>9, <2>1, <2>2, <2>3, <2>4, LinksLeft
  <1>12. ScriptTypeOK'
    BY <1>2, <1>6, <1>7, <1>11 DEF ScriptInv, ScriptTypeOK
  <1> QED BY <1>7, <1>8, <1>9, <1>11, <1>12 DEF ScriptInv

LEMMA UpsertLinkInv ==
  ASSUME NEW p \in Permissions, ScriptInv, UpsertLink(p)
  PROVE  ScriptInv'
  <1>0. PICK n \in RoleIds, todo \in SUBSET Permissions :
          n = seed.next /\ todo = seed.todo \ {p}
    BY DEF UpsertLink, ScriptInv, ScriptTypeOK, Script, RunOnItsWay
  <1>1. /\ permission = Permissions /\ role[n] = RoleOrder[n]
        /\ seed.todo \subseteq Granted[RoleOrder[n]]
        /\ Granted[RoleOrder[n]] \ seed.todo \subseteq LinksOf(n)
    BY <1>0 DEF UpsertLink, ScriptInv, RunOnItsWay
  <1>2. p \in seed.todo
    BY DEF UpsertLink, IsNext
  <1>3. UNCHANGED <<permission, role>> /\ seed' = AtLinks(n, todo)
    BY <1>0 DEF UpsertLink
  <1>4. {j \in RoleIds : role[j] = RoleOrder[n]} = {n}
    <2>1. ASSUME NEW j \in RoleIds, role[j] = RoleOrder[n] PROVE j = n
      <3>1. role[j] = RoleOrder[j]
        BY <1>1, <2>1, RoleNamed DEF ScriptInv, RolesInOrder
      <3> QED BY <1>1, <2>1, <3>1, RolesDiffer
    <2> QED BY <1>1, <2>1
  <1>5. rolePermission' = rolePermission \cup {<<n, p>>}
    <2>1. rolePermission' = rolePermission \cup
                              {<<i, p>> : i \in {j \in RoleIds : role[j] = RoleOrder[n]}}
      BY <1>0 DEF UpsertLink
    <2>2. {<<i, p>> : i \in {n}} = {<<n, p>>}
      OBVIOUS
    <2> QED BY <1>4, <2>1, <2>2
  <1>6. seed \in Script /\ todo \in SUBSET Granted[RoleOrder[n]]
    BY <1>0, <1>1 DEF ScriptInv, ScriptTypeOK
  <1>7. seed.done => \A i \in RoleIds : Complete(i)
    BY DEF ScriptInv, RunOnItsWay
  <1>8. \A i \in RoleIds : i < n => Complete(i)
    BY <1>0 DEF UpsertLink, ScriptInv, RunOnItsWay
  <1>9. Granted[RoleOrder[n]] \ todo \subseteq LinksOf(n)'
    <2>1. LinksOf(n) \cup {p} \subseteq {q \in Permissions : <<n, q>> \in rolePermission'}
      BY <1>5 DEF LinksOf
    <2>2. LinksOf(n)' = {q \in Permissions : <<n, q>> \in rolePermission'}
      BY <1>3 DEF LinksOf
    <2> QED BY <1>0, <1>1, <2>1, <2>2
  <1>10. LinksGranted'
    BY <1>1, <1>2, <1>3, <1>5, RoleNamed DEF ScriptInv, LinksGranted
  <1>11. \A i \in RoleIds : Complete(i) => Complete(i)'
    <2>1. p \in Granted[RoleOrder[n]]
      BY <1>1, <1>2
    <2>2. \A i \in RoleIds : i # n => LinksOf(i)' = LinksOf(i)
      BY <1>5 DEF LinksOf
    <2>3. LinksOf(n) = Granted[RoleOrder[n]] => LinksOf(n)' = LinksOf(n)
      BY <1>5, <2>1 DEF LinksOf
    <2> QED BY <1>1, <1>3, <2>2, <2>3 DEF Complete
  <1>12. seed' \in Script /\ RunOnItsWay'
    <2>1. \A i \in RoleIds : i < n => Complete(i)'
      BY <1>8, <1>11
    <2>2. seed.done => \A i \in RoleIds : Complete(i)'
      BY <1>7, <1>11
    <2>3. role'[n] = RoleOrder[n] /\ permission' = Permissions
      BY <1>1, <1>3
    <2> QED BY <1>1, <1>3, <1>6, <1>9, <1>10, <2>1, <2>2, <2>3, LinksLeft
  <1>13. ScriptTypeOK'
    <2>1. <<n, p>> \in {i \in RoleIds : role[i] # None} \X permission
      BY <1>1, RoleNamed
    <2> QED BY <1>3, <1>5, <1>12, <2>1 DEF ScriptInv, ScriptTypeOK
  <1> QED BY <1>3, <1>10, <1>12, <1>13 DEF ScriptInv, RolesInOrder

-----------------------------------------------------------------------------
(* Registrations *)

LEMMA HandlerMoved ==
  ASSUME NEW r \in Requests, NEW q \in Handler, req \in [Requests -> Handler],
         req' = [req EXCEPT ![r] = q]
  PROVE  req' \in [Requests -> Handler] /\ req'[r] = q
         /\ \A t \in Requests : t # r => req'[t] = req[t]
  OBVIOUS

LEMMA IdleTyped == Idle \in Handler /\ Idle.pc = "idle"
  BY DEF Idle, Handler

\* A handler that ends leaves the others as they were.
LEMMA FinishHolds ==
  ASSUME NEW r \in Requests, req \in [Requests -> Handler], HandlersHold, Finish(r),
         \A a \in AccountIds : user[a] # None => user'[a] # None
  PROVE  req' \in [Requests -> Handler] /\ HandlersHold'
  <1>1. /\ req' \in [Requests -> Handler] /\ req'[r] = Idle
        /\ \A t \in Requests : t # r => req'[t] = req[t]
    BY IdleTyped, HandlerMoved DEF Finish
  <1>2. ASSUME NEW t \in Requests
        PROVE  /\ req'[t].pc = "insert" =>
                    req'[t].email \in Emails /\ req'[t].username \in Usernames
               /\ req'[t].pc = "grant" => req'[t].id \in AccountIds /\ user'[req'[t].id] # None
    <2>1. CASE t = r
      BY <1>1, <2>1, IdleTyped
    <2>2. CASE t # r
      BY <1>1, <2>2 DEF HandlersHold
    <2> QED BY <2>1, <2>2
  <1> QED BY <1>1, <1>2 DEF HandlersHold

LEMMA FindInv ==
  ASSUME NEW r \in Requests, NEW e \in Emails, NEW n \in Usernames,
         UsersInv, RegisterFind(r, e, n)
  PROVE  UsersInv'
  <1>1. PICK q \in Handler : /\ q.pc = "insert" /\ q.email = e /\ q.username = n
                             /\ req' = [req EXCEPT ![r] = q]
    <2> DEFINE q == [Idle EXCEPT !.pc = "insert", !.email = e, !.username = n]
    <2>1. q \in Handler /\ q.pc = "insert" /\ q.email = e /\ q.username = n
      BY DEF Idle, Handler
    <2>2. req' = [req EXCEPT ![r] = q]
      BY DEF RegisterFind
    <2> QED BY <2>1, <2>2
  <1>2. /\ req' \in [Requests -> Handler] /\ req'[r] = q
        /\ \A t \in Requests : t # r => req'[t] = req[t]
    BY <1>1, HandlerMoved DEF UsersInv, UsersTypeOK
  <1>3. UNCHANGED <<role, user, userRole, assigned, answered>>
    BY DEF RegisterFind, rbac
  <1>4. HandlersHold'
    <2> SUFFICES ASSUME NEW t \in Requests
                 PROVE  /\ req'[t].pc = "insert" =>
                             req'[t].email \in Emails /\ req'[t].username \in Usernames
                        /\ req'[t].pc = "grant" =>
                             req'[t].id \in AccountIds /\ user'[req'[t].id] # None
      BY DEF HandlersHold
    <2>1. CASE t = r
      BY <1>1, <1>2, <2>1
    <2>2. CASE t # r
      BY <1>2, <1>3, <2>2 DEF UsersInv, HandlersHold
    <2> QED BY <2>1, <2>2
  <1> QED BY <1>2, <1>3, <1>4 DEF UsersInv, UsersTypeOK, IdentifiersUnique,
                                  RolesHeld, AnsweredHaveRole

\* The row a registration inserts has identifiers that no row has.
LEMMA CreateInv ==
  ASSUME NEW r \in Requests, NEW a \in AccountIds, UsersInv, CreateUser(r, a)
  PROVE  UsersInv'
  <1>1. UNCHANGED <<role, userRole, assigned, answered>>
    BY DEF CreateUser, rbac
  <1>2. /\ req[r] \in Handler /\ req[r].email \in Emails /\ req[r].username \in Usernames
        /\ user[a] = None
    BY DEF CreateUser, UsersInv, UsersTypeOK, HandlersHold
  <1>3. CASE InUse(req[r].email, req[r].username)
    <2>1. Finish(r) /\ user' = user
      BY <1>3 DEF CreateUser
    <2>2. req' \in [Requests -> Handler] /\ HandlersHold'
      BY <2>1, FinishHolds DEF UsersInv, UsersTypeOK
    <2> QED BY <1>1, <2>1, <2>2 DEF UsersInv, UsersTypeOK, IdentifiersUnique,
                                    RolesHeld, AnsweredHaveRole
  <1>4. CASE ~InUse(req[r].email, req[r].username)
    <2>1. PICK u \in User : /\ u.email = req[r].email /\ u.username = req[r].username
                            /\ user' = [user EXCEPT ![a] = u]
      <3> DEFINE u == [email |-> req[r].email, username |-> req[r].username]
      <3>1. u \in User /\ u.email = req[r].email /\ u.username = req[r].username
        BY <1>2 DEF User
      <3>2. user' = [user EXCEPT ![a] = u]
        BY <1>4 DEF CreateUser
      <3> QED BY <3>1, <3>2
    <2>2. /\ user' \in [AccountIds -> User \cup {None}] /\ user'[a] = u /\ user'[a] # None
          /\ \A b \in AccountIds : b # a => user'[b] = user[b]
      BY <2>1 DEF UsersInv, UsersTypeOK
    <2>3. \A b \in AccountIds : user[b] # None => user'[b] = user[b]
      BY <1>2, <2>2
    <2>4. PICK q \in Handler : /\ q.pc = "grant" /\ q.id = a
                               /\ req' = [req EXCEPT ![r] = q]
      <3> DEFINE q == [req[r] EXCEPT !.pc = "grant", !.id = a]
      <3>1. q \in Handler /\ q.pc = "grant" /\ q.id = a
        BY <1>2 DEF Handler
      <3>2. req' = [req EXCEPT ![r] = q]
        BY <1>4 DEF CreateUser
      <3> QED BY <3>1, <3>2
    <2>5. /\ req' \in [Requests -> Handler] /\ req'[r] = q
          /\ \A t \in Requests : t # r => req'[t] = req[t]
      BY <2>4, HandlerMoved DEF UsersInv, UsersTypeOK
    <2>6. HandlersHold'
      <3> SUFFICES ASSUME NEW t \in Requests
                   PROVE  /\ req'[t].pc = "insert" =>
                               req'[t].email \in Emails /\ req'[t].username \in Usernames
                          /\ req'[t].pc = "grant" =>
                               req'[t].id \in AccountIds /\ user'[req'[t].id] # None
        BY DEF HandlersHold
      <3>1. CASE t = r
        BY <2>2, <2>4, <2>5, <3>1
      <3>2. CASE t # r
        BY <2>3, <2>5, <3>2 DEF UsersInv, HandlersHold
      <3> QED BY <3>1, <3>2
    <2>7. IdentifiersUnique'
      <3>1. ASSUME NEW b \in AccountIds, b # a, user[b] # None
            PROVE  user[b].email # u.email /\ user[b].username # u.username
        BY <1>4, <2>1, <3>1 DEF InUse
      <3>2. \A b \in AccountIds : user'[b] # None /\ b # a => user[b] # None /\ user'[b] = user[b]
        BY <2>2
      <3> QED BY <2>2, <3>1, <3>2 DEF UsersInv, IdentifiersUnique
    <2>8. RolesHeld'
      <3> SUFFICES ASSUME NEW x \in userRole
                   PROVE  user'[x[1]] # None
        BY <1>1 DEF UsersInv, RolesHeld
      <3> QED BY <2>3 DEF UsersInv, RolesHeld
    <2>9. AnsweredHaveRole'
      BY <1>1, <2>3 DEF UsersInv, UsersTypeOK, AnsweredHaveRole
    <2> QED BY <1>1, <2>2, <2>5, <2>6, <2>7, <2>8, <2>9 DEF UsersInv, UsersTypeOK
  <1> QED BY <1>3, <1>4

LEMMA GrantInv ==
  ASSUME NEW r \in Requests, UsersInv, CreateUserRole(r)
  PROVE  UsersInv'
  <1>1. PICK a \in AccountIds : a = req[r].id /\ user[a] # None
    BY DEF CreateUserRole, UsersInv, HandlersHold
  <1>2. /\ UNCHANGED <<role, user, assigned>> /\ Finish(r)
        /\ userRole' = userRole \cup RolesGranted(a)
        /\ answered' = IF AnswersSuccess(a) THEN answered \cup {a} ELSE answered
    BY <1>1 DEF CreateUserRole, rbac
  <1>3. /\ RolesGranted(a) \subseteq {<<a, DefaultRegisterRole>>}
        /\ RolesGranted(a) # {} =>
             role[DefaultRegisterRole] # None /\ <<a, DefaultRegisterRole>> \in RolesGranted(a)
    BY DEF RolesGranted
  <1>4. req' \in [Requests -> Handler] /\ HandlersHold'
    BY <1>2, FinishHolds DEF UsersInv, UsersTypeOK
  <1>5. RolesHeld'
    <2>1. DefaultRegisterRole \in RoleIds
      BY FiveRoles DEF DefaultRegisterRole
    <2>2. ASSUME NEW x \in RolesGranted(a)
          PROVE  /\ x \in AccountIds \X RoleIds /\ user[x[1]] # None
                 /\ x[2] = DefaultRegisterRole /\ role[x[2]] # None
      BY <1>1, <1>3, <2>1
    <2> QED BY <1>2, <2>2 DEF UsersInv, RolesHeld
  <1>6. AnsweredHaveRole'
    BY <1>1, <1>2, <1>3 DEF UsersInv, AnsweredHaveRole, AnswersSuccess
  <1>7. assigned' \subseteq userRole'
    BY <1>2 DEF UsersInv, UsersTypeOK
  <1> QED BY <1>1, <1>2, <1>4, <1>5, <1>6, <1>7 DEF UsersInv, UsersTypeOK, IdentifiersUnique

LEMMA AssignInv ==
  ASSUME NEW a \in AccountIds, NEW i \in RoleIds, UsersInv, AssignRole(a, i)
  PROVE  UsersInv'
  <1>1. /\ UNCHANGED <<role, user, answered, req>>
        /\ user[a] # None /\ role[i] # None
        /\ userRole' = userRole \cup {<<a, i>>} /\ assigned' = assigned \cup {<<a, i>>}
    BY DEF AssignRole, rbac
  <1>2. RolesHeld'
    BY <1>1 DEF UsersInv, RolesHeld
  <1>3. AnsweredHaveRole'
    BY <1>1 DEF UsersInv, AnsweredHaveRole
  <1>4. assigned' \subseteq userRole'
    BY <1>1 DEF UsersInv, UsersTypeOK
  <1> QED BY <1>1, <1>2, <1>3, <1>4 DEF UsersInv, UsersTypeOK, IdentifiersUnique, HandlersHold

LEMMA AbortInv == ASSUME NEW r \in Requests, UsersInv, Abort(r) PROVE UsersInv'
  <1>1. UNCHANGED <<role, user, userRole, assigned, answered>> /\ Finish(r)
    BY DEF Abort, rbac
  <1>2. req' \in [Requests -> Handler] /\ HandlersHold'
    BY <1>1, FinishHolds DEF UsersInv, UsersTypeOK
  <1> QED BY <1>1, <1>2 DEF UsersInv, UsersTypeOK, IdentifiersUnique,
                            RolesHeld, AnsweredHaveRole

-----------------------------------------------------------------------------
(* The invariant holds *)

LEMMA InitIInv == Init => IInv
  <1> SUFFICES ASSUME Init PROVE IInv
    OBVIOUS
  <1>1. ScriptTypeOK
    <2>1. seed \in Script
      BY ScriptIs DEF Init
    <2> QED BY <2>1 DEF Init, ScriptTypeOK
  <1>2. RolesInOrder /\ LinksGranted /\ RunOnItsWay
    BY DEF Init, RolesInOrder, LinksGranted, RunOnItsWay
  <1>3. UsersTypeOK /\ HandlersHold
    BY IdleTyped DEF Init, UsersTypeOK, HandlersHold
  <1>4. IdentifiersUnique /\ RolesHeld /\ AnsweredHaveRole
    BY DEF Init, IdentifiersUnique, RolesHeld, AnsweredHaveRole
  <1> QED BY <1>1, <1>2, <1>3, <1>4 DEF IInv, ScriptInv, UsersInv

\* Steps that leave the accounts alone and no role without a row keep UsersInv.
LEMMA UsersStay ==
  ASSUME UsersInv, UNCHANGED registrations, \A i \in RoleIds : role[i] # None => role'[i] = role[i]
  PROVE  UsersInv'
  <1>1. UNCHANGED <<user, userRole, assigned, answered, req>>
    BY DEF registrations
  <1>2. DefaultRegisterRole \in RoleIds
    BY FiveRoles DEF DefaultRegisterRole
  <1>3. RolesHeld'
    BY <1>1, <1>2 DEF UsersInv, RolesHeld
  <1> QED BY <1>1, <1>3 DEF UsersInv, UsersTypeOK, IdentifiersUnique,
                            HandlersHold, AnsweredHaveRole

LEMMA ScriptStays == ScriptInv /\ UNCHANGED <<rbac, seed>> => ScriptInv'
  BY DEF ScriptInv, ScriptTypeOK, RolesInOrder, LinksGranted, RunOnItsWay, Complete, LinksOf, rbac

LEMMA IInvPreserved == IInv /\ [Next]_vars => IInv'
  <1> SUFFICES ASSUME ScriptInv, UsersInv, [Next]_vars PROVE ScriptInv' /\ UsersInv'
    BY DEF IInv
  <1>1. CASE SeedStart
    BY <1>1, SeedStartInv, UsersStay DEF SeedStart
  <1>2. ASSUME NEW p \in Permissions, UpsertPermission(p) PROVE ScriptInv' /\ UsersInv'
    BY <1>2, UpsertPermissionInv, UsersStay DEF UpsertPermission
  <1>3. CASE UpsertRole
    BY <1>3, UpsertRoleInv, UsersStay DEF UpsertRole
  <1>4. ASSUME NEW p \in Permissions, UpsertLink(p) PROVE ScriptInv' /\ UsersInv'
    BY <1>4, UpsertLinkInv, UsersStay DEF UpsertLink
  <1>5. CASE SeedDies
    BY <1>5, SeedDiesInv, UsersStay DEF SeedDies
  <1>6. ASSUME NEW r \in Requests, NEW e \in Emails, NEW n \in Usernames, RegisterFind(r, e, n)
        PROVE  ScriptInv' /\ UsersInv'
    BY <1>6, FindInv, ScriptStays DEF RegisterFind
  <1>7. ASSUME NEW r \in Requests, NEW a \in AccountIds, CreateUser(r, a)
        PROVE  ScriptInv' /\ UsersInv'
    BY <1>7, CreateInv, ScriptStays DEF CreateUser
  <1>8. ASSUME NEW r \in Requests, CreateUserRole(r) PROVE ScriptInv' /\ UsersInv'
    BY <1>8, GrantInv, ScriptStays DEF CreateUserRole
  <1>9. ASSUME NEW r \in Requests, Abort(r) PROVE ScriptInv' /\ UsersInv'
    BY <1>9, AbortInv, ScriptStays DEF Abort
  <1>10. ASSUME NEW a \in AccountIds, NEW i \in RoleIds, AssignRole(a, i)
         PROVE  ScriptInv' /\ UsersInv'
    BY <1>10, AssignInv, ScriptStays DEF AssignRole
  <1>11. CASE UNCHANGED vars
    <2>1. UNCHANGED <<rbac, seed>> /\ UNCHANGED registrations /\ role' = role
      BY <1>11 DEF vars, rbac, registrations
    <2> QED BY <2>1, ScriptStays, UsersStay
  <1> QED BY <1>1, <1>2, <1>3, <1>4, <1>5, <1>6, <1>7, <1>8, <1>9, <1>10, <1>11 DEF Next

LEMMA Invariant == Spec => []IInv
  BY InitIInv, IInvPreserved, PTL DEF Spec

-----------------------------------------------------------------------------
\* Every reachable state is well typed, and links and user roles join rows that
\* exist, wherever the script or a registration stops.
THEOREM TypeCorrect == Spec => []TypeOK
  <1>1. IInv => TypeOK
    <2> SUFFICES ASSUME IInv PROVE TypeOK
      OBVIOUS
    <2>1. userRole \subseteq {a \in AccountIds : user[a] # None} \X {i \in RoleIds : role[i] # None}
      <3> SUFFICES ASSUME NEW x \in userRole
                   PROVE  x \in {a \in AccountIds : user[a] # None}
                                  \X {i \in RoleIds : role[i] # None}
        OBVIOUS
      <3> QED BY DEF IInv, UsersInv, RolesHeld
    <2> QED BY <2>1 DEF IInv, ScriptInv, ScriptTypeOK, UsersInv, UsersTypeOK, TypeOK
  <1> QED BY <1>1, Invariant, PTL

\* A run of the script that ends leaves every role once and with all its
\* permissions, whatever earlier runs left behind.
THEOREM SeedingConverges == Spec => []SeedConverges
  <1>1. IInv => SeedConverges
    <2> SUFFICES ASSUME IInv, seed.done, NEW code \in Codes
                 PROVE  \E i \in RoleIds : /\ {j \in RoleIds : role[j] = code} = {i}
                                           /\ LinksOf(i) = Granted[code]
      BY DEF SeedConverges, LinksOf
    <2>1. PICK i \in RoleIds : code = RoleOrder[i]
      BY DEF Codes, RoleIds
    <2>2. \A j \in RoleIds : Complete(j)
      BY DEF IInv, ScriptInv, RunOnItsWay
    <2>3. {j \in RoleIds : role[j] = code} = {i}
      BY <2>1, <2>2, RolesDiffer DEF Complete
    <2> QED BY <2>1, <2>2, <2>3 DEF Complete
  <1> QED BY <1>1, Invariant, PTL

\* A registration gives its account the role the script calls "customer", though
\* the id is written in the code; once the script has run the account has what that
\* role and the roles an operator gave it are granted, and nothing else.
THEOREM RegistrationsMakeCustomers == Spec => []RegisteredAsCustomers
  <1>1. IInv => RegisteredAsCustomers
    <2> SUFFICES ASSUME IInv, NEW x \in userRole \ assigned
                 PROVE  /\ role[x[2]] = "customer"
                        /\ seed.done => GetPermissionsForUser(x[1]) =
                             UNION {Granted[role[i]] : i \in {j \in RoleIds :
                                      j = x[2] \/ <<x[1], j>> \in assigned}}
      BY DEF RegisteredAsCustomers
    <2>1. /\ x = <<x[1], x[2]>> /\ x[2] = 4 /\ role[x[2]] # None
          /\ \A y \in userRole : y \notin assigned => y[2] = 4
      BY DEF IInv, UsersInv, RolesHeld, DefaultRegisterRole
    <2>2. role[x[2]] = "customer"
      BY <2>1, FiveRoles, RoleNamed DEF IInv, ScriptInv, RolesInOrder
    <2>3. ASSUME seed.done, NEW p \in Permissions
          PROVE  (\E i \in RoleIds : <<x[1], i>> \in userRole /\ <<i, p>> \in rolePermission)
                   <=> \E i \in RoleIds : /\ i = x[2] \/ <<x[1], i>> \in assigned
                                          /\ p \in Granted[role[i]]
      <3>1. \A i \in RoleIds : <<x[1], i>> \in userRole
                                <=> i = x[2] \/ <<x[1], i>> \in assigned
        <4>1. ASSUME NEW i \in RoleIds, <<x[1], i>> \in userRole, <<x[1], i>> \notin assigned
              PROVE  i = x[2]
          BY <2>1, <4>1
        <4> QED BY <2>1, <4>1 DEF IInv, UsersInv, UsersTypeOK
      <3>2. \A i \in RoleIds : <<i, p>> \in rolePermission <=> p \in Granted[role[i]]
        BY <2>3 DEF IInv, ScriptInv, RunOnItsWay, Complete, LinksOf
      <3> QED BY <3>1, <3>2
    <2>4. ASSUME seed.done, NEW i \in RoleIds
          PROVE  Granted[role[i]] \subseteq Permissions
      BY <2>4, GrantedPermissions DEF IInv, ScriptInv, RunOnItsWay, Complete
    <2>5. ASSUME seed.done
          PROVE  GetPermissionsForUser(x[1]) =
                   UNION {Granted[role[i]] : i \in {j \in RoleIds :
                            j = x[2] \/ <<x[1], j>> \in assigned}}
      <3> DEFINE held == {j \in RoleIds : j = x[2] \/ <<x[1], j>> \in assigned}
                 all == UNION {Granted[role[i]] : i \in held}
      <3>1. \A p : p \in all <=> \E i \in held : p \in Granted[role[i]]
        OBVIOUS
      <3>2. all \subseteq Permissions
        BY <2>4, <2>5, <3>1
      <3>3. \A p \in Permissions : p \in GetPermissionsForUser(x[1]) <=> p \in all
        <4>1. \A p \in Permissions : p \in all <=>
                \E i \in RoleIds : (i = x[2] \/ <<x[1], i>> \in assigned) /\ p \in Granted[role[i]]
          BY <3>1
        <4> HIDE DEF all
        <4> QED BY <2>3, <2>5, <4>1 DEF GetPermissionsForUser
      <3>4. GetPermissionsForUser(x[1]) \subseteq Permissions
        BY DEF GetPermissionsForUser
      <3> HIDE DEF all
      <3>5. GetPermissionsForUser(x[1]) = all
        BY <3>2, <3>3, <3>4
      <3> QED BY <3>5 DEF all
    <2> QED BY <2>2, <2>5
  <1> QED BY <1>1, Invariant, PTL

\* A registration answered with success left one account that has the customer
\* role, and that its email and its username find exactly where LoginAuthDTO and
\* findUserForAuth let them, whatever registrations raced it.
THEOREM SuccessIsCustomer == Spec => []SuccessMeansCustomer
  <1>1. IInv => SuccessMeansCustomer
    <2> SUFFICES ASSUME IInv, NEW a \in answered
                 PROVE  /\ user[a] # None
                        /\ <<a, DefaultRegisterRole>> \in userRole
                        /\ \A i \in {user[a].email, user[a].username} :
                             Login(i) = {a} <=>
                               /\ Trim(i) \notin LoginRefuses
                               /\ \/ Trim(i) = user[a].email
                                  \/ i \notin EmailLike /\ Trim(i) = i
      BY DEF SuccessMeansCustomer
    <2>1. a \in AccountIds /\ user[a] # None /\ <<a, DefaultRegisterRole>> \in userRole
      BY DEF IInv, UsersInv, UsersTypeOK, AnsweredHaveRole
    <2>2. user[a].email \in EmailLike
      BY <2>1 DEF IInv, UsersInv, UsersTypeOK, User
    <2>3. \A b \in AccountIds :
            user[b] # None /\ (user[b].email = user[a].email \/ user[b].username = user[a].username)
              => b = a
      BY <2>1 DEF IInv, UsersInv, IdentifiersUnique
    <2>4. ASSUME NEW i \in {user[a].email, user[a].username}
          PROVE  Login(i) = {a} <=>
                   /\ Trim(i) \notin LoginRefuses
                   /\ Trim(i) = user[a].email \/ (i \notin EmailLike /\ Trim(i) = i)
      <3>1. i \in EmailLike => Trim(i) = i
        BY DEF Trim
      <3>2. CASE Trim(i) \in LoginRefuses
        BY <3>2 DEF Login
      <3>3. CASE Trim(i) \notin LoginRefuses /\ Trim(i) \in EmailLike
        <4>1. Login(i) = {b \in AccountIds : user[b] # None /\ user[b].email = Trim(i)}
          BY <3>3 DEF Login, FindUserForAuth
        <4>2. Trim(i) = user[a].email => Login(i) = {a}
          BY <2>1, <2>3, <4>1
        <4>3. Login(i) = {a} => Trim(i) = user[a].email
          BY <4>1
        <4> QED BY <3>1, <3>3, <4>2, <4>3
      <3>4. CASE Trim(i) \notin LoginRefuses /\ Trim(i) \notin EmailLike
        <4>1. Login(i) = {b \in AccountIds : user[b] # None /\ user[b].username = Trim(i)}
          BY <3>4 DEF Login, FindUserForAuth
        <4>2. Trim(i) # user[a].email /\ i # user[a].email /\ i = user[a].username
          BY <2>2, <3>1, <3>4
        <4>3. Trim(i) = i => Login(i) = {a}
          BY <2>1, <2>3, <4>1, <4>2
        <4>4. Login(i) = {a} => Trim(i) = i
          BY <4>1, <4>2
        <4> QED BY <3>1, <3>4, <4>2, <4>3, <4>4
      <3> QED BY <3>2, <3>3, <3>4
    <2> QED BY <2>1, <2>4
  <1> QED BY <1>1, Invariant, PTL

\* An identifier that logs in to an account logs in to that one ever after.
THEOREM LookupsAreStable == Spec => LookupStable
  <1> DEFINE Stable == \A i \in Emails \cup Usernames :
                         FindUserForAuth(i) # {} => FindUserForAuth(i)' = FindUserForAuth(i)
  <1>1. IInv /\ [Next]_vars => [Stable]_user
    <2> SUFFICES ASSUME IInv, Next PROVE Stable
      BY DEF vars
    <2>1. CASE user' = user
      BY <2>1 DEF FindUserForAuth
    <2>2. ASSUME NEW r \in Requests, NEW a \in AccountIds, CreateUser(r, a), user' # user
          PROVE  Stable
      <3> SUFFICES ASSUME NEW i \in Emails \cup Usernames, FindUserForAuth(i) # {}
                   PROVE  FindUserForAuth(i)' = FindUserForAuth(i)
        OBVIOUS
      <3>1. PICK b \in AccountIds :
              user[b] # None /\ IF Trim(i) \in EmailLike THEN user[b].email = Trim(i) ELSE user[b].username = Trim(i)
        BY DEF FindUserForAuth
      <3>2. ~InUse(req[r].email, req[r].username) /\ user[a] = None
        BY <2>2 DEF CreateUser
      <3>3. user' = [user EXCEPT ![a] = [email |-> req[r].email, username |-> req[r].username]]
        BY <2>2, <3>2 DEF CreateUser
      <3>4. /\ user'[a].email = req[r].email /\ user'[a].username = req[r].username
            /\ \A c \in AccountIds : c # a => user'[c] = user[c]
        BY <3>3 DEF IInv, UsersInv, UsersTypeOK
      <3>5. user[b].email # req[r].email /\ user[b].username # req[r].username
        BY <3>1, <3>2 DEF InUse
      <3>6. ~(IF Trim(i) \in EmailLike THEN user'[a].email = Trim(i) ELSE user'[a].username = Trim(i))
        BY <3>1, <3>4, <3>5
      <3> QED BY <3>2, <3>4, <3>6 DEF FindUserForAuth
    <2> HIDE DEF Stable
    <2>3. \/ user' = user
          \/ \E r \in Requests, a \in AccountIds : CreateUser(r, a)
      BY DEF Next, SeedStart, UpsertPermission, UpsertRole, UpsertLink, SeedDies, RegisterFind,
             CreateUserRole, Abort, AssignRole, registrations
    <2> QED BY <2>1, <2>2, <2>3
  <1>2. LookupStable <=> [][Stable]_user
    BY DEF LookupStable
  <1> HIDE DEF Stable
  <1> QED BY <1>1, <1>2, Invariant, PTL DEF Spec

-----------------------------------------------------------------------------
(* What the patterns of the two files stand for *)

LEMMA UnderOne ==
  ASSUME NEW a, NEW leaves, NEW code \in Under(<<a>>, leaves)
  PROVE  \E leaf \in leaves : code = <<a, leaf>>
  BY DEF Under

LEMMA UnderTwo ==
  ASSUME NEW a, NEW b, NEW leaves, NEW code \in Under(<<a, b>>, leaves)
  PROVE  \E leaf \in leaves : code = <<a, b, leaf>>
  BY DEF Under

LEMMA UnderStarts ==
  /\ \A a, leaves : \A code \in Under(<<a>>, leaves) : code[1] = a /\ Len(code) = 2
  /\ \A a, b, leaves : \A code \in Under(<<a, b>>, leaves) : code[1] = a /\ Len(code) = 3
  /\ \A area, acts : \A code \in AnyOrOwn(area, acts) : code[1] = area /\ Len(code) = 3
  <1>1. \A a, leaves : \A code \in Under(<<a>>, leaves) : code[1] = a /\ Len(code) = 2
    BY DEF Under
  <1>2. \A a, b, leaves : \A code \in Under(<<a, b>>, leaves) : code[1] = a /\ Len(code) = 3
    BY DEF Under
  <1>3. \A area, acts : \A code \in AnyOrOwn(area, acts) : code[1] = area /\ Len(code) = 3
    BY DEF AnyOrOwn
  <1> QED BY <1>1, <1>2, <1>3

LEMMA CodesOfRbac ==
  ASSUME NEW code \in ALL_PERMISSIONS, code[1] = "rbac"
  PROVE  \/ code = <<"rbac", "permission", "read">>
         \/ code \in Under(<<"rbac", "role">>, Crud)
         \/ code \in Under(<<"rbac", "user_role">>, {"assign", "revoke"})
  BY UnderStarts DEF ALL_PERMISSIONS

LEMMA CodesOfCart ==
  ASSUME NEW code \in ALL_PERMISSIONS, code[1] = "cart"
  PROVE  code \in Under(<<"cart">>, {"read", "update", "delete"})
  BY UnderStarts DEF ALL_PERMISSIONS

\* A pattern that ends in another segment than "*" stands for itself.
LEMMA ExactMatch ==
  ASSUME NEW code
  PROVE  /\ \A a, b : b # "*" => (MatchPattern(<<a, b>>, code) <=> code = <<a, b>>)
         /\ \A a, b, c : c # "*" => (MatchPattern(<<a, b, c>>, code) <=> code = <<a, b, c>>)
  BY DEF MatchPattern

LEMMA CodesAre ==
  ASSUME NEW code \in ALL_PERMISSIONS
  PROVE  \/ \E x, y : code = <<x, y>>
         \/ \E x, y, z : code = <<x, y, z>>
  <1>1. \A a, leaves : \A c \in Under(<<a>>, leaves) : \E x, y : c = <<x, y>>
    BY UnderOne
  <1>2. \A a, b, leaves : \A c \in Under(<<a, b>>, leaves) : \E x, y, z : c = <<x, y, z>>
    BY UnderTwo
  <1>3. \A area, acts : \A c \in AnyOrOwn(area, acts) : \E x, y, z : c = <<x, y, z>>
    BY DEF AnyOrOwn
  <1> QED BY <1>1, <1>2, <1>3 DEF ALL_PERMISSIONS

\* "a.b.*" stands for the codes that start with a.b.
LEMMA AreaMatch ==
  ASSUME NEW a, NEW b, NEW leaf
  PROVE  MatchPattern(<<a, b, "*">>, <<a, b, leaf>>)
  BY DEF MatchPattern

LEMMA AreaMatched ==
  ASSUME NEW a, NEW b, NEW code \in ALL_PERMISSIONS, MatchPattern(<<a, b, "*">>, code)
  PROVE  \E leaf : code = <<a, b, leaf>>
  <1>1. /\ Len(code) >= 3 /\ SubSeq(code, 1, 2) = SubSeq(<<a, b, "*">>, 1, 2)
    BY DEF MatchPattern
  <1>2. \A x, y : Len(<<x, y>>) = 2
    OBVIOUS
  <1>3. \E x, y, z : code = <<x, y, z>>
    BY <1>1, <1>2, CodesAre
  <1>4. PICK x : \E y, z : code = <<x, y, z>>
    BY <1>3
  <1>5. PICK y : \E z : code = <<x, y, z>>
    BY <1>4
  <1>6. PICK z : code = <<x, y, z>>
    BY <1>5
  <1>7. \A u, v, w : SubSeq(<<u, v, w>>, 1, 2)[1] = u /\ SubSeq(<<u, v, w>>, 1, 2)[2] = v
    <2> TAKE u, v, w
    <2>1. \A i \in 1 .. 2 : <<u, v, w>>[i] \in {u, v, w}
      OBVIOUS
    <2>2. \A i \in 1 .. 2 - 1 + 1 : SubSeq(<<u, v, w>>, 1, 2)[i] = <<u, v, w>>[1 + i - 1]
      BY <2>1, SubSeqProperties
    <2>3. /\ SubSeq(<<u, v, w>>, 1, 2)[1] = <<u, v, w>>[1]
          /\ SubSeq(<<u, v, w>>, 1, 2)[2] = <<u, v, w>>[2]
      BY <2>2
    <2> QED BY <2>3
  <1>8. x = a /\ y = b
    BY <1>1, <1>6, <1>7
  <1> QED BY <1>6, <1>8

LEMMA UnderMatched ==
  ASSUME NEW a, NEW b, NEW leaves, "*" \notin leaves, NEW code
  PROVE  (\E pattern \in Under(<<a, b>>, leaves) : MatchPattern(pattern, code))
           <=> code \in Under(<<a, b>>, leaves)
  <1>1. ASSUME NEW pattern \in Under(<<a, b>>, leaves)
        PROVE  MatchPattern(pattern, code) <=> code = pattern
    <2>1. PICK leaf \in leaves : pattern = <<a, b, leaf>>
      BY UnderTwo
    <2> QED BY <2>1, ExactMatch
  <1> QED BY <1>1

\* An area of which the server lists every code.
LEMMA AreaListed ==
  ASSUME NEW code \in ALL_PERMISSIONS
  PROVE  /\ MatchPattern(<<"rbac", "role", "*">>, code) <=> code \in Under(<<"rbac", "role">>, Crud)
         /\ MatchPattern(<<"rbac", "user_role", "*">>, code)
              <=> code \in Under(<<"rbac", "user_role">>, {"assign", "revoke"})
  <1>1. ASSUME NEW b, MatchPattern(<<"rbac", b, "*">>, code)
        PROVE  /\ \E leaf : code = <<"rbac", b, leaf>>
               /\ \/ code = <<"rbac", "permission", "read">>
                  \/ code \in Under(<<"rbac", "role">>, Crud)
                  \/ code \in Under(<<"rbac", "user_role">>, {"assign", "revoke"})
    <2>1. PICK leaf : code = <<"rbac", b, leaf>>
      BY <1>1, AreaMatched
    <2>2. code[1] = "rbac"
      BY <2>1
    <2> QED BY <2>1, <2>2, CodesOfRbac
  <1>2. /\ code \in Under(<<"rbac", "role">>, Crud) => \E leaf : code = <<"rbac", "role", leaf>>
        /\ code \in Under(<<"rbac", "user_role">>, {"assign", "revoke"})
             => \E leaf : code = <<"rbac", "user_role", leaf>>
    BY UnderTwo
  <1>3. \A b, c, leaf, other : b # c => <<"rbac", b, leaf>> # <<"rbac", c, other>>
    OBVIOUS
  <1>4. MatchPattern(<<"rbac", "role", "*">>, code) => code \in Under(<<"rbac", "role">>, Crud)
    BY <1>1, <1>2, <1>3
  <1>5. MatchPattern(<<"rbac", "user_role", "*">>, code)
          => code \in Under(<<"rbac", "user_role">>, {"assign", "revoke"})
    BY <1>1, <1>2, <1>3
  <1> QED BY <1>2, <1>4, <1>5, AreaMatch

LEMMA AdminAgrees ==
  ASSUME NEW code \in ALL_PERMISSIONS
  PROVE  code \in Resolved("admin") <=> code \in ResolveRolePermissions("admin")
  <1> DEFINE same == Everything(Managed) \cup
                     {<<"rbac", "permission", "read">>, <<"coupon_redemption", "read">>,
                      <<"audit", "read">>, <<"system", "health", "read">>}
             areas == {<<"rbac", "role", "*">>, <<"rbac", "user_role", "*">>}
             listed == Under(<<"rbac", "role">>, Crud)
                       \cup Under(<<"rbac", "user_role">>, {"assign", "revoke"})
             Matched(patterns) == \E pattern \in patterns : MatchPattern(pattern, code)
  <1>1. ROLE_PERMS["admin"] = same \cup areas
    BY DEF ROLE_PERMS
  <1>2. ROLE_PERMISSION_PATTERNS["admin"] = same \cup listed
    BY DEF ROLE_PERMISSION_PATTERNS
  <1>3. Matched(areas) <=> code \in listed
    BY AreaListed
  <1>4. Matched(listed) <=> code \in listed
    <2>1. "*" \notin Crud /\ "*" \notin {"assign", "revoke"}
      BY DEF Crud
    <2> QED BY <2>1, UnderMatched
  <1> HIDE DEF same, areas, listed
  <1> QED BY <1>1, <1>2, <1>3, <1>4 DEF Resolved, ResolveRolePermissions, Match

LEMMA CustomerAgrees ==
  ASSUME NEW code \in ALL_PERMISSIONS
  PROVE  code \in Resolved("customer")
           <=> code \in ResolveRolePermissions("customer") /\ code \notin NeverSeeded("customer")
  <1>1. \A pattern \in OwnThings : MatchPattern(pattern, code) <=> code = pattern
    BY ExactMatch DEF OwnThings
  <1>2. \A pattern \in OwnThings : pattern[1] # "cart"
    BY DEF OwnThings
  <1>3. code # <<"cart", "read", "own">> /\ code # <<"cart", "update", "own">>
    <2>1. code[1] = "cart" => \E leaf : code = <<"cart", leaf>>
      BY CodesOfCart, UnderOne
    <2> QED BY <2>1
  <1>4. code \in Resolved("customer") <=> code \in OwnThings
    <2>1. ROLE_PERMS["customer"]
            = OwnThings \cup {<<"cart", "read", "own">>, <<"cart", "update", "own">>}
      BY DEF ROLE_PERMS
    <2>2. \A act : MatchPattern(<<"cart", act, "own">>, code) <=> code = <<"cart", act, "own">>
      BY ExactMatch
    <2> QED BY <1>1, <1>3, <2>1, <2>2 DEF Resolved, Match
  <1>5. code \in ResolveRolePermissions("customer")
          <=> code \in OwnThings \cup NeverSeeded("customer")
    <2>1. ROLE_PERMISSION_PATTERNS["customer"] = OwnThings \cup NeverSeeded("customer")
      BY DEF ROLE_PERMISSION_PATTERNS, NeverSeeded
    <2>2. \A pattern \in NeverSeeded("customer") : MatchPattern(pattern, code) <=> code = pattern
      BY ExactMatch DEF NeverSeeded
    <2> QED BY <1>1, <2>1, <2>2 DEF ResolveRolePermissions
  <1>6. OwnThings \cap NeverSeeded("customer") = {}
    BY <1>2 DEF NeverSeeded
  <1> QED BY <1>4, <1>5, <1>6

\* The two lists of patterns agree on every role, the customer's cart apart.
LEMMA PatternsAgree ==
  ASSUME NEW name \in Codes, NEW code \in ALL_PERMISSIONS
  PROVE  code \in Resolved(name)
           <=> code \in ResolveRolePermissions(name) /\ code \notin NeverSeeded(name)
  <1>1. name \in {"owner", "admin", "staff", "customer", "guest"}
    BY DEF Codes, RoleOrder
  <1>2. CASE name \in {"owner", "staff", "guest"}
    <2>1. /\ ROLE_PERMS["owner"] = ROLE_PERMISSION_PATTERNS["owner"]
          /\ ROLE_PERMS["staff"] = ROLE_PERMISSION_PATTERNS["staff"]
          /\ ROLE_PERMS["guest"] = ROLE_PERMISSION_PATTERNS["guest"]
      <3>1. ROLE_PERMS["owner"] = ROLE_PERMISSION_PATTERNS["owner"]
        BY DEF ROLE_PERMS, ROLE_PERMISSION_PATTERNS
      <3>2. ROLE_PERMS["staff"] = ROLE_PERMISSION_PATTERNS["staff"]
        BY DEF ROLE_PERMS, ROLE_PERMISSION_PATTERNS
      <3>3. ROLE_PERMS["guest"] = ROLE_PERMISSION_PATTERNS["guest"]
        BY DEF ROLE_PERMS, ROLE_PERMISSION_PATTERNS
      <3> QED BY <3>1, <3>2, <3>3
    <2>2. ROLE_PERMS[name] = ROLE_PERMISSION_PATTERNS[name]
      BY <1>2, <2>1
    <2>3. NeverSeeded(name) = {}
      BY <1>2 DEF NeverSeeded
    <2> QED BY <2>2, <2>3 DEF Resolved, ResolveRolePermissions, Match
  <1>3. CASE name = "admin"
    BY <1>3, AdminAgrees DEF NeverSeeded
  <1>4. CASE name = "customer"
    BY <1>4, CustomerAgrees
  <1> QED BY <1>1, <1>2, <1>3, <1>4

\* Whatever part of the server's permissions the tables hold: with each role
\* granted what the script resolves for it, a role that the script is done with has
\* what permission.constant.ts resolves for it, the customer's cart apart.
THEOREM RolesMatchDeclared ==
  ASSUME Permissions \subseteq ALL_PERMISSIONS,
         Granted = [code \in Codes |-> Resolved(code) \cap Permissions]
  PROVE  Spec => []RolesAsDeclared
  <1>1. SeedConverges => RolesAsDeclared
    <2> SUFFICES ASSUME SeedConverges, seed.done, NEW code \in Codes, NEW i \in RoleIds,
                        role[i] = code
                 PROVE  {p \in Permissions : <<i, p>> \in rolePermission}
                          = Declared[code] \cap Permissions
      BY DEF RolesAsDeclared
    <2>1. {p \in Permissions : <<i, p>> \in rolePermission} = Granted[code]
      BY DEF SeedConverges
    <2>2. Granted[code] = Resolved(code) \cap Permissions
      OBVIOUS
    <2>3. \A p \in Permissions : p \in Resolved(code) <=> p \in Declared[code]
      BY PatternsAgree DEF Declared
    <2> QED BY <2>1, <2>2, <2>3
  <1> QED BY <1>1, SeedingConverges, PTL
=============================================================================
