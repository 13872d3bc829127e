# TLA+ models of the shop backend

The repository is the backend of a clothing shop: one NestJS process in front of
MySQL (through Prisma) and Redis. This directory holds TLA+ specifications of the
parts of it that keep state, TLC configurations that check them on small
instances, and proofs that TLAPS checks.

A handler is a sequence of database and Redis calls with an `await` between each
two, so handlers of different requests interleave although the server is one
process. All models share three conventions:

- **A slot holds a request in flight.** `req[r]` is the record of the handler's
  locals and its program counter; `idle` means the slot is free. More than one
  element in `Requests` is concurrency; exactly one is "one request at a time".
- **A database or Redis call is one atomic step**, and so is
  `prisma.$transaction([...])`, which either happens whole or not at all.
- **A handler that ends without a write is not a step.** Only the guards that
  keep it from going on are in the model. A handler that dies between two calls
  (a failed call, a restart, a lost response) is `Abort`.

## The system and its parts

| part | state | operations | modelled by |
|---|---|---|---|
| address book (`src/src/address`) | table Address | create, update, delete (list and get only read) | `AddressBook`, `AddressPlaces` |
| provinces and wards (`src/src/vietnam-location`) | maps in the process | load at start, lookups by code | `Locations`, composed with the address book in `AddressPlaces` |
| login sessions (`src/src/auth`, `src/src/user-session`, refresh guard) | table UserSession, User.isActive, cookies in the browser | login, refresh, logout | `Sessions` |
| accounts and roles (`src/src/user`, `src/src/user-role`, `prisma/seed`) | tables User, Role, Permission and the two links | register, seed script, roles that operators assign, lookups by identifier and permission | `Accounts`; the patterns of roles in `RolePatterns` and `RolePermissions` |
| category tree (`src/src/category`) | table Category, two keys in Redis | create, update, reorder, activate, deactivate, delete, two cached lists | `Category` |
| product catalogue (`src/src/product`) | table Product, keys in Redis | create, which no route calls yet; update and delete end in an error before they write; four cached reads | `Product` has the create |
| read-through cache (`src/src/redis` as the category service uses it) | Redis keys | get, setEx, del, expiry | `ReadThroughCache` |
| access guards (`src/src/common/guard`) | none | check one request | not modelled; what they read and leave unset is in the models of the rest |
| media, HTTP plumbing | none that changes | | not modelled |
| orders, carts, stock, coupons, ... | tables without code | | not modelled |

They interact through the database: a refresh reads `isActive` of the account; a
product names a category; an
address stores the names of a province and a ward that `VietnamLocationService`
looked up; the permission guard reads the tables the seed script fills.
Calls between services are synchronous and have no queue, so a part can be
checked against the writes of the others, and of the operators of the shop, as
environment actions: `SetActive` in `Sessions`, `ToggleCategory` in `Product`,
`AssignRole` in `Accounts`.

What is hard about each part, and what makes it correct:

- **Address book.** Counts, defaults and successors are read in one call and used
  in another. A limit on the rows of a customer; a second default, or a book with
  rows and none, only where the code makes them; a create or an update changes the
  book that its dto names and no other.
- **Places.** A request carries two codes, a row keeps two names, and 246 names
  of wards occur in several provinces. The pair kept names exactly one ward.
- **Sessions.** Refreshes race with each other, with expiry, with logout, with
  lost responses and with deactivation. Hash and expiry of a row belong to one
  token; the cookies of a browser belong together; a session ends only after it
  was found lapsed; unexpired cookies work; a deactivated user runs out of sessions.
- **Accounts.** Three tables filled by a script that may die, while registrations
  (three calls, no transaction) run. Roles come out complete; the number 4 in the
  code is the customer role; an identifier keeps finding the same account; an
  answer of success means an account that is a customer and logs in by the
  identifiers the login takes; what the script grants is what the server's own
  list of patterns says.
- **Categories.** Positions computed before the transaction that shifts them, two
  names with one slug, deletes that free names, lists cached by racing readers.
  Unique names and slugs; distinct, positive, order-preserving positions; no
  children left behind by a delete; a public tree without hidden branches; caches that catch up.
- **Products.** A search for a slug that is not atomic with the insert. A refusal
  only when all candidates are in use; no gaps; the loser changes nothing.

## Modules

| module | models | properties |
|---|---|---|
| `AddressBook` | `AddressService` behind `AddressController` | TypeOK, HandlersConsistent, OvershootBounded, WritesStayInNamedBook, UpdateKeepsADefault, SecondDefaultOnlyByPromotion; one at a time: LimitRespected, DefaultLostOnlyAcrossBooks, SecondDefaultOnlyAcrossBooks, TableIsSequential |
| `SequentialBooks` | abstract: a table of addresses whose requests take effect at once | |
| `Locations` | `VietnamLocationService` | |
| `AddressPlaces` | the two together, each step one of `AddressBook`'s or of `Locations`' | PlacesNameOneWard |
| `Sessions` | `AuthController`, `AuthService`, `SessionService`, `RefreshTokenGuard` | TypeOK, RowsConsistent, JarsConsistent, RenewalsRunOut, SessionsAreLeases, DeactivatedSessionsExpire; one at a time: CookiesUsable; violated: LogoutEndsSession, RotatedTokensRefused |
| `SessionStore` | abstract: a table that issues, renews and ends sessions | |
| `Accounts` | `AuthService.register`, `UserService`, `UserRoleService`, the seed script, what a login and an account's permissions read | TypeOK, SeedConverges, RegisteredAsCustomers, SuccessMeansCustomer, LookupStable |
| `RolePatterns` | the patterns of roles as `permission.constant.ts` declares them and as the script resolves them | |
| `RolePermissions` | the two compared in the tables | RolesAsDeclared |
| `ReadThroughCache` | get / query / setEx / del / expiry, extended by the next | |
| `Category` | `CategoryService` | TypeOK, SlugsConsistent, LiveNamesUnique, PositionsBounded, OrphansExplained, TreeShowsOpenBranches, CacheCatchesUp; one at a time: PositionsDistinct, SiblingsAreOrdered |
| `OrderedSiblings` | abstract: the children of each parent as a list | |
| `Product` | `ProductService.createProduct` | TypeOK, ProbedTaken, RefusedOnlyWhenFull, NoGaps, RowsKept, CreatesAreAtomic |
| `Catalogue` | abstract: creates that take effect at one instant | |
| `*Proofs` | theorems about the module they extend (`ReadThroughCacheProofs`: lemmas for `CategoryProofs`; `CategoryTreeProofs`: positions, the tree and the lists of siblings; `AccountsProofs` also has those about `RolePatterns`) | |
| `MC*` | instances for TLC: constant definitions and symmetry sets | |

`PROJECT.json` maps each definition to the lines it models. Operators marked
"a mutant" are wrong variants of the definition below them, one for each
property: with the variant in place of the definition, TLC finds the property
violated.

### How state and actions correspond to the code

**AddressBook.** `owner[a]` and `isDefault` are the columns `userId` and
`isDefaultShipping`; the other columns do not influence control.
`createUserAddress` is `CreateCount` (the count, the limit, the check of the
location) then `CreateInsert` (reset of the others and insert, one transaction).
`updateUserAddress` is `UpdateFind`, `UpdateFallback` when the default is being
cleared, and `UpdateCommit`. `deleteUserAddress` is `DeleteFind`,
`DeleteFallback` when the row is the default, and `DeleteCommit`. A commit in
which a row found before is gone changes nothing (`RowsPresent`, P2025). The
controller passes `req.user.sub` to the delete, which `AuthGuard` does not set;
a filter on `undefined` is no filter, so `DeleteFind` and `FallbackCandidates`
range over the whole table, and a default can pass from one book to another
(`PromotesAcross`). The routes of create and update take `payload: any` and spread
it after the caller's id, and in an update after the id of the route
(`address.controller.ts` 52-55, 68-72): what the body names counts. So the
actions take any user and any row, and `u` is `dto.userId`, not the caller; that a
caller stays in their own book is no property, as the code does not keep it. Bodies
are taken to be of the types of the DTOs. `updatedAt`, which orders the choice of
the successor, is abstracted to a free choice.

**Locations and AddressPlaces.** `Boot`, `LoadData` and `Stop` are the life of a
process: its maps start empty, and it takes requests only after `onModuleInit`
has filled them. `AddressPlaces` has the state of both modules, `place` (the
columns `province` and `ward`) and `asked` (the names a handler looked up and
will store). Each of its actions is an action of `AddressBook` with what the
same code does about places: `CreateUserAddress` and `UpdateUserAddress` add the
lookup, `Insert` and `Commit` store the names, `Delete` drops them. The lookup
is synchronous, so it belongs to the step of the read before it. Handlers of a
stopped process only end (`GiveUp`). `FilesAssumption` is what the two data
files satisfy: a ward's province is listed, names of provinces differ, and so do
names of the wards of one province.

**Sessions.** Time is the *remaining* life of each row and token, which `Tick`
reduces; so the clock is unbounded and the state finite. A jar holds the refresh
and session cookies of a browser; a response writes both. The refresh request is
`GuardToken`, `GuardSession`, `ValidateRefreshToken`, then either
`DeleteSession` or `GenerateTokenPair`, `RotateRefreshToken`, `Respond`.
Responses of concurrent requests arrive in any order and may be lost (`Abort`).
`Digest` is what bcrypt distinguishes: it reads 72 bytes, which the tokens of
one user share, so a token that was rotated away passes like its successor
(`RotatedTokensRefused` is violated). `logout` reads `req.sessionId`, which only the guard of another
route sets, so `SessionToEnd` is `None`.

**Accounts.** `seed` is the script: upserts of permissions in any order, then
role by role its upsert and those of its links; it may die between any two and
be run again, also while registrations run. `RegisterFind`, `CreateUser` and
`CreateUserRole` are the calls of a registration; unique columns and foreign keys
fail the inserts as in MySQL. Identifiers equal under the collation of the table
(case, spaces at the end) are one value; a username with a space in front is
another than the one without, and `Trim` takes the one to the other where the code
trims: in the query of a registration (`FindUserByBothEmailAndUsername`) and in a
login, not in the insert (`InUse` is what the unique columns see). `LoginRefuses`
are the identifiers longer than the 49 characters of `LoginAuthDTO`; emails are
registered at any length. Ids are numbered without gaps: an id used up by a rolled
back insert is not modelled. No route gives an account a role other than the
customer's: `AssignRole` is an operator who does, and `assigned` is the history of
it. `answered` is history as well: the accounts whose registration was answered
with success. `GetPermissionsForUser` is `getPermisionsForUser` of one account.

**RolePatterns.** A code such as `user.read.own` is the sequence of its segments.
The declaration in `permission.constant.ts` and the one in the script are both
transcribed, each with its own matching function, so that `RolesAsDeclared`
compares what the tables end up with, after any number of interrupted runs, with
what the server resolves.

**Category.** A row is parent, name, slug, position, active, deleted; deleting
frees name and slug. The create, update, reorder, activate and delete handlers
are a find, the reads in between, and a write; then `DelTree` and `DelSelect`.
`MatchedByDelete` with two or more rows fails: all would get one slug
(`category.service.ts` 256-261). So a delete of a live category with live children
always fails, although its statement is written to delete both. A create looks its
parent up by id alone (130-136) and takes a deleted one: the new category is live
and in no list. The parent sent to an update is
checked but not written by the code. `Roots`, `Children`, `TreeLevels` and
`InTree` are `buildCategoryTree`: a row whose parent is not in the list is
neither a root nor anyone's child.

**Product.** `ProbeSlug` is one query of the loop in `ensureUniqueSlug`. The model
is of the service and not of the routes: `product.controller.ts` has GET routes
only, and nothing calls `createProduct`, `updateProduct` or `deleteProductById`
yet. `updateProduct` reads the product and then assigns to `updatedData.data`,
which is undefined; `deleteProductById` passes a filter without a unique field.
Neither writes.

**ReadThroughCache.** An entry, and the value a reader holds between its query
and its setEx, is `fresh` while the table would still give that answer and
`stale` once a write (`Outdate`) changed it. All entries have an hour to live.

### Abstract specifications

Four small modules say what a client may rely on; the detailed ones are shown to
implement them by a refinement mapping, `INSTANCE ... WITH`, and the run checks
the abstract `Spec` as a property.

| abstract | implemented by | mapping | says |
|---|---|---|---|
| `SequentialBooks` | `AddressBook`, any customers and one slot | the rows, their owners and the default rows | every request takes effect at once; a default goes only when another row takes over, which after a delete may be one of another book, or the table is empty |
| `SessionStore` | `Sessions`, any concurrency | a row becomes its user and the time left; `lapsed` is the sessions some handler found gone or expired | a session has one user for life, each renewal is for at most a lifetime, and a session ends only after a request found it lapsed |
| `Catalogue` | `Product`, any concurrency | the table, and each slot's create as asked, created, refused or idle | a create gets the first candidate free *at the instant it takes effect*, although it was searched query by query, or is refused when none is free, or leaves no trace |
| `OrderedSiblings` | `Category`, one slot, live categories | live siblings sorted by position | creating appends, moving takes one out and puts it back, deleting closes the gap, nothing else changes the order |

`AddressPlaces` implements `AddressBook` in turn: it extends it, and
`BookIsInside` proves `PlacesSpec => Spec`.

## Runs

All are checked with two workers in well under five minutes.

| run | instance | shows |
|---|---|---|
| `AddressBook_concurrent` | 2 customers, 5 ids, 2 slots, limit 2 | what survives every interleaving. Five ids let two books be full, overshoot by one and have ids left |
| `AddressBook_oneAtATime` | `PlacesSpec`: 2 customers, 4 ids, 1 slot, limit 3 (the code's), 2 provinces, 3 wards of which two share a name, restarts | a book loses its default, or gets a second, only by a delete that promotes across books; the table implements `SequentialBooks`, which has the limit; names of places name one ward |
| `AddressBook_limit` | 1 customer, 2 slots | expected violation: two creates that both counted before either inserted |
| `Sessions_concurrent` | 2 users, 1 shared browser, 2 slots, 2 sessions, 5 tokens, life 1 | rows, cookies and handlers agree; deactivated users get no new renewals; the table implements `SessionStore` |
| `Sessions_oneAtATime` | 2 users, 1 slot, 2 sessions, 4 tokens, life 2, fairness | cookies work until they expire; deactivated users run out of sessions |
| `Sessions_logout` | 1 user | expected violation: the row survives logout |
| `Sessions_rotation` | 1 user, 1 slot, 3 tokens | expected violation: a token that was rotated away passes the check of the hash |
| `Category_concurrent` | 2 ids, 2 slots, 2 names, positions to 1, deleted categories edited too | slugs follow names, names of live categories are unique; however moves, deletes and creates race, no position gets below -1, and a delete that finds its category live leaves no live one under it |
| `Category_oneAtATime` | 3 ids, 1 slot, 4 names of which two share a slug, positions to 3 | positions of siblings differ, the public tree; positions implement `OrderedSiblings` |
| `Category_cache` | 1 id, 1 writer, 2 readers, fairness | stale lists go away |
| `Product_slugs` | 2 names with 3 candidates each, which meet, 2 slots | the search for slugs; creates implement those of `Catalogue` |
| `Accounts_seeding` | 2 accounts, 2 slots, 11 permissions, 5 roles, an identifier that is an email and a username, one that starts with a space, an email too long to log in by, operators who assign the role of admins | seeding with crashes, registering meanwhile; what a registration gives and who can log in by what; roles are seeded as declared |

*Bounds.* `KeysLeft`, `IdsLeft` and the sets of ids bound how much is ever created;
`MaxPosition` bounds requested positions. Two slots are enough for every race the
code has, as a handler can only be disturbed between two of its calls by another
handler's write; three sibling positions show both directions of a shift with a
row inside and outside of it. Random ids (`FreshSids`, `FreshJtis`) are drawn from
those in no row, cookie or handler: draws never collide.
Eleven permissions stand for the 89 codes: one for each combination of roles
that declare a code and roles that are seeded with it, and one for each
way a pattern matches it; the assumption `EveryCodeHasOne` has TLC check that no
code has a combination of its own. Two provinces with wards of one name and a
third ward show every way a pair of codes can be right or wrong.
`OperatorRoles` is the admin role only: a second role multiplies the states past the
time of a run. That an operator may also have inserted the customer role before the
registration does is in the theorems, which are about any `OperatorRoles`.
Symmetry is used in runs without liveness only. Deadlock is checked everywhere
but in `Category_oneAtATime`, where all ids can be used up and deleted and the
shop is at rest.

*Restrictions of a run.* `Category_oneAtATime` sets `EditDeleted` to FALSE:
updates name live categories. (The parent of a create may be deleted in every run.)
`updateCategory` also accepts deleted ones, whose
position is -1; moving one shifts live siblings, which may come to 0 and then to
-1, and several to one position. `Category_concurrent` sets it to TRUE and shows
that this goes no further. A position of -1 by a shift takes one deleted category,
one live one and two moves to position 1, which its bounds allow; were the range
of a shift to include its start (`ShiftFromOn`), the next one would break the
bound. The exception of `OrphansExplained`, a delete of a category that was deleted
before, takes three categories and stays with the theorem `OrphansAreExplained`; the
run shows creates racing the delete of their parent. `Category_oneAtATime` also sets `MayFail` to FALSE: a handler that dies
leaves the tables as they are. The other runs have crashes on, and the theorems
about the properties of this one do not depend on it.

*Fairness.* Weak fairness of the steps of a handler (the event loop runs what is
ready, a call returns or fails), of the clock, and of the expiry of an entry
(Redis expires keys). Never of a request arriving: liveness does not need traffic.
`CacheCatchesUp` and `DeactivatedSessionsExpire` assume what they speak of
stops changing, and nothing else.

## What the code does and what it says

Three runs are expected to be violated, and `PROJECT.json` lists them as findings:
the limit on addresses can be passed by concurrent creates (by no more than
`OvershootBounded` allows); logout leaves the session in the table; and a refresh
token that was rotated away is accepted as its successor is, because
`validateRefreshToken` compares with bcrypt, which reads the first 72 bytes of a
token (`user-session.service.ts` 97), while `auth.controller.ts` says "Rotate the
refresh token" (98) and answers "Refresh token invalid, expired, or session
revoked." (102).

Seen while modelling, present in the models and outside the properties:

- with two requests in flight a book can end with two defaults, or with rows and
  none: the successor is chosen in one call and promoted in another;
- with one request at a time it can as well, when there are several customers: the
  delete of a default looks for its successor with an undefined user id
  (`address.controller.ts` 81, `address.service.ts` 254-259), so it may promote a row
  of another book, which then has two defaults while its own has none. The run
  and the theorems show that nothing else does it (`DefaultLostOnlyAcrossBooks`,
  `SecondDefaultOnlyAcrossBooks`);
- the first address of a book becomes its default only if the body asks for it
  (`address.service.ts` line 99 uses the flag, line 103 the count). The test
  `creates first address as default and resets others` (`address.service.spec.ts`
  62) sends the flag as false and expects a default; it passes because its database
  is a mock that answers with one. `SequentialBooks` follows the code;
- a create, and an update, acts for the user that its body names;
- two refreshes of one browser can leave it with an unexpired token and no
  session, or one that expires earlier than the token (`CookiesUsable` holds one
  request at a time);
- a registration that fails at its role leaves an account without one, and cannot
  be repeated;
- an account whose username has the form of an email, or starts with a space, is
  not found by it (`user.service.ts` 72-73 and 86 trim, 127-132 do not), nor by an
  email longer than the 49 characters a login takes (`login-auth.dto.ts` 33);
  `SuccessMeansCustomer` says that all its other identifiers find it;
- a category can be created under a deleted one and is then in no list
  (`category.service.ts` 130-136). A delete of a live category with live children
  always fails, as its statement gives all of them one slug (256-261); deleting a
  category a second time, when another request has just deleted it, matches only what
  was created under it since, and can leave the children of those behind.
  `OrphansExplained` has these as the only ways to a live category under a deleted
  one;
- customers are declared `cart.read` and `cart.update` in `permission.constant.ts`
  (lines 248 and 249), but the script gives them the patterns `cart.read.own` and
  `cart.update.own` (`rabc.seed.ts` line 102), codes of no permission: they are
  seeded without either. `RolesAsDeclared` names the two as `NeverSeeded` and
  holds for all the rest;
- the permission guard reads `user.sub` (`permission.guard.ts` 27), which `AuthGuard`
  leaves undefined, and the filter is then none: the guard takes the roles of all
  accounts together. While there are only customers it finds a customer's
  permissions for everyone, and the routes of admins answer 403 to all; from the
  first account with an admin's role on it finds an admin's for everyone.
  `RegisteredAsCustomers` is about the permissions of one account, which is what the
  guard means to ask for.

## Proofs

Each module of proofs is about any values of the constants that satisfy the
named assumptions of the module it extends. "One at a time" theorems assume in
their statement a single slot, `Requests = {r}`.

`AddressBookProofs`, from `ConstantsAssumption` (finite sets of ids and slots, a
positive limit, `None` outside the other sets):

- `TypeCorrect` and `HandlersAgree`: the inductive invariant
  `IInv == TypeOK /\ HandlersConsistent`. Neither part is inductive alone: that a
  promoted row exists needs what the handler holds, and what a handler holds is
  kept because rows never change owner and ids are never reused.
- `OvershootIsBounded`: inductive on top of `IInv`; a create that counts adds a
  slot to those inserting, of which there are at most as many as slots.
- `LimitRespectedOneAtATime`: the case of one slot, from the former. (The run that
  checks `LimitRespected` is the one with two slots, which violates it; with one,
  it is part of `TableIsSequential`.)
- `UpdatesKeepADefault`, `WritesStayInBook`: action properties, from `IInv`. The
  second is about the book the dto names: an update writes by id alone, and the
  row it found can have gone but not changed hands.
- `OnlyPromotionsAddDefaults`: an action property, from `IInv`: a step that is no
  promotion adds at most the row it wrote, and resets the others when that row
  is a default (`WithoutPromotion`).
- `OneDefaultOneAtATime`, `DefaultKeptOneAtATime`, `TableLooksSequential`: one slot,
  any number of customers. The invariant `Alone` adds to `IInv` that what the slot read is
  still so, which is what concurrency breaks. Each commit is then a step of
  `SequentialBooks`, each read a stutter; the first two follow from what each step of
  that module does to the defaults of each book.

`AddressPlacesProofs`, from the same and `FilesAssumption`:

- `BookIsInside`: a step of `PlacesSpec` is a step of `AddressBook` or leaves the
  book alone, so every theorem above holds of it.
- `AddressesNameOneWard`: with any number of requests in flight. The invariant is
  that the maps are full whenever the server listens and that every name a
  handler holds or a row stores was looked up (`NamesChecked`). The types of
  `AddressBook` come from `TypeCorrect` through `BookIsInside`.

`SessionsProofs` proves for any users, browsers, sessions, requests and lifetime,
from `ConstantsAssumption` (a positive lifetime, `None` outside the other sets):

- `TypeCorrect`, `RowsAreConsistent`, `CookiesBelongTogether`: the inductive
  invariant adds to the types `RowsConsistent`, `JarsConsistent` and what a
  handler holds in each of its steps (`HandlerConsistent`): its session, while it
  exists, is of its user, and its tokens are of that user. `RowsConsistent` needs
  the handlers (a rotation writes what a handler signed before), the handlers need
  the jars (a refresh starts from two cookies), and the jars the handlers (a
  response writes both). New ids are in no row, jar or handler (`RowStep`).
- `DeactivatedRunOut`: an action property, from the invariant, and what safety can
  say of `DeactivatedSessionsExpire`: no request joins the ones that may still
  renew (`RenewingKept`), and a step that gives a session of the user time takes
  one of them out (`RenewalUsesOneUp`), as a rotation by id only ever hits a
  session of the user it was signed for.
- `TableKeepsLeases`: the refinement of `SessionStore`. Each write to the table is
  one of its steps; a handler that decided to delete keeps its session in
  `lapsed` until it ends, which is why the abstract table may forget late.
- `CookiesUsableOneAtATime`: one slot. The invariant `JarsCovered` is stronger than
  the property: the row of a cookie's session lives at least as long as the
  token. It needs what the slot holds on its way (`SlotCurrent`): no cookie
  outlives the token a rotation is about to store, a response carries a token the
  row covers, and when a row is to be deleted the tokens that go with it have
  expired.

`ProductProofs` proves for any names, candidates and requests, from
`ConstantsAssumption` (at least one candidate, the candidates of one name
distinct):

- `TypeCorrect`, `SearchesSeeTaken`, `RefusalsJustified`: the inductive invariant
  adds to `TypeOK` and `ProbedTaken` that a refusal is at the last candidate;
  slugs in use stay in use (`TakenStays`), so what a search saw earlier still
  holds.
- `SuffixesHaveNoGaps`: a slug comes into use by an insert only
  (`NewSlugsAreInserted`), whose search has the smaller suffixes behind it.
- `RowsAreKept`: an action property from the same invariant.
- `CreatesLookAtomic`: the refinement of `Catalogue`. The create takes effect at its
  insert; that the candidates before it are still in use then is `ProbedTaken`.

`CategoryProofs`, from `ConstantsAssumption` and `NoneIsNoRow` (finitely many ids,
slugs a function of names, `None` outside the other sets):

- `TypeCorrect`, `SlugsFollowNames`, `LiveNamesDiffer`: the invariant adds to types
  and slugs that handlers name rows that exist (rows are never removed), so a
  write hits the row its read found. Names differ because slugs do.
- `OrphansAreExplained`: any number of slots. Of the writes only a create and a
  delete make a category live under a deleted one; a delete that still finds its
  category live either matches nothing below it or fails.
- `PlacesDistinctOneAtATime`: one slot and `~EditDeleted`; handlers may die
  anywhere, parents of creates may be deleted. `Orderly` adds that positions are
  positive, `SlotCurrent` says that what the slot read still holds. Moving is a
  bijection between positions then: it shifts exactly those between the old place
  and the new one.

`CategoryTreeProofs`, from the same. All four writes are first described by what
they do to the row of each category (`CreatedRows`, `UpdatedRows`, ...).

- `PlacesBounded`: any number of slots, deleted categories edited or not. The
  invariant adds that a position a handler found, however long ago, was not below
  the bound (`PlacesKnown`). A shift down takes only rows above that position
  (`ShiftBounded`), so they stay at or above the bound where they are now.
- `TreeIsOpenBranches`: any number of slots, no assumption beyond the named ones.
  The invariant is `Ranked`: categories can be numbered so that a parent has a
  smaller number than its children. It is kept because a create names a parent
  that exists and no write changes a parent. `Above` and `TreeLevels` are
  recursive functions; that they satisfy their equations is proved by counting up
  along the rank (`CountUp`, from the least counterexample). A category is then
  on the level of the number of its ancestors (`DepthIs`, `LevelHolds`), and on
  that one only.
- `SiblingsLookLikeLists`: the refinement of `OrderedSiblings`, one slot,
  `~EditDeleted`, on the invariant `Alone` of `CategoryProofs`. A finite set of
  rows with distinct positions has exactly one list in order (`ListExists`,
  `OneList`). Three lemmas say how it changes: a row above all others is appended
  (`AppendLists`), a row that goes is removed (`RemoveLists`), one that comes
  between others is inserted at their gap (`InsertLists`); a move is a removal
  and an insertion, as the shift keeps the order of the others (`ListKept`).

`AccountsProofs`, from `ConstantsAssumption` and `NoneIsNoUser` (every role has a
permission, `None` outside the other sets):

- `TypeCorrect`, `SeedingConverges`: the invariant of the script is that ids follow
  the order of the roles without gaps (`RolesInOrder`), that links are granted
  ones, and that what a run has behind it is complete (`RunOnItsWay`), also when
  it found it made by a run that died.
- `RegistrationsMakeCustomers`, `SuccessIsCustomer`, `LookupsAreStable`, whatever
  roles operators assign: the invariant of the registrations is that both
  identifiers are unique, that a handler at its last call has inserted its row, and
  that what no operator assigned is role number 4, which `RolesInOrder` makes the
  customer role whenever it exists.
- `RolesMatchDeclared`: `RolesAsDeclared` for any part of the server's permissions
  and roles granted what the script resolves. By `SeedingConverges` the tables
  hold what the script's patterns match; `PatternsAgree` compares those with the
  declared ones for each role and code. The two lists differ for two roles: the
  script's `rbac.role.*` and `rbac.user_role.*` match just what is declared one by
  one (`AreaListed`), and no code is `cart.read.own` or `cart.update.own`.

Every invariant, action property and refinement that holds in a run is also
proved. Only checked by TLC: liveness under fairness
(`DeactivatedSessionsExpire`, `CacheCatchesUp`), which is out of the prover's
reach.

## Plan

1. Done: address book, sessions, accounts, categories, products; provinces and
   wards and their composition with the address book; the public tree; the
   patterns of roles; the four abstract specifications and their refinements;
   the proofs above.
2. Left to prove: the safety that `CacheCatchesUp` rests on, stated first as an
   invariant a run checks: of every list that was cached before the last write,
   either its key is about to be deleted, or a handler died, or a reader filled it
   that began before the write.
3. Left to model: the cached answers of the products, once a route of a page accepts
   a request or some code writes variants; products being created from a route.

## Not modelled

- **Cached answers of the products.** The routes of a page (`product.controller.ts`
  22-27, 47-54) validate a string parameter against a class and so answer every
  request with 400: no page is ever read or cached, and the dels of `createProduct`
  (275-278) find nothing. The two lists show products that have a variant, which no
  code creates; they are kept for an hour and no write deletes them
  (`product.service.ts` 274).
- **Access guards.** Verifying an access token is a call of a library on one
  request and keeps no state. What the guards read and leave unset is in the
  models above.
- **Media.** `uploadImage` has no route and does nothing yet.
- **HTTP plumbing.** Bootstrap but for the order of loading and listening,
  configuration, validation of bodies, formatting of responses and errors,
  logging, rate limits of a library. Requests in the models are those that pass
  validation.
- **Orders, carts, stock, coupons, reviews, notifications.** Tables in the schema
  that no code reads or writes.
- Reads that return rows and change nothing: the lists of addresses, sessions,
  categories for admins, provinces and wards.
- `updateLastLoginTimestamp`: writes a column nothing reads back.
