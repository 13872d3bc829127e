---------------------------- MODULE AddressBook ----------------------------
(***************************************************************************)
(* The address book: AddressService (src/src/address/address.service.ts)   *)
(* behind AddressController.  The server is one process, but a handler     *)
(* gives way at every await, so handlers of several requests interleave    *)
(* between their database calls.  A database call is one atomic step, and  *)
(* prisma.$transaction([...]) is one atomic step that changes nothing when *)
(* a row it updates or deletes by id is gone (P2025).                      *)
(*                                                                         *)
(* The user u and the row a of a create or an update are dto.userId and     *)
(* dto.addressId: the caller's id and the row of the route, or those that   *)
(* the body names, which the controller spreads after them                  *)
(* (address.controller.ts 52-55, 68-72).  Every customer may therefore name *)
(* every book, and nothing below is about who the caller is.                *)
(*                                                                         *)
(* A slot r \in Requests holds at most one request in flight.  Handlers    *)
(* that end without a write (400, 404) leave the state as it was and so    *)
(* are not steps: only the guards that keep them from going on are.        *)
(***************************************************************************)
EXTENDS Naturals, FiniteSets

CONSTANTS Users,         \* customers, each the owner of one book
          AddressIds,    \* primary keys of the address table
          Requests,      \* slots for requests in flight
          MaxAddresses,  \* MAX_USER_ADDRESSES
          None           \* no user, or no address

ASSUME ConstantsAssumption ==
  /\ IsFiniteSet(AddressIds)
  /\ IsFiniteSet(Requests)
  /\ MaxAddresses \in Nat \ {0}
  /\ None \notin Users \cup AddressIds

VARIABLES owner,      \* owner[a]: whose row a is, None when there is no row a
          isDefault,  \* the rows with isDefaultShipping = true
          req         \* req[r]: the locals of the handler running in slot r

vars == <<owner, isDefault, req>>

\* isDefaultShipping of a request's body: true, false or not given.
Flags == {"set", "clear", "absent"}

Request == [op       : {"none", "create", "update", "delete"},
            pc       : {"idle", "insert", "fallback", "commit"},
            user     : Users \cup {None},   \* dto.userId
            id       : AddressIds \cup {None},
            flag     : Flags,
            first    : BOOLEAN,   \* existingCount === 0
            fallback : AddressIds \cup {None}]

Idle == [op |-> "none", pc |-> "idle", user |-> None, id |-> None,
         flag |-> "absent", first |-> FALSE, fallback |-> None]

Live == {a \in AddressIds : owner[a] # None}
Book(u) == {a \in AddressIds : owner[a] = u}
Defaults(u) == Book(u) \cap isDefault

\* Keys are autoincremented: a new row's key is in no handler's locals.
FreedIds == AddressIds \ Live   \* a mutant
FreshIds == {a \in AddressIds \ Live :
               \A r \in Requests : a \notin {req[r].id, req[r].fallback}}

Init == /\ owner = [a \in AddressIds |-> None]
        /\ isDefault = {}
        /\ req = [r \in Requests |-> Idle]

Finish(r) == req' = [req EXCEPT ![r] = Idle]

-----------------------------------------------------------------------------
(* createUserAddress *)

BelowLimitOffByOne(u) == Cardinality(Book(u)) <= MaxAddresses   \* a mutant
BelowLimit(u) == Cardinality(Book(u)) < MaxAddresses

\* The count, the limit and the check of the location (an invalid one ends
\* the request before it writes).
CreateCount(r, u, flag) ==
  /\ req[r].pc = "idle"
  /\ BelowLimit(u)
  /\ req' = [req EXCEPT ![r] = [Idle EXCEPT !.op = "create", !.pc = "insert",
                                  !.user = u, !.flag = flag,
                                  !.first = (Book(u) = {})]]
  /\ UNCHANGED <<owner, isDefault>>

\* Others are reset when the body asks for a default or the count was 0, but
\* the new row is a default only when the body asks for it.
DefaultsWithoutReset(q) == isDefault   \* a mutant
DefaultsKeptByCreate(q) ==
  LET shouldBeDefault == q.flag = "set" \/ q.first
  IN  IF shouldBeDefault THEN isDefault \ Book(q.user) ELSE isDefault

CreateInsert(r, a) ==
  LET q == req[r] IN
  /\ q.pc = "insert"
  /\ a \in FreshIds
  /\ owner' = [owner EXCEPT ![a] = q.user]
  /\ isDefault' = DefaultsKeptByCreate(q)
                     \cup (IF q.flag = "set" THEN {a} ELSE {})
  /\ Finish(r)

-----------------------------------------------------------------------------
(* updateUserAddress *)

\* A request without the flag that edits other columns goes on to a commit
\* that leaves the defaults alone; one that edits nothing ends here.
UpdateFind(r, u, a, flag) ==
  /\ req[r].pc = "idle"
  /\ owner[a] = u
  /\ req' = [req EXCEPT ![r] =
              [Idle EXCEPT !.op = "update", !.user = u, !.id = a, !.flag = flag,
                 !.pc = IF flag = "clear" /\ a \in isDefault
                          THEN "fallback" ELSE "commit"]]
  /\ UNCHANGED <<owner, isDefault>>

\* The row that takes over the default.  updatedAt, which orders the choice,
\* is abstracted: any other row of the book may be the latest one.
UpdateFallback(r) ==
  LET q == req[r]
      others == Book(q.user) \ {q.id}
  IN  /\ q.op = "update" /\ q.pc = "fallback"
      /\ \/ others = {} /\ Finish(r)
         \/ \E f \in others :
              req' = [req EXCEPT ![r] = [q EXCEPT !.pc = "commit", !.fallback = f]]
      /\ UNCHANGED <<owner, isDefault>>

RowsAssumedPresent(q) == TRUE   \* a mutant
RowsPresent(q) == {q.id, q.fallback} \subseteq Live \cup {None}

DefaultsResetInEveryBook(q) ==   \* a mutant
  CASE q.flag = "set"    -> {q.id}
    [] q.fallback # None -> (isDefault \ {q.id}) \cup {q.fallback}
    [] OTHER             -> isDefault
DefaultsNotPromoted(q) ==   \* a mutant
  CASE q.flag = "set"    -> (isDefault \ Book(q.user)) \cup {q.id}
    [] q.fallback # None -> isDefault \ {q.id}
    [] OTHER             -> isDefault
DefaultsNotReset(q) ==   \* a mutant
  CASE q.flag = "set"    -> isDefault \cup {q.id}
    [] q.fallback # None -> (isDefault \ {q.id}) \cup {q.fallback}
    [] OTHER             -> isDefault
UpdatedDefaults(q) ==
  CASE q.flag = "set"    -> (isDefault \ Book(q.user)) \cup {q.id}
    [] q.fallback # None -> (isDefault \ {q.id}) \cup {q.fallback}
    [] OTHER             -> isDefault

UpdateCommit(r) ==
  /\ req[r].op = "update" /\ req[r].pc = "commit"
  /\ isDefault' = IF RowsPresent(req[r]) THEN UpdatedDefaults(req[r])
                                         ELSE isDefault
  /\ Finish(r)
  /\ UNCHANGED owner

-----------------------------------------------------------------------------
(* deleteUserAddress *)

\* The controller passes req.user.sub, which AuthGuard does not set, and a
\* filter on an undefined userId is no filter: the row is found by its id, and
\* the one that takes over is looked for in the whole table.
DeleteFind(r, u, a) ==
  /\ req[r].pc = "idle"
  /\ a \in Live
  /\ req' = [req EXCEPT ![r] =
              [Idle EXCEPT !.op = "delete", !.user = u, !.id = a,
                 !.pc = IF a \in isDefault THEN "fallback" ELSE "commit"]]
  /\ UNCHANGED <<owner, isDefault>>

NoCandidates(q) == {}   \* a mutant
FallbackCandidates(q) == Live \ {q.id}

DeleteFallback(r) ==
  LET q == req[r]
      next == [q EXCEPT !.pc = "commit"]
  IN  /\ q.op = "delete" /\ q.pc = "fallback"
      /\ \/ FallbackCandidates(q) = {} /\ req' = [req EXCEPT ![r] = next]
         \/ \E f \in FallbackCandidates(q) :
              req' = [req EXCEPT ![r] = [next EXCEPT !.fallback = f]]
      /\ UNCHANGED <<owner, isDefault>>

DeleteCommit(r) ==
  LET q == req[r] IN
  /\ q.op = "delete" /\ q.pc = "commit"
  /\ IF RowsPresent(q)
       THEN /\ owner' = [owner EXCEPT ![q.id] = None]
            /\ isDefault' = (isDefault \ {q.id}) \cup ({q.fallback} \ {None})
       ELSE UNCHANGED <<owner, isDefault>>
  /\ Finish(r)

-----------------------------------------------------------------------------
\* A database call that fails, or a restart of the process, ends the handler;
\* a transaction is committed whole or not at all.
Abort(r) == req[r].pc # "idle" /\ Finish(r) /\ UNCHANGED <<owner, isDefault>>

Next ==
  \E r \in Requests :
    \/ \E u \in Users, flag \in Flags : CreateCount(r, u, flag)
    \/ \E a \in AddressIds : CreateInsert(r, a)
    \/ \E u \in Users, a \in AddressIds, flag \in Flags : UpdateFind(r, u, a, flag)
    \/ UpdateFallback(r)
    \/ UpdateCommit(r)
    \/ \E u \in Users, a \in AddressIds : DeleteFind(r, u, a)
    \/ DeleteFallback(r)
    \/ DeleteCommit(r)
    \/ Abort(r)

Spec == Init /\ [][Next]_vars

-----------------------------------------------------------------------------
(* What holds under every interleaving. *)

\* Every variable has its type, and only rows are defaults: a promotion of a
\* row deleted meanwhile fails as a whole (update and delete by id).
TypeOK == /\ owner \in [AddressIds -> Users \cup {None}]
          /\ isDefault \subseteq Live
          /\ req \in [Requests -> Request]

\* What a handler holds between its steps is consistent with the table: a row
\* it found in its user's book (updateUserAddress) is in no other book later,
\* since rows never change hands and keys are never reused, and only an update
\* that clears the default has a fallback.
HandlerConsistent(q) ==
  /\ q.pc = "idle" <=> q.op = "none"
  /\ q.pc = "insert" <=> q.op = "create"
  /\ q.op # "none" => q.user \in Users
  /\ q.op \in {"update", "delete"} => q.id \in AddressIds
  /\ q.op = "update" => owner[q.id] \in {q.user, None}
  /\ q.fallback # None => q.pc = "commit" /\ q.fallback # q.id
  /\ q.op = "update" /\ q.fallback # None =>
       q.flag = "clear" /\ owner[q.fallback] \in {q.user, None}
  /\ q.op = "update" /\ q.pc = "fallback" => q.flag = "clear"
HandlersConsistent == \A r \in Requests : HandlerConsistent(req[r])

Inserting(u) == {r \in Requests : req[r].pc = "insert" /\ req[r].user = u}

\* Creates read the count and insert later, so the limit can be passed, but by
\* no more than the other creates in flight: rows and the inserts still to come
\* never exceed one less than the limit plus the slots (createUserAddress).
OvershootBounded ==
  \A u \in Users : Cardinality(Book(u)) + Cardinality(Inserting(u))
                       <= MaxAddresses - 1 + Cardinality(Requests)

RowUnchanged(a) == owner'[a] = owner[a] /\ (a \in isDefault <=> a \in isDefault')

\* A create or an update never changes a row of a book other than the one its
\* dto names, whatever ran meanwhile, even though the update writes by id alone
\* what an earlier call found by id and owner (findFirst at 123, update at 210).
WritesStayInNamedBook ==
  [][\A r \in Requests : req[r].op \in {"create", "update"} /\ req'[r] # req[r] =>
       \A a \in AddressIds : owner[a] \notin {None, req[r].user} => RowUnchanged(a)]_vars

\* No update takes the last default from a book, whatever ran between its
\* reads and its commit ("at least one default address is needed", 186).
UpdateKeepsADefault ==
  [][\A r \in Requests : req[r].op = "update" /\ req'[r] # req[r] =>
       \A u \in Users : Defaults(u) # {} => Defaults(u)' # {}]_vars

\* Only promoting a fallback can give a book its second default: a create or an
\* update that asks for the default resets the others in the same transaction.
SecondDefaultOnlyByPromotion ==
  [][\A r \in Requests : req'[r] # req[r] /\ req[r].fallback = None =>
       \A u \in Users : Cardinality(Defaults(u)') > 1 =>
                           Defaults(u)' \subseteq Defaults(u)]_vars

-----------------------------------------------------------------------------
(* What holds when requests run one at a time, those of any number of       *)
(* customers.                                                              *)

\* The limit of createUserAddress ("at most MAX_USER_ADDRESSES", line 74).
LimitRespected == \A u \in Users : Cardinality(Book(u)) <= MaxAddresses

\* A delete about to promote a row of a book that is not its target's: the
\* successor is looked for with an undefined userId (deleteUserAddress, and
\* address.controller.ts 81).
PromotesAcross(r) ==
  LET q == req[r] IN
  q.op = "delete" /\ q.fallback # None /\ owner[q.fallback] # owner[q.id]

\* A book that has a default keeps one as long as it has rows, unless a delete
\* of its default promotes a row of another book instead: removing the default,
\* by update or by delete, promotes some row in the same transaction.
DefaultLostOnlyAcrossBooks ==
  [][\A u \in Users : Defaults(u) # {} /\ Book(u)' # {} /\ Defaults(u)' = {} =>
       \E r \in Requests : PromotesAcross(r) /\ owner[req[r].id] = u]_vars

OneDefault(u) == \A a, b \in Defaults(u) : a = b

\* A book gets a second default only from a delete in another book: every other
\* path that sets a default resets or moves the one there was.
SecondDefaultOnlyAcrossBooks ==
  [][\A u \in Users : OneDefault(u) /\ ~OneDefault(u)' =>
       \E r \in Requests : PromotesAcross(r) /\ owner[req[r].fallback] = u]_vars

Sequential == INSTANCE SequentialBooks WITH
  Owners <- Users, Ids <- AddressIds, Limit <- MaxAddresses, Nobody <- None,
  defaults <- isDefault

\* The table behaves as if each request took effect at once, although a handler
\* reads, chooses a successor and writes in separate calls.
TableIsSequential == Sequential!Spec
=============================================================================
