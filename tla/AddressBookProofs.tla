------------------------- MODULE AddressBookProofs -------------------------
(* Theorems about AddressBook, for any customers, slots, keys and limit.    *)
EXTENDS AddressBook, FiniteSetTheorems, TLAPS

USE ConstantsAssumption

\* One action of one slot: the disjuncts of Next.
Step(r) ==
  \/ \E u \in Users, flag \in Flags : CreateCount(r, u, flag)
  \/ \E a \in AddressIds : CreateInsert(r, a)
  \/ \E u \in Users, a \in AddressIds, flag \in Flags : UpdateFind(r, u, a, flag)
  \/ UpdateFallback(r)
  \/ UpdateCommit(r)
  \/ \E u \in Users, a \in AddressIds : DeleteFind(r, u, a)
  \/ DeleteFallback(r)
  \/ DeleteCommit(r)
  \/ Abort(r)

LEMMA NextIsStep == Next <=> \E r \in Requests : Step(r)
  BY DEF Next, Step

\* A step of a slot rewrites that slot's record only.
LEMMA OthersUntouched ==
  ASSUME TypeOK, NEW r \in Requests, Step(r), NEW s \in Requests, s # r
  PROVE  req'[s] = req[s]
  <1> USE DEF TypeOK, Finish
  <1>1. CASE \E u \in Users, flag \in Flags : CreateCount(r, u, flag)
    BY <1>1 DEF CreateCount
  <1>2. CASE \E a \in AddressIds : CreateInsert(r, a)
    BY <1>2 DEF CreateInsert
  <1>3. CASE \E u \in Users, a \in AddressIds, flag \in Flags : UpdateFind(r, u, a, flag)
    BY <1>3 DEF UpdateFind
  <1>4. CASE UpdateFallback(r)
    BY <1>4 DEF UpdateFallback
  <1>5. CASE UpdateCommit(r)
    BY <1>5 DEF UpdateCommit
  <1>6. CASE \E u \in Users, a \in AddressIds : DeleteFind(r, u, a)
    BY <1>6 DEF DeleteFind
  <1>7. CASE DeleteFallback(r)
    BY <1>7 DEF DeleteFallback
  <1>8. CASE DeleteCommit(r)
    BY <1>8 DEF DeleteCommit
  <1>9. CASE Abort(r)
    BY <1>9 DEF Abort
  <1> QED BY <1>1, <1>2, <1>3, <1>4, <1>5, <1>6, <1>7, <1>8, <1>9 DEF Step

\* The inductive invariant: types, and handlers consistent with the table.
IInv == TypeOK /\ HandlersConsistent

\* Both fallback reads end the handler or hand it on to its commit, with no
\* fallback or with a row other than its own that an update takes from the book.
Chosen(r, f) == req' = [req EXCEPT ![r] = [req[r] EXCEPT !.pc = "commit", !.fallback = f]]

LEMMA ChosenRecord ==
  ASSUME TypeOK, NEW r \in Requests, NEW f \in AddressIds \cup {None}, Chosen(r, f)
  PROVE  /\ req' \in [Requests -> Request]
         /\ req'[r].pc = "commit" /\ req'[r].fallback = f
         /\ req'[r].op = req[r].op /\ req'[r].user = req[r].user
         /\ req'[r].id = req[r].id /\ req'[r].flag = req[r].flag
  <1> DEFINE q == [req[r] EXCEPT !.pc = "commit", !.fallback = f]
  <1>1. req[r] \in Request
    BY DEF TypeOK
  <1>2. /\ q \in Request
        /\ q.pc = "commit" /\ q.fallback = f
        /\ q.op = req[r].op /\ q.user = req[r].user
        /\ q.id = req[r].id /\ q.flag = req[r].flag
    BY <1>1 DEF Request
  <1>3. req' = [req EXCEPT ![r] = q]
    BY DEF Chosen
  <1> HIDE DEF q
  <1> QED BY <1>2, <1>3 DEF TypeOK

LEMMA FallbackOutcome ==
  ASSUME IInv, NEW r \in Requests, UpdateFallback(r) \/ DeleteFallback(r)
  PROVE  /\ UNCHANGED <<owner, isDefault>>
         /\ req[r].pc = "fallback" /\ req[r].op \in {"update", "delete"}
         /\ \/ Finish(r)
            \/ Chosen(r, req[r].fallback) /\ req[r].op = "delete"
            \/ \E f \in Live \ {req[r].id} :
                  Chosen(r, f) /\ (req[r].op = "update" => owner[f] = req[r].user)
  <1> TypeOK BY DEF IInv
  <1>1. CASE UpdateFallback(r)
    <2>1. CASE Finish(r)
      BY <1>1, <2>1 DEF UpdateFallback
    <2>2. ASSUME NEW f \in Book(req[r].user) \ {req[r].id}, Chosen(r, f)
          PROVE  f \in Live \ {req[r].id} /\ owner[f] = req[r].user
      <3>1. req[r].user \in Users
        BY <1>1 DEF UpdateFallback, IInv, HandlersConsistent, HandlerConsistent
      <3> QED BY <1>1, <2>2, <3>1 DEF Book, Live
    <2> QED BY <1>1, <2>1, <2>2 DEF UpdateFallback, Chosen
  <1>2. CASE DeleteFallback(r)
    <2>1. CASE req' = [req EXCEPT ![r] = [req[r] EXCEPT !.pc = "commit"]]
      <3>1. Chosen(r, req[r].fallback)
        <4>1. req[r] \in Request
          BY DEF TypeOK
        <4>2. [req[r] EXCEPT !.pc = "commit"]
                = [req[r] EXCEPT !.pc = "commit", !.fallback = req[r].fallback]
          BY <4>1 DEF Request
        <4> QED BY <2>1, <4>2 DEF Chosen
      <3> QED BY <1>2, <3>1 DEF DeleteFallback
    <2>2. ASSUME NEW f \in FallbackCandidates(req[r]),
                 req' = [req EXCEPT ![r] = [[req[r] EXCEPT !.pc = "commit"] EXCEPT !.fallback = f]]
          PROVE  Chosen(r, f) /\ f \in Live \ {req[r].id}
      <3>1. [[req[r] EXCEPT !.pc = "commit"] EXCEPT !.fallback = f]
              = [req[r] EXCEPT !.pc = "commit", !.fallback = f]
        BY DEF TypeOK, Request
      <3> QED BY <2>2, <3>1 DEF Chosen, FallbackCandidates
    <2> QED BY <1>2, <2>1, <2>2 DEF DeleteFallback
  <1> QED BY <1>1, <1>2

-----------------------------------------------------------------------------
(* The invariant holds initially and every step preserves it.               *)

LEMMA InitIInv == Init => IInv
  BY DEF Init, IInv, TypeOK, HandlersConsistent, HandlerConsistent, Request, Idle, Flags, Live

\* Keys in the locals of a handler keep their owner, or lose their row.
LEMMA OwnerOfHeldKeys ==
  ASSUME TypeOK, NEW r \in Requests, Step(r),
         NEW s \in Requests, NEW a \in {req[s].id, req[s].fallback} \cap AddressIds
  PROVE  owner'[a] \in {owner[a], None}
  <1>1. CASE \E b \in AddressIds : CreateInsert(r, b)
    BY <1>1 DEF CreateInsert, FreshIds, TypeOK
  <1>2. CASE DeleteCommit(r)
    BY <1>2 DEF DeleteCommit, TypeOK
  <1>3. CASE UNCHANGED owner
    BY <1>3
  <1> QED BY <1>1, <1>2, <1>3 DEF Step, CreateCount, UpdateFind, UpdateFallback,
                                  UpdateCommit, DeleteFind, DeleteFallback, Abort

LEMMA StepTypeOK ==
  ASSUME IInv, NEW r \in Requests, Step(r)
  PROVE  TypeOK'
  <1> USE DEF IInv, TypeOK, Request, Idle, Flags
  <1>1. ASSUME NEW u \in Users, NEW flag \in Flags, CreateCount(r, u, flag) PROVE TypeOK'
    BY <1>1 DEF CreateCount, Live
  <1>2. ASSUME NEW a \in AddressIds, CreateInsert(r, a) PROVE TypeOK'
    <2>1. req[r].user \in Users
      BY <1>2 DEF CreateInsert, HandlersConsistent, HandlerConsistent
    <2>2. owner' \in [AddressIds -> Users \cup {None}] /\ Live' = Live \cup {a}
      BY <1>2, <2>1 DEF CreateInsert, FreshIds, Live
    <2>3. isDefault' \subseteq Live'
      BY <1>2, <2>2 DEF CreateInsert, DefaultsKeptByCreate
    <2> QED BY <1>2, <2>2, <2>3 DEF CreateInsert, Finish
  <1>3. ASSUME NEW u \in Users, NEW a \in AddressIds, NEW flag \in Flags,
               UpdateFind(r, u, a, flag)
        PROVE  TypeOK'
    BY <1>3 DEF UpdateFind, Live
  <1>4. CASE UpdateFallback(r) \/ DeleteFallback(r)
    <2>1. Live' = Live /\ UNCHANGED <<owner, isDefault>>
      BY <1>4, FallbackOutcome DEF Live
    <2>2. CASE Finish(r)
      BY <2>1, <2>2 DEF Finish
    <2>3. ASSUME NEW f \in AddressIds \cup {None}, Chosen(r, f) PROVE TypeOK'
      BY <2>1, <2>3, ChosenRecord
    <2> QED BY <1>4, <2>2, <2>3, FallbackOutcome DEF Live
  <1>5. CASE UpdateCommit(r)
    <2>1. req[r].id \in AddressIds
      BY <1>5 DEF UpdateCommit, HandlersConsistent, HandlerConsistent
    <2>2. isDefault' \subseteq Live
      BY <1>5, <2>1 DEF UpdateCommit, RowsPresent, UpdatedDefaults
    <2> QED BY <1>5, <2>2 DEF UpdateCommit, Finish, Live
  <1>6. ASSUME NEW u \in Users, NEW a \in AddressIds, DeleteFind(r, u, a) PROVE TypeOK'
    BY <1>6 DEF DeleteFind, Live
  <1>8. CASE DeleteCommit(r)
    <2>1. req[r].id \in AddressIds /\ req[r].fallback # req[r].id
      BY <1>8 DEF DeleteCommit, HandlersConsistent, HandlerConsistent
    <2>2. isDefault' \subseteq Live' /\ owner' \in [AddressIds -> Users \cup {None}]
      BY <1>8, <2>1 DEF DeleteCommit, RowsPresent, Live
    <2> QED BY <1>8, <2>2 DEF DeleteCommit, Finish
  <1>9. CASE Abort(r)
    BY <1>9 DEF Abort, Finish, Live
  <1> QED BY <1>1, <1>2, <1>3, <1>4, <1>5, <1>6, <1>8, <1>9 DEF Step

LEMMA StepHandlersConsistent ==
  ASSUME IInv, NEW r \in Requests, Step(r)
  PROVE  HandlersConsistent'
  <1> SUFFICES ASSUME NEW s \in Requests PROVE HandlerConsistent(req[s])'
    BY DEF HandlersConsistent
  <1> USE DEF IInv, TypeOK, Request, Idle, Flags, HandlersConsistent, HandlerConsistent
  <1>0. CASE s # r
    <2>1. req'[s] = req[s]
      BY <1>0, OthersUntouched
    <2>2. \A a \in {req[s].id, req[s].fallback} \cap AddressIds : owner'[a] \in {owner[a], None}
      BY OwnerOfHeldKeys
    <2> QED BY <2>1, <2>2
  <1>1. ASSUME NEW u \in Users, NEW flag \in Flags, CreateCount(r, u, flag), s = r
        PROVE  HandlerConsistent(req[s])'
    BY <1>1 DEF CreateCount
  <1>2. ASSUME Finish(r), s = r PROVE HandlerConsistent(req[s])'
    BY <1>2 DEF Finish
  <1>3. ASSUME NEW u \in Users, NEW a \in AddressIds, NEW flag \in Flags,
               UpdateFind(r, u, a, flag), s = r
        PROVE  HandlerConsistent(req[s])'
    BY <1>3 DEF UpdateFind
  <1>4. ASSUME UpdateFallback(r) \/ DeleteFallback(r), s = r
        PROVE  HandlerConsistent(req[s])'
    <2>1. ASSUME NEW f \in Live \ {req[r].id}, Chosen(r, f),
                 req[r].op = "update" => owner[f] = req[r].user
          PROVE  HandlerConsistent(req[s])'
      BY <1>4, <2>1, FallbackOutcome, ChosenRecord DEF Live
    <2>2. ASSUME Chosen(r, req[r].fallback), req[r].op = "delete"
          PROVE  HandlerConsistent(req[s])'
      BY <1>4, <2>2, FallbackOutcome, ChosenRecord
    <2> QED BY <1>2, <1>4, <2>1, <2>2, FallbackOutcome
  <1>6. ASSUME NEW u \in Users, NEW a \in AddressIds, DeleteFind(r, u, a), s = r
        PROVE  HandlerConsistent(req[s])'
    BY <1>6 DEF DeleteFind
  <1> HIDE DEF IInv, TypeOK, Request, Idle, Flags, HandlersConsistent, HandlerConsistent
  <1>7. \/ Finish(r) \/ UpdateFallback(r) \/ DeleteFallback(r)
        \/ \E u \in Users, flag \in Flags : CreateCount(r, u, flag)
        \/ \E u \in Users, a \in AddressIds, flag \in Flags : UpdateFind(r, u, a, flag)
        \/ \E u \in Users, a \in AddressIds : DeleteFind(r, u, a)
    BY DEF Step, CreateInsert, UpdateCommit, DeleteCommit, Abort
  <1> QED BY <1>0, <1>1, <1>2, <1>3, <1>4, <1>6, <1>7

LEMMA IInvPreserved == IInv /\ [Next]_vars => IInv'
  <1> SUFFICES ASSUME IInv, [Next]_vars PROVE IInv' OBVIOUS
  <1>1. CASE Next
    BY <1>1, NextIsStep, StepTypeOK, StepHandlersConsistent DEF IInv
  <1>2. CASE UNCHANGED vars
    BY <1>2 DEF vars, IInv, TypeOK, HandlersConsistent, HandlerConsistent, Live
  <1> QED BY <1>1, <1>2

LEMMA InvariantHolds == Spec => []IInv
  BY InitIInv, IInvPreserved, PTL DEF Spec

\* Types: no default without its row, because a promotion of a row deleted
\* meanwhile fails with the whole transaction.
THEOREM TypeCorrect == Spec => []TypeOK
  <1>1. IInv => TypeOK BY DEF IInv
  <1> QED BY InvariantHolds, <1>1, PTL

\* Handlers stay consistent with the table: a row found in a user's book is in
\* no other book when it is written.
THEOREM HandlersAgree == Spec => []HandlersConsistent
  <1>1. IInv => HandlersConsistent BY DEF IInv
  <1> QED BY InvariantHolds, <1>1, PTL

-----------------------------------------------------------------------------
(* The limit.  OvershootBounded is inductive given the types: the count that *)
(* lets a create go on bounds the rows, the slots bound the inserts to come, *)
(* and an insert turns one of the latter into one of the former.             *)

LEMMA FiniteBooks ==
  ASSUME NEW u
  PROVE  /\ IsFiniteSet(Book(u)) /\ Cardinality(Book(u)) \in Nat
         /\ IsFiniteSet(Inserting(u)) /\ Cardinality(Inserting(u)) \in Nat
         /\ Cardinality(Inserting(u)) <= Cardinality(Requests)
         /\ Cardinality(Requests) \in Nat
  <1>1. Book(u) \in SUBSET AddressIds /\ Inserting(u) \in SUBSET Requests
    BY DEF Book, Inserting
  <1> QED BY <1>1, FS_Subset, FS_CardinalityType

\* A step that is not the insert of u gives u no row; one that is not the count
\* of a create for u gives u no insert to come.
LEMMA RowsOnlyByInsert ==
  ASSUME IInv, NEW r \in Requests, Step(r), NEW u \in Users
  PROVE  \/ \E flag \in Flags : CreateCount(r, u, flag)
         \/ \E a \in AddressIds : CreateInsert(r, a) /\ req[r].user = u
         \/ Book(u)' \subseteq Book(u) /\ Inserting(u)' \subseteq Inserting(u)
  <1> USE DEF IInv, TypeOK, Book, Inserting
  <1>0. \A s \in Requests \ {r} : req'[s] = req[s]
    BY OthersUntouched
  <1>1. ASSUME NEW v \in Users, NEW flag \in Flags, CreateCount(r, v, flag), v # u
        PROVE  Book(u)' \subseteq Book(u) /\ Inserting(u)' \subseteq Inserting(u)
    BY <1>0, <1>1 DEF CreateCount
  <1>2. ASSUME NEW a \in AddressIds, CreateInsert(r, a), req[r].user # u
        PROVE  Book(u)' \subseteq Book(u) /\ Inserting(u)' \subseteq Inserting(u)
    BY <1>0, <1>2 DEF CreateInsert, Finish, Idle
  <1>3. ASSUME owner' = owner, req'[r].pc # "insert"
        PROVE  Book(u)' \subseteq Book(u) /\ Inserting(u)' \subseteq Inserting(u)
    BY <1>0, <1>3
  <1>4. Finish(r) => req'[r].pc # "insert"
    BY DEF Finish, Idle
  <1>5. CASE UpdateFallback(r) \/ DeleteFallback(r)
    <2>1. ASSUME NEW f \in AddressIds \cup {None}, Chosen(r, f) PROVE req'[r].pc # "insert"
      BY <2>1, ChosenRecord
    <2>2. req[r].fallback \in AddressIds \cup {None}
      BY DEF Request
    <2> QED BY <1>3, <1>4, <1>5, <2>1, <2>2, FallbackOutcome DEF Live
  <1>6. CASE DeleteCommit(r)
    <2>1. Book(u)' \subseteq Book(u)
      BY <1>6 DEF DeleteCommit
    <2> QED BY <1>0, <1>4, <1>6, <2>1 DEF DeleteCommit
  <1>7. CASE \E v \in Users, a \in AddressIds, flag \in Flags : UpdateFind(r, v, a, flag)
    BY <1>3, <1>7 DEF UpdateFind
  <1>8. CASE \E v \in Users, a \in AddressIds : DeleteFind(r, v, a)
    BY <1>3, <1>8 DEF DeleteFind
  <1>9. CASE UpdateCommit(r) \/ Abort(r)
    BY <1>3, <1>4, <1>9 DEF UpdateCommit, Abort
  <1> QED BY <1>1, <1>2, <1>5, <1>6, <1>7, <1>8, <1>9 DEF Step

LEMMA StepOvershootBounded ==
  ASSUME IInv, OvershootBounded, NEW r \in Requests, Step(r)
  PROVE  OvershootBounded'
  <1> SUFFICES ASSUME NEW u \in Users
               PROVE  Cardinality(Book(u)') + Cardinality(Inserting(u)')
                        <= MaxAddresses - 1 + Cardinality(Requests)
    BY DEF OvershootBounded
  <1> DEFINE B == Cardinality(Book(u))  I == Cardinality(Inserting(u))
             B1 == Cardinality(Book(u)')  I1 == Cardinality(Inserting(u)')
  <1>1. B \in Nat /\ I \in Nat /\ Cardinality(Requests) \in Nat
    BY FiniteBooks
  <1>2. /\ IsFiniteSet(Book(u)') /\ B1 \in Nat
        /\ IsFiniteSet(Inserting(u)') /\ I1 \in Nat /\ I1 <= Cardinality(Requests)
    <2>1. Book(u)' \in SUBSET AddressIds /\ Inserting(u)' \in SUBSET Requests
      BY DEF Book, Inserting
    <2> QED BY <2>1, FS_Subset, FS_CardinalityType
  <1>3. B + I <= MaxAddresses - 1 + Cardinality(Requests)
    BY DEF OvershootBounded
  <1>4. ASSUME NEW flag \in Flags, CreateCount(r, u, flag)
        PROVE  B1 + I1 <= MaxAddresses - 1 + Cardinality(Requests)
    <2>1. Book(u)' = Book(u) /\ B < MaxAddresses
      BY <1>4 DEF CreateCount, BelowLimit, Book
    <2> HIDE DEF B, I, B1, I1
    <2>2. B1 = B
      BY <2>1 DEF B, B1
    <2> QED BY <1>1, <1>2, <2>1, <2>2
  <1>5. ASSUME NEW a \in AddressIds, CreateInsert(r, a), req[r].user = u
        PROVE  B1 + I1 <= MaxAddresses - 1 + Cardinality(Requests)
    <2>1. Book(u)' = Book(u) \cup {a} /\ a \notin Book(u)
      BY <1>5 DEF CreateInsert, FreshIds, Live, Book, IInv, TypeOK
    <2>2. r \in Inserting(u)
      BY <1>5 DEF CreateInsert, Inserting
    <2>3. Inserting(u)' = Inserting(u) \ {r}
      BY <1>5, OthersUntouched DEF CreateInsert, Finish, Idle, Inserting, IInv, TypeOK
    <2>4. B1 = B + 1
      BY <2>1, FiniteBooks, FS_AddElement
    <2>5. I1 = I - 1
      BY <2>2, <2>3, FiniteBooks, FS_RemoveElement
    <2> HIDE DEF B, I, B1, I1
    <2> QED BY <1>1, <1>3, <2>4, <2>5
  <1>6. ASSUME Book(u)' \subseteq Book(u), Inserting(u)' \subseteq Inserting(u)
        PROVE  B1 + I1 <= MaxAddresses - 1 + Cardinality(Requests)
    <2>1. B1 <= B /\ I1 <= I
      BY <1>6, FiniteBooks, FS_Subset
    <2> HIDE DEF B, I, B1, I1
    <2> QED BY <1>1, <1>2, <1>3, <2>1
  <1> QED BY <1>4, <1>5, <1>6, RowsOnlyByInsert

LEMMA InitOvershootBounded == Init => OvershootBounded
  <1> SUFFICES ASSUME Init, NEW u \in Users
               PROVE  Cardinality(Book(u)) + Cardinality(Inserting(u))
                        <= MaxAddresses - 1 + Cardinality(Requests)
    BY DEF OvershootBounded
  <1>1. Book(u) = {} /\ Inserting(u) = {}
    BY DEF Init, Book, Inserting, Idle
  <1> QED BY <1>1, FS_EmptySet, FiniteBooks

\* Creates in flight can pass the limit by no more than their number less one.
THEOREM OvershootIsBounded == Spec => []OvershootBounded
  <1>1. IInv /\ OvershootBounded /\ [Next]_vars => OvershootBounded'
    <2>1. ASSUME IInv, OvershootBounded, Next PROVE OvershootBounded'
      BY <2>1, NextIsStep, StepOvershootBounded
    <2>2. ASSUME OvershootBounded, UNCHANGED vars PROVE OvershootBounded'
      BY <2>2 DEF vars, OvershootBounded, Book, Inserting
    <2> QED BY <2>1, <2>2
  <1> QED BY InitOvershootBounded, InvariantHolds, <1>1, PTL DEF Spec

\* One request at a time never takes a book past the limit.
THEOREM LimitRespectedOneAtATime ==
  ASSUME Cardinality(Requests) = 1
  PROVE  Spec => []LimitRespected
  <1>1. OvershootBounded => LimitRespected
    <2> SUFFICES ASSUME OvershootBounded, NEW u \in Users
                 PROVE  Cardinality(Book(u)) <= MaxAddresses
      BY DEF LimitRespected
    <2> QED BY FiniteBooks DEF OvershootBounded
  <1> QED BY OvershootIsBounded, <1>1, PTL

-----------------------------------------------------------------------------
(* Updates and creates under every interleaving. *)

\* The slot that changed is the slot that stepped.
LEMMA SteppedSlot ==
  ASSUME IInv, Next
  PROVE  \E r \in Requests : Step(r) /\ \A s \in Requests \ {r} : req'[s] = req[s]
  BY NextIsStep, OthersUntouched DEF IInv

\* What an update may do to the table: nothing before its commit, and then one
\* of three changes of the defaults.
LEMMA UpdateStep ==
  ASSUME IInv, NEW r \in Requests, Step(r), req[r].op = "update"
  PROVE  /\ owner' = owner
         /\ \/ isDefault' = isDefault
            \/ /\ owner[req[r].id] = req[r].user
               /\ isDefault' = (isDefault \ Book(req[r].user)) \cup {req[r].id}
            \/ /\ {req[r].id, req[r].fallback} \subseteq Book(req[r].user)
               /\ isDefault' = (isDefault \ {req[r].id}) \cup {req[r].fallback}
  <1> USE DEF IInv, HandlersConsistent, HandlerConsistent
  <1>1. CASE UpdateCommit(r)
    <2>1. CASE RowsPresent(req[r])
      BY <1>1, <2>1 DEF UpdateCommit, RowsPresent, UpdatedDefaults, Live, Book, TypeOK, Request
    <2>2. CASE ~RowsPresent(req[r])
      BY <1>1, <2>2 DEF UpdateCommit
    <2> QED BY <1>1, <2>1, <2>2 DEF UpdateCommit
  <1>2. CASE UpdateFallback(r) \/ Abort(r)
    BY <1>2 DEF UpdateFallback, Abort
  <1> QED BY <1>1, <1>2 DEF Step, CreateCount, CreateInsert, UpdateFind,
                          DeleteFind, DeleteFallback, DeleteCommit

\* An update never takes the last default from a book, for any interleaving.
THEOREM UpdatesKeepADefault == Spec => UpdateKeepsADefault
  <1>1. ASSUME IInv, [Next]_vars, NEW r \in Requests,
               req[r].op = "update", req'[r] # req[r],
               NEW u \in Users, Defaults(u) # {}
        PROVE  Defaults(u)' # {}
    <2>1. Next
      BY <1>1 DEF vars
    <2>2. Step(r)
      BY <1>1, <2>1, SteppedSlot
    <2>3. \A a \in AddressIds : owner'[a] = owner[a]
      BY <1>1, <2>2, UpdateStep
    <2>4. PICK d \in AddressIds : owner[d] = u /\ d \in isDefault
      BY <1>1 DEF Defaults, Book
    <2>5. CASE isDefault' = isDefault
      BY <2>3, <2>4, <2>5 DEF Defaults, Book
    <2>6. CASE /\ owner[req[r].id] = req[r].user
               /\ isDefault' = (isDefault \ Book(req[r].user)) \cup {req[r].id}
      BY <1>1, <2>3, <2>4, <2>6 DEF Defaults, Book, IInv, HandlersConsistent, HandlerConsistent
    <2>7. CASE /\ {req[r].id, req[r].fallback} \subseteq Book(req[r].user)
               /\ isDefault' = (isDefault \ {req[r].id}) \cup {req[r].fallback}
      BY <2>3, <2>4, <2>7 DEF Defaults, Book
    <2> QED BY <1>1, <2>2, <2>5, <2>6, <2>7, UpdateStep
  <1>2. IInv /\ [Next]_vars =>
          [\A r \in Requests : req[r].op = "update" /\ req'[r] # req[r] =>
             \A u \in Users : Defaults(u) # {} => Defaults(u)' # {}]_vars
    BY <1>1
  <1> QED BY InvariantHolds, <1>2, PTL DEF Spec, UpdateKeepsADefault

\* Under every interleaving, a create or an update changes no row of a book other
\* than the one its dto names.
THEOREM WritesStayInBook == Spec => WritesStayInNamedBook
  <1>1. ASSUME IInv, [Next]_vars, NEW r \in Requests,
               req[r].op \in {"create", "update"}, req'[r] # req[r],
               NEW a \in AddressIds, owner[a] \notin {None, req[r].user}
        PROVE  RowUnchanged(a)
    <2>1. Step(r)
      BY <1>1, SteppedSlot DEF vars
    <2>2. CASE req[r].op = "update"
      BY <1>1, <2>1, <2>2, UpdateStep DEF RowUnchanged, Book, IInv, HandlersConsistent, HandlerConsistent
    <2>3. CASE req[r].op = "create"
      <3>1. CASE Abort(r)
        BY <3>1 DEF Abort, RowUnchanged
      <3>2. ASSUME NEW b \in AddressIds, CreateInsert(r, b) PROVE RowUnchanged(a)
        BY <1>1, <3>2 DEF CreateInsert, FreshIds, Live, Book, DefaultsKeptByCreate,
                          RowUnchanged, IInv, TypeOK
      <3> QED BY <1>1, <2>1, <2>3, <3>1, <3>2 DEF Step, CreateCount, UpdateFind, UpdateFallback,
             UpdateCommit, DeleteFind, DeleteFallback, DeleteCommit, IInv, HandlersConsistent, HandlerConsistent
    <2> QED BY <1>1, <2>2, <2>3
  <1>2. IInv /\ [Next]_vars =>
          [\A r \in Requests : req[r].op \in {"create", "update"} /\ req'[r] # req[r] =>
             \A a \in AddressIds : owner[a] \notin {None, req[r].user} => RowUnchanged(a)]_vars
    BY <1>1
  <1> QED BY InvariantHolds, <1>2, PTL DEF Spec, WritesStayInNamedBook

\* What a handler without a fallback may do to the defaults of a book: take some
\* away, or leave it with one.
LEMMA WithoutPromotion ==
  ASSUME IInv, NEW r \in Requests, Step(r), req[r].fallback = None, NEW u \in Users
  PROVE  Defaults(u)' \subseteq Defaults(u) \/ \E a \in AddressIds : Defaults(u)' = {a}
  <1> USE DEF IInv, HandlersConsistent, HandlerConsistent
  <1>1. CASE UNCHANGED <<owner, isDefault>>
    BY <1>1 DEF Defaults, Book
  <1>2. ASSUME NEW a \in AddressIds, CreateInsert(r, a)
        PROVE  Defaults(u)' \subseteq Defaults(u) \/ Defaults(u)' = {a}
    <2>1. /\ a \notin isDefault /\ owner' = [owner EXCEPT ![a] = req[r].user]
          /\ owner \in [AddressIds -> Users \cup {None}]
      BY <1>2 DEF CreateInsert, FreshIds, TypeOK
    <2>2. Book(u)' = IF u = req[r].user THEN Book(u) \cup {a} ELSE Book(u) \ {a}
      BY <2>1 DEF Book
    <2>3. CASE req[r].flag = "set"
      <3>1. isDefault' = (isDefault \ Book(req[r].user)) \cup {a}
        BY <1>2, <2>3 DEF CreateInsert, DefaultsKeptByCreate
      <3> QED BY <2>2, <3>1 DEF Defaults
    <2>4. CASE req[r].flag # "set"
      <3>1. isDefault' \subseteq isDefault
        BY <1>2, <2>4 DEF CreateInsert, DefaultsKeptByCreate
      <3> QED BY <2>1, <2>2, <3>1 DEF Defaults
    <2> QED BY <2>3, <2>4
  <1>3. CASE req[r].op = "update"
    <2>1. owner' = owner /\ req[r].id \in AddressIds
      BY <1>3, UpdateStep
    <2>2. Book(u)' = Book(u)
      BY <2>1 DEF Book
    <2>3. CASE isDefault' = isDefault
      BY <2>2, <2>3 DEF Defaults
    <2>4. CASE /\ owner[req[r].id] = req[r].user
               /\ isDefault' = (isDefault \ Book(req[r].user)) \cup {req[r].id}
      <3>1. CASE u = req[r].user
        <4>1. Defaults(u)' = {req[r].id}
          BY <2>1, <2>2, <2>4, <3>1 DEF Defaults, Book
        <4> QED BY <2>1, <4>1
      <3>2. CASE u # req[r].user
        BY <2>1, <2>2, <2>4, <3>2 DEF Defaults, Book
      <3> QED BY <3>1, <3>2
    <2>5. ~ {req[r].id, req[r].fallback} \subseteq Book(req[r].user)
      BY DEF Book
    <2> QED BY <1>3, <2>3, <2>4, <2>5, UpdateStep
  <1>4. CASE DeleteCommit(r)
    <2>1. CASE RowsPresent(req[r])
      <3>1. /\ isDefault' \subseteq isDefault
            /\ owner' = [owner EXCEPT ![req[r].id] = None]
            /\ owner \in [AddressIds -> Users \cup {None}]
        BY <1>4, <2>1 DEF DeleteCommit, TypeOK
      <3>2. Book(u)' \subseteq Book(u)
        BY <3>1 DEF Book
      <3> QED BY <3>1, <3>2 DEF Defaults
    <2> QED BY <1>1, <1>4, <2>1 DEF DeleteCommit
  <1>5. UpdateCommit(r) => req[r].op = "update"
    BY DEF UpdateCommit
  <1> QED BY <1>1, <1>2, <1>3, <1>4, <1>5 DEF Step, CreateCount, UpdateFind, UpdateFallback,
                                              DeleteFind, DeleteFallback, Abort

\* Under every interleaving a book gets a second default only by a promotion.
THEOREM OnlyPromotionsAddDefaults == Spec => SecondDefaultOnlyByPromotion
  <1>1. ASSUME IInv, [Next]_vars, NEW r \in Requests,
               req'[r] # req[r], req[r].fallback = None,
               NEW u \in Users, Cardinality(Defaults(u)') > 1
        PROVE  Defaults(u)' \subseteq Defaults(u)
    <2>1. Step(r)
      BY <1>1, SteppedSlot DEF vars
    <2>2. ASSUME NEW a \in AddressIds, Defaults(u)' = {a} PROVE FALSE
      BY <1>1, <2>2, FS_Singleton
    <2> QED BY <1>1, <2>1, <2>2, WithoutPromotion
  <1>2. IInv /\ [Next]_vars =>
          [\A r \in Requests : req'[r] # req[r] /\ req[r].fallback = None =>
             \A u \in Users : Cardinality(Defaults(u)') > 1 =>
                                 Defaults(u)' \subseteq Defaults(u)]_vars
    BY <1>1
  <1> QED BY InvariantHolds, <1>2, PTL DEF Spec, SecondDefaultOnlyByPromotion

-----------------------------------------------------------------------------
(* One request at a time, of any customer: what the handler in the slot read *)
(* is still so when it writes, and the table implements SequentialBooks.     *)

SlotCurrent(q) ==
  /\ q.op = "create" => /\ Cardinality(Book(q.user)) < MaxAddresses
                        /\ q.first => Book(q.user) = {}
  /\ q.op \in {"update", "delete"} => q.id \in Live
  /\ q.pc = "fallback" => q.id \in isDefault
  /\ q.fallback # None => q.id \in isDefault /\ q.fallback \in Live \ {q.id}
  /\ q.op = "delete" /\ q.pc = "commit" /\ q.fallback = None =>
       q.id \notin isDefault \/ Live = {q.id}

Alone == IInv /\ \A r \in Requests : SlotCurrent(req[r])

\* What a step of the only slot does to the table, in the terms of
\* SequentialBooks; a removal names the handler that does it.
AddStep ==
  \E u \in Users, a \in AddressIds \ Live, wanted \in BOOLEAN :
    /\ Cardinality(Book(u)) < MaxAddresses
    /\ owner' = [owner EXCEPT ![a] = u]
    /\ isDefault' = IF wanted THEN (isDefault \ Book(u)) \cup {a} ELSE isDefault
MoveStep ==
  /\ owner' = owner
  /\ \/ \E a \in Live : isDefault' = (isDefault \ Book(owner[a])) \cup {a}
     \/ \E a \in isDefault : \E f \in Live \ {a} :
          owner[f] = owner[a] /\ isDefault' = (isDefault \ {a}) \cup {f}
RemoveStep(r) ==
  /\ req[r].op = "delete" /\ req[r].id \in Live
  /\ owner' = [owner EXCEPT ![req[r].id] = None]
  /\ \/ req[r].id \notin isDefault /\ isDefault' = isDefault
     \/ req[r].id \in isDefault /\ Live = {req[r].id} /\ isDefault' = {}
     \/ /\ req[r].id \in isDefault /\ req[r].fallback \in Live \ {req[r].id}
        /\ isDefault' = (isDefault \ {req[r].id}) \cup {req[r].fallback}
TableStep(r) ==
  AddStep \/ MoveStep \/ RemoveStep(r) \/ (owner' = owner /\ isDefault' = isDefault)

LEMMA TableStepIsSequential ==
  ASSUME NEW r \in Requests, TypeOK, TableStep(r)
  PROVE  Sequential!Next \/ UNCHANGED <<owner, isDefault>>
  <1>1. /\ Sequential!Rows = Live
        /\ \A u : Sequential!BookOf(u) = Book(u)
    BY DEF Sequential!Rows, Sequential!BookOf, Live, Book
  <1>2. ASSUME NEW u \in Users, NEW a \in AddressIds \ Live, NEW wanted \in BOOLEAN,
               Cardinality(Book(u)) < MaxAddresses, owner' = [owner EXCEPT ![a] = u],
               isDefault' = IF wanted THEN (isDefault \ Book(u)) \cup {a} ELSE isDefault
        PROVE  Sequential!Next
    <2>1. Sequential!Cardinality(Sequential!BookOf(u)) = Cardinality(Book(u))
      BY <1>1 DEF Sequential!Cardinality, Cardinality
    <2>2. Sequential!Add(u, a, wanted)
      BY <1>1, <1>2, <2>1 DEF Sequential!Add
    <2> QED BY <2>2 DEF Sequential!Next
  <1>3. ASSUME NEW a \in Live, owner' = owner,
               isDefault' = (isDefault \ Book(owner[a])) \cup {a}
        PROVE  Sequential!Next
    <2>1. Sequential!MakeDefault(a) /\ a \in AddressIds
      BY <1>1, <1>3 DEF Sequential!MakeDefault, Live
    <2> QED BY <2>1 DEF Sequential!Next
  <1>4. ASSUME NEW a \in isDefault, NEW f \in Live \ {a}, owner' = owner, owner[f] = owner[a],
               isDefault' = (isDefault \ {a}) \cup {f}
        PROVE  Sequential!Next
    <2>1. Sequential!GiveUp(a, f) /\ a \in AddressIds /\ f \in AddressIds
      BY <1>4 DEF Sequential!GiveUp, Live, TypeOK
    <2> QED BY <2>1 DEF Sequential!Next
  <1>5. ASSUME RemoveStep(r) PROVE Sequential!Next
    <2>1. Sequential!Remove(req[r].id) /\ req[r].id \in AddressIds
      <3>1. req[r].id \in Live => req[r].id \in AddressIds
        BY DEF Live
      <3> QED BY <1>1, <1>5, <3>1 DEF RemoveStep, Sequential!Remove
    <2> QED BY <2>1 DEF Sequential!Next
  <1> QED BY <1>2, <1>3, <1>4, <1>5 DEF TableStep, AddStep, MoveStep

LEMMA AloneStep ==
  ASSUME NEW r, Requests = {r}, Alone, Step(r)
  PROVE  TableStep(r) /\ SlotCurrent(req[r])'
  <1>0. /\ TypeOK /\ SlotCurrent(req[r]) /\ HandlerConsistent(req[r])
        /\ req[r] \in Request
    BY DEF Alone, IInv, HandlersConsistent, TypeOK
  <1>1. SlotCurrent(Idle)'
    BY DEF SlotCurrent, Idle
  <1>2. ASSUME Finish(r) PROVE SlotCurrent(req[r])'
    BY <1>0, <1>1, <1>2 DEF Finish, TypeOK
  <1>3. ASSUME UNCHANGED <<owner, isDefault>>
        PROVE  TableStep(r) /\ Live' = Live /\ \A u : Book(u)' = Book(u)
    BY <1>0, <1>3 DEF TableStep, Live, Book
  <1>4. ASSUME NEW v \in Users, NEW flag \in Flags, CreateCount(r, v, flag)
        PROVE  SlotCurrent(req[r])'
    <2> DEFINE q == [Idle EXCEPT !.op = "create", !.pc = "insert", !.user = v, !.flag = flag,
                                 !.first = (Book(v) = {})]
    <2>1. /\ q.op = "create" /\ q.pc = "insert" /\ q.fallback = None /\ q.user = v
          /\ q.first = (Book(v) = {})
          /\ Book(v)' = Book(v) /\ req'[r] = q
      BY <1>0, <1>3, <1>4 DEF CreateCount, Idle, TypeOK
    <2> HIDE DEF q
    <2> QED BY <1>0, <1>4, <2>1 DEF CreateCount, BelowLimit, SlotCurrent
  <1>5. ASSUME NEW a \in AddressIds, CreateInsert(r, a)
        PROVE  TableStep(r) /\ SlotCurrent(req[r])'
    <2> DEFINE u == req[r].user
    <2>1. /\ a \in AddressIds \ Live /\ u \in Users /\ req[r].op = "create"
          /\ owner' = [owner EXCEPT ![a] = u] /\ Finish(r)
      BY <1>0, <1>5 DEF CreateInsert, FreshIds, HandlerConsistent
    <2>2. isDefault' = IF req[r].flag = "set" THEN (isDefault \ Book(u)) \cup {a} ELSE isDefault
      BY <1>0, <1>5, <2>1 DEF CreateInsert, DefaultsKeptByCreate, SlotCurrent
    <2>3. Cardinality(Book(u)) < MaxAddresses
      BY <1>0, <2>1 DEF SlotCurrent
    <2>4. PICK wanted \in BOOLEAN : wanted = (req[r].flag = "set")
      OBVIOUS
    <2>5. AddStep
      BY <2>1, <2>2, <2>3, <2>4 DEF AddStep
    <2> QED BY <1>2, <2>1, <2>5 DEF TableStep
  <1>6. ASSUME NEW v \in Users, NEW a \in AddressIds, NEW flag \in Flags,
               UpdateFind(r, v, a, flag)
        PROVE  SlotCurrent(req[r])'
    <2> DEFINE pc == IF flag = "clear" /\ a \in isDefault THEN "fallback" ELSE "commit"
               q == [Idle EXCEPT !.op = "update", !.user = v, !.id = a, !.flag = flag, !.pc = pc]
    <2>1. /\ q.op = "update" /\ q.pc = pc /\ q.fallback = None /\ q.id = a
          /\ a \in Live /\ Live' = Live /\ req'[r] = q /\ isDefault' = isDefault
      BY <1>0, <1>3, <1>6 DEF UpdateFind, Idle, TypeOK, Live
    <2> HIDE DEF q
    <2> QED BY <2>1 DEF SlotCurrent
  <1>7. ASSUME NEW v \in Users, NEW a \in AddressIds, DeleteFind(r, v, a)
        PROVE  SlotCurrent(req[r])'
    <2> DEFINE pc == IF a \in isDefault THEN "fallback" ELSE "commit"
               q == [Idle EXCEPT !.op = "delete", !.user = v, !.id = a, !.pc = pc]
    <2>1. /\ q.op = "delete" /\ q.pc = pc /\ q.fallback = None /\ q.id = a
          /\ a \in Live /\ Live' = Live /\ req'[r] = q /\ isDefault' = isDefault
      BY <1>0, <1>3, <1>7 DEF DeleteFind, Idle, TypeOK
    <2> HIDE DEF q
    <2> QED BY <2>1 DEF SlotCurrent
  <1>8. ASSUME UpdateFallback(r) \/ DeleteFallback(r) PROVE SlotCurrent(req[r])'
    <2>1. /\ Live' = Live /\ isDefault' = isDefault /\ req[r].id \in Live
          /\ req[r].pc = "fallback" /\ req[r].id \in isDefault /\ req[r].fallback = None
      BY <1>0, <1>3, <1>8, FallbackOutcome DEF Alone, SlotCurrent, HandlerConsistent
    <2>2. ASSUME NEW f \in Live \ {req[r].id}, Chosen(r, f) PROVE SlotCurrent(req[r])'
      <3>1. f \in AddressIds \cup {None} /\ f # None
        BY DEF Live
      <3>2. /\ req'[r].pc = "commit" /\ req'[r].fallback = f /\ req'[r].op = req[r].op
            /\ req'[r].id = req[r].id
        BY <1>0, <2>2, <3>1, ChosenRecord
      <3> QED BY <1>0, <2>1, <3>1, <3>2, <1>8 DEF SlotCurrent, UpdateFallback, DeleteFallback
    <2>3. CASE DeleteFallback(r) /\ Chosen(r, None)
      <3>1. /\ req'[r].pc = "commit" /\ req'[r].fallback = None /\ req'[r].op = req[r].op
            /\ req'[r].id = req[r].id
        BY <1>0, <2>3, ChosenRecord
      <3>2. FallbackCandidates(req[r]) = {}
        <4>1. ASSUME NEW f \in FallbackCandidates(req[r]),
                     req' = [req EXCEPT ![r] = [[req[r] EXCEPT !.pc = "commit"] EXCEPT !.fallback = f]]
              PROVE  FALSE
          <5>1. req'[r].fallback = f
            BY <1>0, <4>1 DEF TypeOK, Request
          <5> QED BY <3>1, <4>1, <5>1 DEF FallbackCandidates, Live
        <4> QED BY <2>3, <4>1 DEF DeleteFallback
      <3>3. Live = {req[r].id}
        BY <2>1, <3>2 DEF FallbackCandidates
      <3> QED BY <2>1, <2>3, <3>1, <3>3 DEF SlotCurrent, DeleteFallback
    <2> QED BY <1>2, <1>8, <2>1, <2>2, <2>3, FallbackOutcome DEF Alone, UpdateFallback,
                                                             DeleteFallback
  <1>9. ASSUME UpdateCommit(r) PROVE TableStep(r) /\ SlotCurrent(req[r])'
    <2>1. /\ req[r].op = "update" /\ owner[req[r].id] = req[r].user /\ req[r].id \in Live
          /\ Finish(r) /\ owner' = owner /\ isDefault' = UpdatedDefaults(req[r])
      <3>1. RowsPresent(req[r]) /\ owner' = owner
        BY <1>0, <1>9 DEF UpdateCommit, SlotCurrent, RowsPresent
      <3> QED BY <1>0, <1>9, <3>1 DEF UpdateCommit, SlotCurrent, HandlerConsistent, Live
    <2>2. CASE req[r].flag = "set"
      <3>1. isDefault' = (isDefault \ Book(owner[req[r].id])) \cup {req[r].id}
        <4>1. UpdatedDefaults(req[r]) = (isDefault \ Book(req[r].user)) \cup {req[r].id}
          BY <1>0, <2>1, <2>2 DEF UpdatedDefaults, HandlerConsistent
        <4> QED BY <2>1, <4>1
      <3> QED BY <1>2, <2>1, <3>1 DEF TableStep, MoveStep
    <2>3. CASE req[r].flag # "set" /\ req[r].fallback # None
      <3>1. /\ isDefault' = (isDefault \ {req[r].id}) \cup {req[r].fallback}
            /\ req[r].id \in isDefault /\ req[r].fallback \in Live \ {req[r].id}
            /\ owner[req[r].fallback] = owner[req[r].id]
        BY <1>0, <2>1, <2>3 DEF UpdatedDefaults, SlotCurrent, HandlerConsistent, Live
      <3> QED BY <1>2, <2>1, <3>1 DEF TableStep, MoveStep
    <2>4. CASE req[r].flag # "set" /\ req[r].fallback = None
      BY <1>2, <2>1, <2>4 DEF UpdatedDefaults, TableStep
    <2> QED BY <2>2, <2>3, <2>4
  <1>10. ASSUME DeleteCommit(r) PROVE TableStep(r) /\ SlotCurrent(req[r])'
    <2>1. /\ req[r].op = "delete" /\ req[r].id \in Live /\ Finish(r)
          /\ owner' = [owner EXCEPT ![req[r].id] = None]
          /\ isDefault' = (isDefault \ {req[r].id}) \cup ({req[r].fallback} \ {None})
          /\ isDefault \subseteq Live
      <3>1. RowsPresent(req[r])
        BY <1>0, <1>10 DEF DeleteCommit, SlotCurrent, RowsPresent
      <3> QED BY <1>0, <1>10, <3>1 DEF DeleteCommit, SlotCurrent, TypeOK
    <2>2. RemoveStep(r)
      <3>1. CASE req[r].id \notin isDefault
        BY <1>0, <2>1, <3>1 DEF SlotCurrent, RemoveStep
      <3>2. CASE req[r].id \in isDefault /\ req[r].fallback # None
        BY <1>0, <2>1, <3>2 DEF SlotCurrent, RemoveStep
      <3>3. CASE req[r].id \in isDefault /\ req[r].fallback = None
        <4>1. Live = {req[r].id} /\ isDefault' = {}
          BY <1>0, <1>10, <2>1, <3>3 DEF SlotCurrent, DeleteCommit
        <4> QED BY <2>1, <3>3, <4>1 DEF RemoveStep
      <3> QED BY <3>1, <3>2, <3>3
    <2> QED BY <1>2, <2>1, <2>2 DEF TableStep
  <1>11. CASE Abort(r)
    BY <1>2, <1>3, <1>11 DEF Abort
  <1> QED BY <1>3, <1>4, <1>5, <1>6, <1>7, <1>8, <1>9, <1>10, <1>11
          DEF Step, CreateCount, UpdateFind, UpdateFallback, DeleteFind, DeleteFallback

LEMMA AloneInvariant ==
  ASSUME NEW r, Requests = {r}
  PROVE  /\ Init => Alone
         /\ Alone /\ [Next]_vars => Alone'
  <1>1. Init => Alone
    BY InitIInv DEF Init, Alone, SlotCurrent, Idle
  <1>2. ASSUME Alone, Next PROVE Alone'
    <2>1. Step(r)
      BY <1>2, NextIsStep
    <2>2. IInv'
      BY <1>2, IInvPreserved DEF Alone
    <2> QED BY <1>2, <2>1, <2>2, AloneStep DEF Alone
  <1>3. Alone /\ UNCHANGED vars => Alone'
    BY IInvPreserved DEF vars, Alone, SlotCurrent, Live, Book
  <1> QED BY <1>1, <1>2, <1>3

\* Every step of the only slot is a TableStep.
LEMMA AloneTableStep ==
  ASSUME NEW r, Requests = {r}, Alone, [Next]_vars
  PROVE  TypeOK /\ TableStep(r)
  <1>1. CASE Next
    BY <1>1, NextIsStep, AloneStep DEF Alone, IInv
  <1>2. CASE UNCHANGED vars
    BY <1>2 DEF vars, TableStep, Alone, IInv
  <1> QED BY <1>1, <1>2

LEMMA DefaultLostOnlyByRemove ==
  ASSUME NEW r \in Requests, TypeOK, TableStep(r), NEW u \in Users,
         Defaults(u) # {}, Book(u)' # {}, Defaults(u)' = {}
  PROVE  PromotesAcross(r) /\ owner[req[r].id] = u
  <1> USE DEF Defaults, Book
  <1>1. PICK d \in AddressIds : owner[d] = u /\ d \in isDefault
    OBVIOUS
  <1>2. ~AddStep
    BY <1>1 DEF AddStep, Live, TypeOK
  <1>3. ~MoveStep
    BY <1>1 DEF MoveStep, Live, TypeOK
  <1>4. RemoveStep(r)
    BY <1>1, <1>2, <1>3 DEF TableStep
  <1>5. d = req[r].id
    BY <1>1, <1>4 DEF RemoveStep, Live, TypeOK
  <1>6. Live # {d}
    <2>1. PICK b \in AddressIds : owner'[b] = u
      OBVIOUS
    <2> QED BY <1>1, <1>4, <1>5, <2>1 DEF RemoveStep, Live, TypeOK
  <1>7. /\ req[r].fallback \in Live \ {d}
        /\ isDefault' = (isDefault \ {d}) \cup {req[r].fallback}
    BY <1>1, <1>4, <1>5, <1>6 DEF RemoveStep
  <1>8. owner[req[r].fallback] # u
    BY <1>4, <1>5, <1>7 DEF RemoveStep, Live, TypeOK
  <1> QED BY <1>1, <1>4, <1>5, <1>7, <1>8 DEF PromotesAcross, RemoveStep, Live

\* One request at a time, whichever customers they are of: a book with rows
\* loses its default only to a row of another book.
THEOREM DefaultKeptOneAtATime ==
  ASSUME NEW slot, Requests = {slot}
  PROVE  Spec => DefaultLostOnlyAcrossBooks
  <1>1. ASSUME Alone, [Next]_vars, NEW u \in Users,
               Defaults(u) # {}, Book(u)' # {}, Defaults(u)' = {}
        PROVE  PromotesAcross(slot) /\ owner[req[slot].id] = u
    BY <1>1, AloneTableStep, DefaultLostOnlyByRemove
  <1>2. Alone /\ [Next]_vars =>
          [\A u \in Users : Defaults(u) # {} /\ Book(u)' # {} /\ Defaults(u)' = {} =>
             \E r \in Requests : PromotesAcross(r) /\ owner[req[r].id] = u]_vars
    BY <1>1
  <1>3. (Init => Alone) /\ (Alone /\ [Next]_vars => Alone')
    BY AloneInvariant
  <1>4. Spec => [][\A u \in Users : Defaults(u) # {} /\ Book(u)' # {} /\ Defaults(u)' = {} =>
             \E r \in Requests : PromotesAcross(r) /\ owner[req[r].id] = u]_vars
    BY <1>2, <1>3, PTL DEF Spec
  <1> QED BY <1>4 DEF DefaultLostOnlyAcrossBooks

LEMMA SecondDefaultOnlyByRemove ==
  ASSUME NEW r \in Requests, TypeOK, TableStep(r), NEW u \in Users,
         OneDefault(u), ~OneDefault(u)'
  PROVE  PromotesAcross(r) /\ owner[req[r].fallback] = u
  <1>1. PICK a, b \in AddressIds : /\ a # b /\ owner'[a] = u /\ owner'[b] = u
                                   /\ a \in isDefault' /\ b \in isDefault'
    <2>1. PICK a, b \in Defaults(u)' : a # b
      BY DEF OneDefault
    <2> QED BY <2>1 DEF Defaults, Book
  <1>2. \A c, d \in AddressIds :
          owner[c] = u /\ owner[d] = u /\ {c, d} \subseteq isDefault => c = d
    <2>1. \A c \in AddressIds : owner[c] = u /\ c \in isDefault => c \in Defaults(u)
      BY DEF Defaults, Book
    <2> QED BY <2>1 DEF OneDefault
  <1>3. ~AddStep
    <2> SUFFICES ASSUME NEW v \in Users, NEW n \in AddressIds \ Live,
                        owner' = [owner EXCEPT ![n] = v],
                        \/ isDefault' = (isDefault \ Book(v)) \cup {n}
                        \/ isDefault' = isDefault
                 PROVE  FALSE
      BY DEF AddStep
    <2>1. \A c \in AddressIds : owner'[c] = IF c = n THEN v ELSE owner[c]
      BY DEF TypeOK
    <2>2. n \notin isDefault
      BY DEF TypeOK
    <2> QED BY <1>1, <1>2, <2>1, <2>2 DEF Book
  <1>4. ~MoveStep
    <2> SUFFICES ASSUME MoveStep PROVE FALSE
      OBVIOUS
    <2>1. owner[a] = u /\ owner[b] = u
      BY <1>1 DEF MoveStep
    <2>2. ASSUME NEW d \in Live, isDefault' = (isDefault \ Book(owner[d])) \cup {d}
          PROVE  FALSE
      BY <1>1, <1>2, <2>1, <2>2 DEF Book, Live
    <2>3. ASSUME NEW d \in isDefault, NEW f \in Live \ {d}, owner[f] = owner[d],
                 isDefault' = (isDefault \ {d}) \cup {f}
          PROVE  FALSE
      BY <1>1, <1>2, <2>1, <2>3 DEF Live, TypeOK
    <2> QED BY <2>2, <2>3 DEF MoveStep
  <1>5. RemoveStep(r)
    BY <1>1, <1>2, <1>3, <1>4 DEF TableStep
  <1>6. /\ req[r].fallback \in Live \ {req[r].id} /\ req[r].id \in isDefault
        /\ isDefault' = (isDefault \ {req[r].id}) \cup {req[r].fallback}
    BY <1>1, <1>2, <1>5 DEF RemoveStep, Live, TypeOK
  <1>7. \A c \in AddressIds : owner'[c] = u => owner[c] = u /\ c # req[r].id
    BY <1>5 DEF RemoveStep, Live, TypeOK
  <1>8. owner[req[r].fallback] = u
    BY <1>1, <1>2, <1>6, <1>7
  <1>9. owner[req[r].id] # u
    BY <1>1, <1>2, <1>6, <1>7 DEF TypeOK, Live
  <1> QED BY <1>5, <1>6, <1>8, <1>9 DEF PromotesAcross, RemoveStep, Live

\* One request at a time, whichever customers they are of: a book gets a second
\* default only from a delete in another book.
THEOREM OneDefaultOneAtATime ==
  ASSUME NEW slot, Requests = {slot}
  PROVE  Spec => SecondDefaultOnlyAcrossBooks
  <1>1. ASSUME Alone, [Next]_vars, NEW u \in Users, OneDefault(u), ~OneDefault(u)'
        PROVE  PromotesAcross(slot) /\ owner[req[slot].fallback] = u
    BY <1>1, AloneTableStep, SecondDefaultOnlyByRemove
  <1>2. Alone /\ [Next]_vars =>
          [\A u \in Users : OneDefault(u) /\ ~OneDefault(u)' =>
             \E r \in Requests : PromotesAcross(r) /\ owner[req[r].fallback] = u]_vars
    BY <1>1
  <1>3. (Init => Alone) /\ (Alone /\ [Next]_vars => Alone')
    BY AloneInvariant
  <1>4. Spec => [][\A u \in Users : OneDefault(u) /\ ~OneDefault(u)' =>
             \E r \in Requests : PromotesAcross(r) /\ owner[req[r].fallback] = u]_vars
    BY <1>2, <1>3, PTL DEF Spec
  <1> QED BY <1>4 DEF SecondDefaultOnlyAcrossBooks

\* One request at a time, whichever customers they are of, the table implements
\* SequentialBooks: every request looks as if done at once.
THEOREM TableLooksSequential ==
  ASSUME NEW r, Requests = {r}
  PROVE  Spec => TableIsSequential
  <1>1. Init => Sequential!Init
    BY DEF Init, Sequential!Init
  <1>2. Alone /\ [Next]_vars => [Sequential!Next]_Sequential!vars
    <2>1. ASSUME Alone, [Next]_vars
          PROVE  Sequential!Next \/ UNCHANGED <<owner, isDefault>>
      BY <2>1, AloneTableStep, TableStepIsSequential
    <2> QED BY <2>1 DEF Sequential!vars
  <1> QED BY AloneInvariant, <1>1, <1>2, PTL DEF Spec, TableIsSequential, Sequential!Spec
=============================================================================
