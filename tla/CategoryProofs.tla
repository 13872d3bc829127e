--------------------------- MODULE CategoryProofs ---------------------------
(* Theorems about Category, for any categories, names, slugs, slots, readers *)
(* and cached lists, whatever requests name and wherever handlers die.       *)
EXTENDS Category, ReadThroughCacheProofs, FiniteSetTheorems, WellFoundedInduction

USE ConstantsAssumption, NoneIsNoRow

-----------------------------------------------------------------------------
(* The greatest of finitely many integers. *)

LEMMA GreatestExists ==
  ASSUME NEW S \in SUBSET Int, IsFiniteSet(S), S # {}
  PROVE  \E x \in S : \A y \in S : x >= y
  <1> DEFINE From(x) == {y \in S : y >= x}
             T == {F \in SUBSET S : \E x \in S : F = From(x)}
  <1>1. IsWellFoundedOn(StrictSubsetOrdering(S), FiniteSubsetsOf(S))
    BY FS_StrictSubsetOrderingWellFounded
  <1>2. T \subseteq FiniteSubsetsOf(S) /\ T # {}
    <2>1. \A x \in S : From(x) \in SUBSET S
      OBVIOUS
    <2>2. \A F \in SUBSET S : IsFiniteSet(F)
      BY FS_Subset
    <2>3. T \subseteq SUBSET S /\ T # {}
      <3>1. PICK x \in S : TRUE
        OBVIOUS
      <3>2. From(x) \in T
        BY <2>1
      <3> QED BY <3>2
    <2> HIDE DEF T
    <2> QED BY <2>2, <2>3 DEF FiniteSubsetsOf
  <1>3. PICK F \in T : \A G \in T : <<G, F>> \notin StrictSubsetOrdering(S)
    <2> HIDE DEF T
    <2> QED BY <1>1, <1>2, WFMin
  <1>4. PICK x \in S : F = From(x)
    BY <1>3
  <1>5. ASSUME NEW y \in S PROVE x >= y
    <2>1. SUFFICES ASSUME y > x PROVE FALSE
      OBVIOUS
    <2>2. From(y) \subseteq From(x) /\ x \in From(x) /\ x \notin From(y)
      <3>1. x \in Int /\ y \in Int /\ \A z \in S : z \in Int
        OBVIOUS
      <3>2. \A z \in S : z >= y => z >= x
        BY <2>1, <3>1
      <3>3. x >= x /\ ~(x >= y)
        BY <2>1, <3>1
      <3> QED BY <3>2, <3>3
    <2>3. <<From(y), From(x)>> \in StrictSubsetOrdering(S)
      <3>1. From(y) # From(x) /\ From(x) \in SUBSET S /\ From(y) \in SUBSET S
        BY <2>2
      <3>2. ASSUME NEW A \in SUBSET S, NEW B \in SUBSET S, A \subseteq B, A # B
            PROVE  <<A, B>> \in StrictSubsetOrdering(S)
        BY <3>2 DEF StrictSubsetOrdering
      <3> HIDE DEF From
      <3> QED BY <2>2, <3>1, <3>2
    <2>4. From(y) \in T
      OBVIOUS
    <2> QED BY <1>3, <1>4, <2>3, <2>4
  <1> QED BY <1>5

LEMMA GreatestIsMax ==
  ASSUME NEW S \in SUBSET Int, IsFiniteSet(S), S # {}
  PROVE  Max(S) \in S /\ \A y \in S : Max(S) >= y
  BY GreatestExists DEF Max

LEMMA TopPositionIsTop ==
  ASSUME NEW p, TypeOK
  PROVE  /\ TopPosition(p) \in Int
         /\ LiveSiblings(p) = {} => TopPosition(p) = 0
         /\ \A c \in LiveSiblings(p) : cat[c].position <= TopPosition(p)
         /\ LiveSiblings(p) # {} => \E c \in LiveSiblings(p) : cat[c].position = TopPosition(p)
  <1> DEFINE S == {cat[c].position : c \in LiveSiblings(p)}
  <1>1. CASE LiveSiblings(p) = {}
    BY <1>1 DEF TopPosition
  <1>2. CASE LiveSiblings(p) # {}
    <2>1. S \subseteq Int /\ S # {}
      <3>1. \A c \in LiveSiblings(p) : cat[c] \in Row
        BY DEF TypeOK, LiveSiblings, IsLive
      <3> QED BY <1>2, <3>1 DEF Row
    <2>2. IsFiniteSet(S)
      <3>1. IsFiniteSet(LiveSiblings(p))
        BY FS_Subset DEF LiveSiblings
      <3> DEFINE f == [c \in LiveSiblings(p) |-> cat[c].position]
      <3>2. f \in Surjection(LiveSiblings(p), S)
        BY DEF Surjection
      <3> QED BY <3>1, <3>2, FS_Surjection
    <2>3. TopPosition(p) = Max(S)
      BY <1>2 DEF TopPosition
    <2>4. Max(S) \in S /\ \A y \in S : Max(S) >= y
      BY <2>1, <2>2, GreatestIsMax
    <2> HIDE DEF S
    <2>5. TopPosition(p) \in Int /\ TopPosition(p) \in S /\ \A y \in S : y <= TopPosition(p)
      BY <2>1, <2>3, <2>4
    <2> QED BY <1>2, <2>5 DEF S
  <1> QED BY <1>1, <1>2

-----------------------------------------------------------------------------
(* The pieces a step writes are typed. *)

\* Rows are never removed, so what a handler found is still there.
HandlerNamed(q) ==
  /\ q.op = "create" => q.name \in Names /\ (q.parent # None => Exists(q.parent))
  /\ q.op \in {"update", "reorder", "activate", "delete"} => q.id \in CategoryIds /\ Exists(q.id)

\* The inductive invariant.
IInv == TypeOK /\ SlugsConsistent /\ \A r \in Requests : HandlerNamed(req[r])

LEMMA IdleTyped == Idle \in Handler /\ HandlerNamed(Idle)
  BY DEF Idle, Handler, HandlerNamed

LEMMA MovedTyped ==
  ASSUME NEW q \in Handler, NEW pc \in {"position", "range", "write", "delTree", "delSelect"}
  PROVE  [q EXCEPT !.pc = pc] \in Handler
  BY DEF Handler

LEMMA NewRowTyped ==
  ASSUME NEW q \in Handler, q.name \in Names
  PROVE  NewRow(q) \in Row
  BY DEF Handler, NewRow, Row

LEMMA ShiftedTyped ==
  ASSUME NEW q \in Handler, NEW x \in Int
  PROVE  Shifted(q, x) \in Int
  BY DEF Handler, Shifted

LEMMA UpdatedTyped ==
  ASSUME NEW q \in Handler, NEW row \in Row
  PROVE  Updated(q, row) \in Row
  <1>1. /\ q.name \in Names \cup {None} /\ q.position \in Int
        /\ q.name # None => SlugOf[q.name] \in Slugs
    BY DEF Handler
  <1> QED BY <1>1 DEF Updated, Row

LEMMA PlacedTyped ==
  ASSUME NEW row \in Row, NEW x \in Int
  PROVE  [row EXCEPT !.position = x] \in Row
  BY DEF Row

LEMMA DeletedTyped ==
  ASSUME NEW row \in Row
  PROVE  LET gone == [row EXCEPT !.deleted = TRUE, !.position = -1, !.slug = None, !.name = None]
         IN  gone \in Row /\ gone.name = None /\ gone.slug = None /\ gone.deleted
  <1> DEFINE one == [row EXCEPT !.deleted = TRUE]
             two == [one EXCEPT !.position = -1]
             three == [two EXCEPT !.slug = None]
  <1>1. one \in Row /\ one.deleted
    BY DEF Row
  <1> HIDE DEF one
  <1>2. two \in Row /\ two.deleted
    BY <1>1 DEF Row
  <1> HIDE DEF two
  <1>3. three \in Row /\ three.deleted /\ three.slug = None
    BY <1>2 DEF Row
  <1> HIDE DEF three
  <1> DEFINE four == [three EXCEPT !.name = None]
  <1>4. four \in Row /\ four.deleted /\ four.slug = None /\ four.name = None
    BY <1>3 DEF Row
  <1> QED BY <1>4 DEF one, two, three

LEMMA SwitchedTyped ==
  ASSUME NEW row \in Row
  PROVE  [row EXCEPT !.active = ~@] \in Row
  BY DEF Row

\* A slot goes on with q, and the categories stay or get the table t.
LEMMA HandlerStepTyped ==
  ASSUME TypeOK, NEW r \in Requests, NEW q \in Handler, req' = [req EXCEPT ![r] = q],
         NEW t \in [CategoryIds -> Row \cup {None}], cat' = t, CacheTypeOK'
  PROVE  TypeOK'
  BY DEF TypeOK

-----------------------------------------------------------------------------
(* What each table written looks like: typed, no row gone, slugs consistent. *)

Good(t) ==
  /\ t \in [CategoryIds -> Row \cup {None}]
  /\ \A c \in CategoryIds : Exists(c) => t[c] # None
  /\ \A c \in CategoryIds : t[c] # None =>
       /\ IF t[c].name = None THEN t[c].slug = None ELSE t[c].slug = SlugOf[t[c].name]
       /\ ~t[c].deleted => t[c].name # None
  /\ \A c, d \in CategoryIds :
       t[c] # None /\ t[d] # None /\ c # d /\ t[c].slug # None => t[c].slug # t[d].slug

LEMMA GoodIsConsistent ==
  ASSUME NEW t, Good(t), cat' = t
  PROVE  SlugsConsistent'
  BY DEF Good, SlugsConsistent, SlugTaken, Exists

LEMMA ConsistentIsGood ==
  ASSUME TypeOK, SlugsConsistent
  PROVE  Good(cat)
  BY DEF TypeOK, Good, SlugsConsistent, SlugTaken, Exists

\* A table that differs in one row, which has its name's slug, and a slug that
\* no other row has.
LEMMA OneRowGood ==
  ASSUME Good(cat), NEW c \in CategoryIds, NEW row \in Row, row # None,
         IF row.name = None THEN row.slug = None ELSE row.slug = SlugOf[row.name],
         ~row.deleted => row.name # None,
         row.slug # None => ~SlugTaken(row.slug, c)
  PROVE  Good([cat EXCEPT ![c] = row])
  BY DEF Good, SlugTaken, Exists

\* A table that only moves, switches or deletes rows.
LEMMA SlugsKeptGood ==
  ASSUME Good(cat), NEW t \in [CategoryIds -> Row \cup {None}],
         \A c \in CategoryIds :
           IF ~Exists(c) THEN t[c] = None
           ELSE /\ t[c] # None
                /\ \/ /\ t[c].name = cat[c].name /\ t[c].slug = cat[c].slug
                      /\ t[c].deleted = cat[c].deleted
                   \/ t[c].name = None /\ t[c].slug = None /\ t[c].deleted
  PROVE  Good(t)
  BY DEF Good, Exists

LEMMA CreatedGood ==
  ASSUME Good(cat), NEW q \in Handler, q.name \in Names, NEW c \in CategoryIds,
         ~SlugTaken(SlugOf[q.name], c)
  PROVE  Good([cat EXCEPT ![c] = NewRow(q)])
  <1> DEFINE row == NewRow(q)
  <1>1. /\ row \in Row /\ row.name = q.name /\ row.slug = SlugOf[q.name]
        /\ row.name # None /\ row # None
    BY NewRowTyped DEF NewRow
  <1> HIDE DEF row
  <1>2. row.slug # None => ~SlugTaken(row.slug, c)
    BY <1>1 DEF SlugTaken
  <1>3. /\ IF row.name = None THEN row.slug = None ELSE row.slug = SlugOf[row.name]
        /\ ~row.deleted => row.name # None
    BY <1>1
  <1>4. Good([cat EXCEPT ![c] = row])
    BY <1>1, <1>2, <1>3, OneRowGood
  <1> QED BY <1>4 DEF row

LEMMA UpdatedGood ==
  ASSUME TypeOK, Good(cat), NEW q \in Handler, q.id \in CategoryIds, Exists(q.id),
         q.name = None \/ ~SlugTaken(SlugOf[q.name], q.id)
  PROVE  Good(UpdatedTable(q))
  <1> DEFINE row == Updated(q, cat[q.id])
             moved(c) == [cat[c] EXCEPT !.position = Shifted(q, @)]
             t == UpdatedTable(q)
             u == [cat EXCEPT ![q.id] = row]
  <1>1. \A c \in CategoryIds : Exists(c) => cat[c] \in Row
    BY DEF TypeOK, Exists
  <1>2. /\ row \in Row /\ row # None /\ row.deleted = cat[q.id].deleted
        /\ row.name = IF q.name = None THEN cat[q.id].name ELSE q.name
        /\ row.slug = IF q.name = None THEN cat[q.id].slug ELSE SlugOf[q.name]
    <2>1. row \in Row
      BY <1>1, UpdatedTyped
    <2> QED BY <1>1, <2>1 DEF Updated, Row
  <1>3. \A c \in CategoryIds : Exists(c) =>
          /\ moved(c) \in Row /\ moved(c) # None /\ moved(c).name = cat[c].name
          /\ moved(c).slug = cat[c].slug /\ moved(c).deleted = cat[c].deleted
    <2> TAKE c \in CategoryIds
    <2> HAVE Exists(c)
    <2>1. cat[c].position \in Int
      BY <1>1 DEF Row
    <2>2. Shifted(q, cat[c].position) \in Int
      BY <2>1, ShiftedTyped
    <2>3. moved(c) \in Row
      BY <1>1, <2>2, PlacedTyped
    <2> QED BY <1>1, <2>3 DEF Row
  <1>4. Good(u)
    <2>1. IF row.name = None THEN row.slug = None ELSE row.slug = SlugOf[row.name]
      BY <1>2 DEF Good, Exists
    <2>2. ~row.deleted => row.name # None
      BY <1>2 DEF Good, Exists
    <2>3. row.slug # None => ~SlugTaken(row.slug, q.id)
      BY <1>2 DEF Good, Exists, SlugTaken
    <2> HIDE DEF row
    <2> QED BY <1>2, <2>1, <2>2, <2>3, OneRowGood
  <1>5. \A c \in CategoryIds :
          t[c] = IF ~Exists(c) THEN None ELSE IF c = q.id THEN row
                 ELSE IF q.position # 0 /\ cat[c].parent = q.parent THEN moved(c) ELSE cat[c]
    BY DEF UpdatedTable
  <1>6. t \in [CategoryIds -> Row \cup {None}]
    <2>1. t = [c \in CategoryIds |-> t[c]]
      BY DEF UpdatedTable
    <2> HIDE DEF t, row, moved
    <2> QED BY <1>1, <1>2, <1>3, <1>5, <2>1
  <1>7. \A c \in CategoryIds :
          /\ u[c] = None <=> t[c] = None
          /\ t[c] # None => t[c].name = u[c].name /\ t[c].slug = u[c].slug
                              /\ t[c].deleted = u[c].deleted
    <2>1. \A c \in CategoryIds : u[c] = IF c = q.id THEN row ELSE cat[c]
      BY DEF TypeOK
    <2> HIDE DEF t, u, row, moved
    <2> QED BY <1>2, <1>3, <1>5, <2>1 DEF Exists
  <1> HIDE DEF t, u, row, moved
  <1>8. Good(t)
    BY <1>4, <1>6, <1>7 DEF Good
  <1> QED BY <1>8 DEF t

-----------------------------------------------------------------------------
(* Every step keeps the invariant. *)

\* A slot goes on with q, and the table becomes t.
LEMMA Outcome ==
  ASSUME IInv, NEW r \in Requests, NEW q \in Handler, HandlerNamed(q),
         req' = [req EXCEPT ![r] = q], NEW t, Good(t), cat' = t, CacheTypeOK'
  PROVE  IInv'
  <1>1. TypeOK'
    BY DEF IInv, TypeOK, Good
  <1>2. SlugsConsistent'
    BY GoodIsConsistent
  <1>3. ASSUME NEW s \in Requests PROVE HandlerNamed(req[s])'
    <2>1. req'[s] = IF s = r THEN q ELSE req[s]
      BY DEF IInv, TypeOK
    <2>2. HandlerNamed(req[s])
      BY DEF IInv
    <2>3. \A c \in CategoryIds : Exists(c) => Exists(c)'
      BY DEF Good, Exists
    <2>4. q.parent # None => q.parent \in CategoryIds
      BY DEF Handler
    <2>5. req[s].parent # None => req[s].parent \in CategoryIds
      BY DEF IInv, TypeOK, Handler
    <2> QED BY <2>1, <2>2, <2>3, <2>4, <2>5 DEF HandlerNamed
  <1> QED BY <1>1, <1>2, <1>3 DEF IInv

\* A slot goes on with q, and nothing else changes.
LEMMA LocalOutcome ==
  ASSUME IInv, NEW r \in Requests, NEW q \in Handler, HandlerNamed(q),
         req' = [req EXCEPT ![r] = q], UNCHANGED <<cat, cache, reader>>
  PROVE  IInv'
  <1>1. Good(cat) /\ CacheTypeOK'
    BY ConsistentIsGood, UnchangedCacheTyped DEF IInv, TypeOK
  <1> QED BY <1>1, Outcome

LEMMA FinishOutcome ==
  ASSUME IInv, NEW r \in Requests, Finish(r), UNCHANGED <<cat, cache, reader>>
  PROVE  IInv'
  BY IdleTyped, LocalOutcome DEF Finish

\* A handler goes on to its next step.
LEMMA GotoIs ==
  ASSUME IInv, NEW r \in Requests,
         NEW pc \in {"position", "range", "write", "delTree", "delSelect"}, Goto(r, pc)
  PROVE  /\ [req[r] EXCEPT !.pc = pc] \in Handler /\ HandlerNamed([req[r] EXCEPT !.pc = pc])
         /\ req' = [req EXCEPT ![r] = [req[r] EXCEPT !.pc = pc]]
  <1>1. req[r] \in Handler /\ HandlerNamed(req[r])
    BY DEF IInv, TypeOK
  <1>2. /\ [req[r] EXCEPT !.pc = pc].op = req[r].op /\ [req[r] EXCEPT !.pc = pc].id = req[r].id
        /\ [req[r] EXCEPT !.pc = pc].name = req[r].name
        /\ [req[r] EXCEPT !.pc = pc].parent = req[r].parent
    BY <1>1 DEF Handler
  <1> QED BY <1>1, <1>2, MovedTyped DEF Goto, HandlerNamed

\* A table written, and the handler goes on to delete the lists or ends.
LEMMA CommitOutcome ==
  ASSUME IInv, NEW r \in Requests, NEW t, Good(t), Commit(t), Wrote(r) \/ Finish(r)
  PROVE  IInv'
  <1>1. cat' = t /\ CacheTypeOK'
    BY OutdateTyped DEF Commit, IInv, TypeOK
  <1>2. CASE Finish(r)
    BY <1>1, <1>2, IdleTyped, Outcome DEF Finish
  <1>3. CASE Wrote(r)
    <2> DEFINE q == [Idle EXCEPT !.pc = "delTree"]
    <2>1. q \in Handler /\ HandlerNamed(q) /\ req' = [req EXCEPT ![r] = q]
      BY <1>3, IdleTyped DEF Wrote, Handler, HandlerNamed, Idle
    <2> HIDE DEF q
    <2> QED BY <1>1, <2>1, Outcome
  <1> QED BY <1>2, <1>3

LEMMA ArriveKeeps ==
  ASSUME IInv, NEW r \in Requests, Arrive(r)
  PROVE  IInv'
  <1>1. ASSUME NEW q \in Handler, HandlerNamed(q), Start(r, q) PROVE IInv'
    BY <1>1, LocalOutcome DEF Start
  <1>2. ASSUME NEW n \in Names, NEW p \in CategoryIds \cup {None}, NEW act \in {"on", "off"},
               CreateFind(r, n, p, act)
        PROVE  IInv'
    <2> DEFINE q == [Idle EXCEPT !.op = "create", !.pc = "position", !.name = n,
                                 !.parent = p, !.active = act]
    <2>1. q \in Handler /\ q.op = "create" /\ q.name = n /\ q.parent = p
      BY IdleTyped DEF Handler
    <2>2. Start(r, q) /\ (p # None => Exists(p))
      BY <1>2 DEF CreateFind, Exists
    <2> HIDE DEF q
    <2> QED BY <1>1, <2>1, <2>2 DEF HandlerNamed
  <1>3. ASSUME NEW c \in CategoryIds, NEW n \in Names \cup {None},
               NEW act \in {"on", "off", "keep"}, NEW pos \in 0 .. MaxPosition,
               UpdateFind(r, c, n, act, pos)
        PROVE  IInv'
    <2> DEFINE q == [Idle EXCEPT !.op = "update", !.id = c, !.name = n, !.active = act,
                       !.position = pos, !.parent = cat[c].parent, !.from = cat[c].position,
                       !.pc = IF pos = 0 THEN "write" ELSE "range"]
    <2>1. Exists(c) /\ cat[c] \in Row
      BY <1>3 DEF UpdateFind, Named, IsLive, Exists, IInv, TypeOK
    <2>2. q \in Handler /\ q.op = "update" /\ q.id = c
      <3>1. cat[c].parent \in CategoryIds \cup {None} /\ cat[c].position \in Int /\ pos \in Int
        BY <2>1 DEF Row
      <3> QED BY <3>1, IdleTyped DEF Handler
    <2>3. Start(r, q)
      BY <1>3 DEF UpdateFind
    <2> HIDE DEF q
    <2> QED BY <1>1, <2>1, <2>2, <2>3 DEF HandlerNamed
  <1>4. ASSUME NEW c \in CategoryIds, NEW pos \in 1 .. MaxPosition, ReorderFind(r, c, pos)
        PROVE  IInv'
    <2> DEFINE q == [Idle EXCEPT !.op = "reorder", !.pc = "range", !.id = c, !.position = pos,
                       !.parent = cat[c].parent, !.from = cat[c].position]
    <2>1. Exists(c) /\ cat[c] \in Row
      BY <1>4 DEF ReorderFind, IsLive, Exists, IInv, TypeOK
    <2>2. q \in Handler /\ q.op = "reorder" /\ q.id = c
      <3>1. cat[c].parent \in CategoryIds \cup {None} /\ cat[c].position \in Int /\ pos \in Int
        BY <2>1 DEF Row
      <3> QED BY <3>1, IdleTyped DEF Handler
    <2>3. Start(r, q)
      BY <1>4 DEF ReorderFind
    <2> HIDE DEF q
    <2> QED BY <1>1, <2>1, <2>2, <2>3 DEF HandlerNamed
  <1>5. ASSUME NEW c \in CategoryIds, NEW act \in {"on", "off"}, SetActiveFind(r, c, act)
        PROVE  IInv'
    <2> DEFINE q == [Idle EXCEPT !.op = "activate", !.pc = "write", !.id = c, !.active = act]
    <2>1. q \in Handler /\ q.op = "activate" /\ q.id = c
      BY IdleTyped DEF Handler
    <2>2. Start(r, q) /\ Exists(c)
      BY <1>5 DEF SetActiveFind, Named, IsLive, Exists
    <2> HIDE DEF q
    <2> QED BY <1>1, <2>1, <2>2 DEF HandlerNamed
  <1>6. ASSUME NEW c \in CategoryIds, DeleteFind(r, c) PROVE IInv'
    <2> DEFINE q == [Idle EXCEPT !.op = "delete", !.pc = "write", !.id = c]
    <2>1. q \in Handler /\ q.op = "delete" /\ q.id = c
      BY IdleTyped DEF Handler
    <2>2. Start(r, q) /\ Exists(c)
      BY <1>6 DEF DeleteFind, IsLive, Exists
    <2> HIDE DEF q
    <2> QED BY <1>1, <2>1, <2>2 DEF HandlerNamed
  <1> QED BY <1>2, <1>3, <1>4, <1>5, <1>6 DEF Arrive

LEMMA HandlerStepKeeps ==
  ASSUME IInv, NEW r \in Requests, HandlerStep(r)
  PROVE  IInv'
  <1>0. req[r] \in Handler /\ HandlerNamed(req[r]) /\ TypeOK /\ Good(cat)
    BY ConsistentIsGood DEF IInv, TypeOK
  <1>1. CASE CreatePosition(r)
    <2> DEFINE q == [req[r] EXCEPT !.pc = "write", !.position = TopPosition(req[r].parent) + 1]
    <2>1. TopPosition(req[r].parent) + 1 \in Int
      BY <1>0, TopPositionIsTop
    <2>2. /\ q \in Handler /\ q.op = req[r].op /\ q.name = req[r].name /\ q.id = req[r].id
          /\ q.parent = req[r].parent
      BY <1>0, <2>1 DEF Handler
    <2>3. HandlerNamed(q)
      BY <1>0, <2>2 DEF HandlerNamed
    <2>4. req' = [req EXCEPT ![r] = q] /\ UNCHANGED <<cat, cache, reader>>
      BY <1>1 DEF CreatePosition
    <2> HIDE DEF q
    <2> QED BY <2>2, <2>3, <2>4, LocalOutcome
  <1>2. ASSUME NEW c \in CategoryIds, WriteCreate(r, c) PROVE IInv'
    <2>1. CASE SlugTaken(SlugOf[req[r].name], c)
      BY <1>2, <2>1, FinishOutcome DEF WriteCreate
    <2>2. CASE ~SlugTaken(SlugOf[req[r].name], c)
      <3>1. req[r].name \in Names
        BY <1>0, <1>2 DEF WriteCreate, HandlerNamed
      <3>2. Good([cat EXCEPT ![c] = NewRow(req[r])])
        BY <1>0, <2>2, <3>1, CreatedGood
      <3> QED BY <1>2, <2>2, <3>2, CommitOutcome DEF WriteCreate
    <2> QED BY <2>1, <2>2
  <1>3. CASE CheckRange(r)
    <2>1. CASE Finish(r)
      BY <1>3, <2>1, FinishOutcome DEF CheckRange
    <2>2. CASE Goto(r, "write")
      <3> DEFINE q == [req[r] EXCEPT !.pc = "write"]
      <3>1. q \in Handler /\ HandlerNamed(q) /\ req' = [req EXCEPT ![r] = q]
        BY <2>2, GotoIs
      <3>2. UNCHANGED <<cat, cache, reader>>
        BY <1>3 DEF CheckRange
      <3> HIDE DEF q
      <3> QED BY <3>1, <3>2, LocalOutcome
    <2> QED BY <1>3, <2>1, <2>2 DEF CheckRange
  <1>4. CASE WriteUpdate(r)
    <2>1. CASE Finish(r) /\ UNCHANGED <<cat, cache, reader>>
      BY <2>1, FinishOutcome
    <2>2. CASE /\ req[r].name = None \/ ~SlugTaken(SlugOf[req[r].name], req[r].id)
               /\ Commit(UpdatedTable(req[r])) /\ Wrote(r)
      <3>1. req[r].id \in CategoryIds /\ Exists(req[r].id)
        BY <1>0, <1>4 DEF WriteUpdate, HandlerNamed
      <3>2. Good(UpdatedTable(req[r]))
        BY <1>0, <2>2, <3>1, UpdatedGood
      <3> QED BY <2>2, <3>2, CommitOutcome
    <2> QED BY <1>4, <2>1, <2>2 DEF WriteUpdate
  <1>5. CASE WriteActive(r)
    <2>1. CASE Finish(r) /\ UNCHANGED <<cat, cache, reader>>
      BY <2>1, FinishOutcome
    <2>2. CASE Commit([cat EXCEPT ![req[r].id].active = ~@]) /\ Wrote(r)
      <3> DEFINE c == req[r].id
                 row == [cat[c] EXCEPT !.active = ~@]
                 t == [cat EXCEPT ![c] = row]
      <3>1. c \in CategoryIds /\ cat[c] \in Row
        BY <1>0, <1>5 DEF WriteActive, HandlerNamed, Exists, TypeOK
      <3>2. /\ row \in Row /\ row.name = cat[c].name /\ row.slug = cat[c].slug
            /\ row.deleted = cat[c].deleted
        BY <3>1, SwitchedTyped DEF Row
      <3>3. Good(t)
        <4>1. t \in [CategoryIds -> Row \cup {None}]
          BY <1>0, <3>2 DEF TypeOK
        <4>2. \A d \in CategoryIds : t[d] = IF d = c THEN row ELSE cat[d]
          BY <1>0 DEF TypeOK
        <4> HIDE DEF row, t, c
        <4> QED BY <1>0, <3>1, <3>2, <4>1, <4>2, SlugsKeptGood DEF Exists
      <3> QED BY <2>2, <3>3, CommitOutcome
    <2> QED BY <1>5, <2>1, <2>2 DEF WriteActive
  <1>6. CASE WriteDelete(r)
    <2> DEFINE matched == MatchedByDelete(req[r].id)
               gone(c) == [cat[c] EXCEPT !.deleted = TRUE, !.position = -1,
                                         !.slug = None, !.name = None]
               t == [c \in CategoryIds |-> IF c \notin matched THEN cat[c] ELSE gone(c)]
    <2>1. CASE Finish(r) /\ UNCHANGED <<cat, cache, reader>>
      BY <2>1, FinishOutcome
    <2>2. CASE Commit(t) /\ Wrote(r)
      <3>1. \A c \in matched : c \in CategoryIds /\ cat[c] \in Row
        BY <1>0 DEF MatchedByDelete, IsLive, TypeOK
      <3>2. \A c \in matched :
              /\ gone(c) \in Row /\ gone(c).name = None /\ gone(c).slug = None
              /\ gone(c).deleted
        BY <3>1, DeletedTyped
      <3>3. Good(t)
        <4>1. t \in [CategoryIds -> Row \cup {None}]
          BY <1>0, <3>2 DEF TypeOK
        <4>2. \A d \in CategoryIds : t[d] = IF d \notin matched THEN cat[d] ELSE gone(d)
          OBVIOUS
        <4> HIDE DEF gone, t, matched
        <4> QED BY <1>0, <3>1, <3>2, <4>1, <4>2, SlugsKeptGood DEF Exists
      <3> QED BY <2>2, <3>3, CommitOutcome
    <2> QED BY <1>6, <2>1, <2>2 DEF WriteDelete
  <1>7. CASE DelTree(r)
    <2> DEFINE q == [req[r] EXCEPT !.pc = "delSelect"]
    <2>1. q \in Handler /\ HandlerNamed(q) /\ req' = [req EXCEPT ![r] = q]
      BY <1>7, GotoIs DEF DelTree
    <2>2. CacheTypeOK' /\ cat' = cat
      BY <1>0, <1>7, DelTyped DEF DelTree, TypeOK
    <2> HIDE DEF q
    <2> QED BY <1>0, <2>1, <2>2, Outcome
  <1>8. CASE DelSelect(r)
    <2>1. CacheTypeOK' /\ cat' = cat
      BY <1>0, <1>8, DelTyped DEF DelSelect, TypeOK
    <2> QED BY <1>0, <1>8, <2>1, IdleTyped, Outcome DEF DelSelect, Finish
  <1>9. CASE Abort(r)
    BY <1>9, FinishOutcome DEF Abort
  <1> QED BY <1>1, <1>2, <1>3, <1>4, <1>5, <1>6, <1>7, <1>8, <1>9 DEF HandlerStep

LEMMA IInvPreserved == IInv /\ [Next]_vars => IInv'
  <1>1. ASSUME IInv, UNCHANGED <<cat, req>>, CacheTypeOK' PROVE IInv'
    BY <1>1 DEF IInv, TypeOK, SlugsConsistent, SlugTaken, HandlerNamed, Exists
  <1>2. ASSUME IInv, NEW p \in Readers,
               GetPublicCategory(p) \/ SelectCategory(p) \/ ReaderStep(p)
        PROVE  CacheTypeOK'
    BY <1>2, GetMissTyped, ReaderStepTyped DEF GetPublicCategory, SelectCategory, IInv, TypeOK
  <1>3. ASSUME IInv, NEW k \in Keys, Expire(k) PROVE CacheTypeOK'
    BY <1>3, ExpireTyped DEF IInv, TypeOK
  <1>4. ASSUME IInv, UNCHANGED vars PROVE IInv'
    BY <1>1, <1>4, UnchangedCacheTyped DEF vars, IInv, TypeOK
  <1> QED BY <1>1, <1>2, <1>3, <1>4, ArriveKeeps, HandlerStepKeeps DEF Next

LEMMA InitIInv == Init => IInv
  <1> SUFFICES ASSUME Init PROVE IInv
    OBVIOUS
  <1>1. CacheTypeOK
    <2>1. "tree" \in Keys
      OBVIOUS
    <2> QED BY <2>1, CacheInitTyped DEF Init
  <1> QED BY <1>1, IdleTyped DEF Init, IInv, TypeOK, SlugsConsistent, Exists, HandlerNamed, Idle

LEMMA InvariantHolds == Spec => []IInv
  BY InitIInv, IInvPreserved, PTL DEF Spec

\* The table, the lists and every handler's locals are typed: a handler that
\* goes on after its reads still finds the row it read.
THEOREM TypeCorrect == Spec => []TypeOK
  <1>1. IInv => TypeOK
    BY DEF IInv
  <1> QED BY InvariantHolds, <1>1, PTL

\* A row's slug follows its name and is no other row's, whatever creates,
\* renames and deletes interleave.
THEOREM SlugsFollowNames == Spec => []SlugsConsistent
  <1>1. IInv => SlugsConsistent
    BY DEF IInv
  <1> QED BY InvariantHolds, <1>1, PTL

\* No two live categories have one name: the check by name races, but one name
\* has one slug and the slug is unique.
THEOREM LiveNamesDiffer == Spec => []LiveNamesUnique
  <1>1. IInv => LiveNamesUnique
    <2> SUFFICES ASSUME IInv, NEW c \in CategoryIds, NEW d \in CategoryIds, IsLive(c), IsLive(d),
                        cat[c].name = cat[d].name
                 PROVE  c = d
      BY DEF LiveNamesUnique
    <2>1. /\ cat[c].name # None /\ cat[c].slug = SlugOf[cat[c].name]
          /\ cat[d].slug = SlugOf[cat[d].name] /\ cat[c] \in Row
      BY DEF IInv, TypeOK, SlugsConsistent, IsLive, Exists
    <2>2. SlugOf[cat[c].name] # None
      BY <2>1 DEF Row
    <2> QED BY <2>1, <2>2 DEF IInv, SlugsConsistent, SlugTaken, IsLive, Exists
  <1> QED BY InvariantHolds, <1>1, PTL

-----------------------------------------------------------------------------
(* One admin request at a time, editing live categories: what the handler   *)
(* in the slot read is still so when it writes.                             *)

SlotCurrent(q) ==
  /\ q.pc = "range" => q.op \in {"update", "reorder"}
  /\ q.pc = "position" => q.op = "create"
  /\ q.op = "create" /\ q.pc = "write" => q.position = TopPosition(q.parent) + 1
  /\ q.op \in {"update", "reorder"} /\ q.pc \in {"range", "write"} =>
       /\ IsLive(q.id) /\ q.from = cat[q.id].position /\ q.parent = cat[q.id].parent
       /\ q.position >= 0
  /\ q.op = "delete" /\ q.pc = "write" => IsLive(q.id)

LiveIn(t, c) == t[c] # None /\ ~t[c].deleted
Orderly(t) ==
  /\ \A c, d \in CategoryIds :
       LiveIn(t, c) /\ LiveIn(t, d) /\ t[c].parent = t[d].parent /\ t[c].position = t[d].position
         => c = d
  /\ \A c \in CategoryIds : LiveIn(t, c) => t[c].position >= 1

Alone == IInv /\ Orderly(cat) /\ \A r \in Requests : SlotCurrent(req[r])

LEMMA OrderlyIs ==
  Orderly(cat) => PositionsDistinct
  BY DEF Orderly, LiveIn, PositionsDistinct, IsLive

LEMMA TopStays ==
  ASSUME UNCHANGED cat, NEW p
  PROVE  TopPosition(p)' = TopPosition(p)
  BY DEF TopPosition, LiveSiblings, IsLive

LEMMA SlotStays ==
  ASSUME UNCHANGED cat, NEW q, SlotCurrent(q)
  PROVE  SlotCurrent(q)'
  BY TopStays DEF SlotCurrent, IsLive

\* A new row goes behind its live siblings.
LEMMA CreatedOrderly ==
  ASSUME TypeOK, Orderly(cat), NEW q \in Handler, q.name \in Names, NEW c \in CategoryIds,
         ~Exists(c), q.position = TopPosition(q.parent) + 1
  PROVE  Orderly([cat EXCEPT ![c] = NewRow(q)])
  <1> DEFINE t == [cat EXCEPT ![c] = NewRow(q)]
             top == TopPosition(q.parent)
  <1>1. /\ NewRow(q).parent = q.parent /\ NewRow(q).position = top + 1
        /\ ~NewRow(q).deleted /\ NewRow(q) # None
    BY NewRowTyped DEF NewRow
  <1>2. \A d \in CategoryIds : t[d] = IF d = c THEN NewRow(q) ELSE cat[d]
    BY DEF TypeOK
  <1>3. /\ top \in Int /\ top >= 0
        /\ \A d \in CategoryIds : LiveIn(cat, d) /\ cat[d].parent = q.parent =>
              cat[d].position \in Int /\ cat[d].position <= top
    <2>1. \A d \in CategoryIds : LiveIn(cat, d) => cat[d] \in Row
      BY DEF TypeOK, LiveIn
    <2>2. \A d \in CategoryIds : LiveIn(cat, d) => cat[d].position \in Int /\ cat[d].position >= 1
      BY <2>1 DEF Row, Orderly
    <2>3. \A d : d \in LiveSiblings(q.parent) <=>
                    d \in CategoryIds /\ LiveIn(cat, d) /\ cat[d].parent = q.parent
      BY DEF LiveSiblings, IsLive, LiveIn
    <2> HIDE DEF top
    <2>4. /\ top \in Int
          /\ LiveSiblings(q.parent) = {} => top = 0
          /\ \A d \in LiveSiblings(q.parent) : cat[d].position <= top
      BY TopPositionIsTop DEF top
    <2> QED BY <2>2, <2>3, <2>4
  <1>4. ~LiveIn(cat, c)
    BY DEF LiveIn, Exists
  <1>5. \A d \in CategoryIds : LiveIn(t, d) <=> d = c \/ LiveIn(cat, d)
    BY <1>1, <1>2, <1>4 DEF LiveIn
  <1> HIDE DEF t, top
  <1>6. \A a, b \in CategoryIds :
          LiveIn(t, a) /\ LiveIn(t, b) /\ t[a].parent = t[b].parent /\ t[a].position = t[b].position
            => a = b
    BY <1>1, <1>2, <1>3, <1>5 DEF Orderly
  <1>7. \A a \in CategoryIds : LiveIn(t, a) => t[a].position >= 1
    BY <1>1, <1>2, <1>3, <1>5 DEF Orderly
  <1>8. Orderly(t)
    BY <1>6, <1>7 DEF Orderly
  <1> QED BY <1>8 DEF t

\* A table whose live rows were live and keep their parents and places.
LEMMA ThinnedOrderly ==
  ASSUME TypeOK, Orderly(cat), NEW t,
         \A c \in CategoryIds : LiveIn(t, c) =>
           LiveIn(cat, c) /\ t[c].parent = cat[c].parent /\ t[c].position = cat[c].position
  PROVE  Orderly(t)
  BY DEF Orderly

\* Moving a category between two live siblings shifts those in between by one.
LEMMA ShiftKeepsPlaces ==
  ASSUME NEW q, q.position \in Int, q.from \in Int, q.position >= 1, q.from >= 1,
         NEW x \in Int, NEW y \in Int, x >= 1, y >= 1, x # q.from, y # q.from
  PROVE  /\ Shifted(q, x) \in Int /\ Shifted(q, x) >= 1 /\ Shifted(q, x) # q.position
         /\ Shifted(q, x) = Shifted(q, y) => x = y
  BY DEF Shifted

LEMMA UpdatedOrderly ==
  ASSUME TypeOK, Orderly(cat), NEW q \in Handler, q.id \in CategoryIds, IsLive(q.id),
         q.from = cat[q.id].position, q.parent = cat[q.id].parent, q.position >= 0
  PROVE  Orderly(UpdatedTable(q))
  <1> DEFINE t == UpdatedTable(q)
             moves(c) == q.position # 0 /\ cat[c].parent = q.parent
             place(c) == IF moves(c) THEN IF c = q.id THEN q.position
                                         ELSE Shifted(q, cat[c].position)
                         ELSE cat[c].position
  <1>1. \A c \in CategoryIds : LiveIn(cat, c) => cat[c] \in Row
    BY DEF TypeOK, LiveIn
  <1>2. LiveIn(cat, q.id) /\ q.position \in Int
    BY DEF IsLive, LiveIn, Handler
  <1>3. \A c \in CategoryIds : cat[c] # None =>
          /\ t[c] # None /\ t[c].deleted = cat[c].deleted
          /\ t[c].parent = cat[c].parent /\ t[c].position = place(c)
    <2> SUFFICES ASSUME NEW c \in CategoryIds, cat[c] # None
                 PROVE  /\ t[c] # None /\ t[c].deleted = cat[c].deleted
                        /\ t[c].parent = cat[c].parent /\ t[c].position = place(c)
      OBVIOUS
    <2>1. cat[c] \in Row /\ cat[c].position \in Int
      BY DEF TypeOK, Row
    <2>2. CASE c = q.id
      <3>1. t[c] = Updated(q, cat[c]) /\ Updated(q, cat[c]) \in Row
        BY <2>1, <2>2, UpdatedTyped DEF UpdatedTable, Exists
      <3>2. /\ Updated(q, cat[c]).deleted = cat[c].deleted
            /\ Updated(q, cat[c]).parent = cat[c].parent
            /\ Updated(q, cat[c]).position = IF q.position = 0 THEN cat[c].position ELSE q.position
        BY <2>1 DEF Updated, Row
      <3> QED BY <2>2, <3>1, <3>2
    <2>3. CASE c # q.id /\ moves(c)
      <3> DEFINE row == [cat[c] EXCEPT !.position = Shifted(q, @)]
      <3>1. t[c] = row
        BY <2>3 DEF UpdatedTable, Exists
      <3>2. row \in Row
        BY <2>1, ShiftedTyped, PlacedTyped
      <3>3. /\ row.deleted = cat[c].deleted /\ row.parent = cat[c].parent
            /\ row.position = Shifted(q, cat[c].position)
        BY <2>1 DEF Row
      <3> HIDE DEF row, t
      <3> QED BY <2>3, <3>1, <3>2, <3>3
    <2>4. CASE c # q.id /\ ~moves(c)
      <3>1. t[c] = cat[c]
        BY <2>4 DEF UpdatedTable, Exists
      <3> QED BY <2>4, <3>1
    <2> QED BY <2>2, <2>3, <2>4
  <1>4. \A c \in CategoryIds : cat[c] = None => t[c] = None
    BY DEF UpdatedTable, Exists
  <1>5. \A c \in CategoryIds : LiveIn(t, c) <=> LiveIn(cat, c)
    BY <1>3, <1>4 DEF LiveIn
  <1>6. \A c \in CategoryIds : LiveIn(cat, c) => cat[c].position \in Int /\ cat[c].position >= 1
    BY <1>1 DEF Row, Orderly
  <1>7. ASSUME NEW c \in CategoryIds, LiveIn(cat, c), moves(c), c # q.id
        PROVE  cat[c].position # q.from
    BY <1>2, <1>7 DEF Orderly
  <1>8. \A c \in CategoryIds : LiveIn(cat, c) => place(c) >= 1
    <2> SUFFICES ASSUME NEW c \in CategoryIds, LiveIn(cat, c) PROVE place(c) >= 1
      OBVIOUS
    <2>1. CASE moves(c) /\ c # q.id
      <3>1. Shifted(q, cat[c].position) >= 1
        BY <1>2, <1>6, <1>7, <2>1, ShiftKeepsPlaces
      <3> QED BY <2>1, <3>1
    <2> QED BY <1>2, <1>6, <2>1
  <1>9. ASSUME NEW c \in CategoryIds, NEW d \in CategoryIds, LiveIn(cat, c), LiveIn(cat, d),
               cat[c].parent = cat[d].parent, place(c) = place(d)
        PROVE  c = d
    <2>1. CASE ~moves(c)
      BY <1>9, <2>1 DEF Orderly
    <2>2. CASE moves(c) /\ (c = q.id \/ d = q.id)
      <3>1. ASSUME NEW e \in CategoryIds, LiveIn(cat, e), moves(e), e # q.id
            PROVE  place(e) # q.position
        BY <1>2, <1>6, <1>7, <3>1, ShiftKeepsPlaces
      <3>2. moves(d) /\ (c = q.id => place(c) = q.position) /\ (d = q.id => place(d) = q.position)
        BY <1>9, <2>2
      <3> HIDE DEF place, moves
      <3> QED BY <1>9, <2>2, <3>1, <3>2
    <2>3. CASE moves(c) /\ c # q.id /\ d # q.id
      <3>1. cat[c].position # q.from /\ cat[d].position # q.from
        BY <1>7, <1>9, <2>3
      <3>2. cat[c].position = cat[d].position
        BY <1>2, <1>6, <1>9, <2>3, <3>1, ShiftKeepsPlaces
      <3> QED BY <1>9, <3>2 DEF Orderly
    <2> QED BY <2>1, <2>2, <2>3
  <1> HIDE DEF t, place
  <1>10. Orderly(t)
    BY <1>3, <1>5, <1>8, <1>9 DEF Orderly, LiveIn
  <1> QED BY <1>10 DEF t

\* A delete that goes through matches one row, which has no live children.
LEMMA OneMatched ==
  ASSUME NEW i \in CategoryIds, IsLive(i), ~(Cardinality(MatchedByDelete(i)) > 1)
  PROVE  MatchedByDelete(i) = {i}
  <1> DEFINE matched == MatchedByDelete(i)
  <1>1. IsFiniteSet(matched) /\ i \in matched
    BY FS_Subset DEF MatchedByDelete
  <1> HIDE DEF matched
  <1>2. Cardinality(matched) \in Nat /\ Cardinality(matched) # 0 /\ ~(Cardinality(matched) > 1)
    BY <1>1, FS_CardinalityType, FS_EmptySet DEF matched
  <1>3. Cardinality(matched) = 1
    BY <1>2
  <1>4. \E x : matched = {x}
    BY <1>1, <1>3, FS_Singleton
  <1> QED BY <1>1, <1>4 DEF matched

LEMMA DeletedOrderly ==
  ASSUME TypeOK, Orderly(cat), NEW i \in CategoryIds, IsLive(i),
         ~(Cardinality(MatchedByDelete(i)) > 1),
         NEW t, \A c \in CategoryIds : IF c \in MatchedByDelete(i) THEN t[c].deleted
                                                                  ELSE t[c] = cat[c]
  PROVE  Orderly(t)
  <1>1. \A c \in CategoryIds : IF c = i THEN t[c].deleted ELSE t[c] = cat[c]
    BY OneMatched
  <1> QED BY <1>1, ThinnedOrderly DEF LiveIn

LEMMA SwitchedOrderly ==
  ASSUME TypeOK, Orderly(cat), NEW i \in CategoryIds, Exists(i),
         NEW t, t = [cat EXCEPT ![i].active = ~@]
  PROVE  Orderly(t)
  <1> DEFINE row == [cat[i] EXCEPT !.active = ~@]
  <1>1. /\ row \in Row /\ row.deleted = cat[i].deleted /\ row.parent = cat[i].parent
        /\ row.position = cat[i].position /\ cat[i] # None /\ row # None
    <2>1. cat[i] \in Row
      BY DEF TypeOK, Exists
    <2> QED BY <2>1, SwitchedTyped DEF Row
  <1>2. \A c \in CategoryIds : t[c] = IF c = i THEN row ELSE cat[c]
    BY DEF TypeOK
  <1> HIDE DEF row
  <1>3. \A c \in CategoryIds : LiveIn(t, c) <=> LiveIn(cat, c)
    BY <1>1, <1>2 DEF LiveIn
  <1> QED BY <1>1, <1>2, <1>3, ThinnedOrderly

LEMMA AloneHandlerStep ==
  ASSUME NEW r, Requests = {r}, Alone, HandlerStep(r)
  PROVE  Orderly(cat)' /\ SlotCurrent(req[r])'
  <1>0. /\ TypeOK /\ Orderly(cat) /\ SlotCurrent(req[r]) /\ HandlerNamed(req[r])
        /\ req[r] \in Handler /\ r \in Requests
    BY DEF Alone, IInv, TypeOK
  <1>1. SlotCurrent(Idle)'
    BY DEF SlotCurrent, Idle
  <1>2. ASSUME Finish(r) PROVE SlotCurrent(req[r])'
    BY <1>0, <1>1, <1>2 DEF Finish, TypeOK
  <1>3. ASSUME UNCHANGED cat PROVE Orderly(cat)'
    BY <1>0, <1>3
  <1>4. ASSUME Wrote(r) \/ Goto(r, "delSelect") PROVE SlotCurrent(req[r])'
    <2>1. req'[r].pc \in {"delTree", "delSelect"}
      BY <1>0, <1>4 DEF Goto, Wrote, Idle, TypeOK, Handler
    <2> QED BY <2>1 DEF SlotCurrent
  <1>5. CASE CreatePosition(r)
    <2>1. /\ req'[r].op = req[r].op /\ req'[r].pc = "write" /\ req'[r].parent = req[r].parent
          /\ req'[r].position = TopPosition(req[r].parent) + 1 /\ UNCHANGED cat
      BY <1>0, <1>5 DEF CreatePosition, TypeOK, Handler
    <2>2. req[r].op = "create"
      BY <1>0, <1>5 DEF SlotCurrent, CreatePosition
    <2> QED BY <1>3, <2>1, <2>2, TopStays DEF SlotCurrent, IsLive
  <1>6. ASSUME NEW c \in CategoryIds, WriteCreate(r, c) PROVE Orderly(cat)' /\ SlotCurrent(req[r])'
    <2>1. CASE Finish(r) /\ UNCHANGED <<cat, cache, reader>>
      BY <1>2, <1>3, <2>1
    <2>2. CASE Commit([cat EXCEPT ![c] = NewRow(req[r])])
      <3>1. req[r].position = TopPosition(req[r].parent) + 1 /\ req[r].name \in Names
        BY <1>0, <1>6 DEF WriteCreate, SlotCurrent, HandlerNamed, Handler
      <3>2. Orderly([cat EXCEPT ![c] = NewRow(req[r])])
        BY <1>0, <1>6, <3>1, CreatedOrderly DEF WriteCreate
      <3>3. Wrote(r) \/ Finish(r)
        BY <1>6, <2>2 DEF WriteCreate, Wrote, Finish
      <3> QED BY <1>2, <1>4, <2>2, <3>2, <3>3 DEF Commit
    <2> QED BY <1>6, <2>1, <2>2 DEF WriteCreate
  <1>7. CASE CheckRange(r)
    <2>1. UNCHANGED cat /\ (Finish(r) \/ Goto(r, "write"))
      BY <1>7 DEF CheckRange
    <2>2. CASE Goto(r, "write")
      <3>1. /\ req'[r].pc = "write" /\ req'[r].op = req[r].op
            /\ req'[r].id = req[r].id /\ req'[r].from = req[r].from
            /\ req'[r].parent = req[r].parent /\ req'[r].position = req[r].position
        BY <1>0, <2>2 DEF Goto, TypeOK, Handler
      <3>2. req[r].op \in {"update", "reorder"}
        BY <1>0, <1>7 DEF CheckRange, SlotCurrent
      <3>3. /\ IsLive(req[r].id) /\ req[r].from = cat[req[r].id].position
            /\ req[r].parent = cat[req[r].id].parent /\ req[r].position >= 0
        BY <1>0, <1>7, <3>2 DEF SlotCurrent, CheckRange
      <3>4. SlotCurrent(req[r])'
        BY <2>1, <2>2, <3>1, <3>2, <3>3 DEF SlotCurrent, IsLive
      <3> QED BY <1>3, <2>1, <3>4
    <2> QED BY <1>2, <1>3, <2>1, <2>2
  <1>8. CASE WriteUpdate(r)
    <2>1. CASE Finish(r) /\ UNCHANGED <<cat, cache, reader>>
      BY <1>2, <1>3, <2>1
    <2>2. CASE Commit(UpdatedTable(req[r])) /\ Wrote(r)
      <3>1. /\ req[r].id \in CategoryIds /\ IsLive(req[r].id)
            /\ req[r].from = cat[req[r].id].position
            /\ req[r].parent = cat[req[r].id].parent /\ req[r].position >= 0
        BY <1>0, <1>8 DEF WriteUpdate, SlotCurrent, HandlerNamed
      <3>2. Orderly(UpdatedTable(req[r]))
        BY <1>0, <3>1, UpdatedOrderly
      <3> QED BY <1>4, <2>2, <3>2 DEF Commit
    <2> QED BY <1>8, <2>1, <2>2 DEF WriteUpdate
  <1>9. CASE WriteActive(r)
    <2>1. CASE Finish(r) /\ UNCHANGED <<cat, cache, reader>>
      BY <1>2, <1>3, <2>1
    <2>2. CASE Commit([cat EXCEPT ![req[r].id].active = ~@]) /\ Wrote(r)
      <3>1. req[r].id \in CategoryIds /\ Exists(req[r].id)
        BY <1>0, <1>9 DEF WriteActive, HandlerNamed
      <3>2. Orderly([cat EXCEPT ![req[r].id].active = ~@])
        BY <1>0, <3>1, SwitchedOrderly
      <3> QED BY <1>4, <2>2, <3>2 DEF Commit
    <2> QED BY <1>9, <2>1, <2>2 DEF WriteActive
  <1>10. CASE WriteDelete(r)
    <2> DEFINE gone(c) == [cat[c] EXCEPT !.deleted = TRUE, !.position = -1,
                                         !.slug = None, !.name = None]
               t == [c \in CategoryIds |->
                      IF c \notin MatchedByDelete(req[r].id) THEN cat[c] ELSE gone(c)]
    <2>1. CASE Finish(r) /\ UNCHANGED <<cat, cache, reader>>
      BY <1>2, <1>3, <2>1
    <2>2. CASE ~(Cardinality(MatchedByDelete(req[r].id)) > 1) /\ Commit(t) /\ Wrote(r)
      <3>1. req[r].id \in CategoryIds /\ IsLive(req[r].id)
        BY <1>0, <1>10 DEF WriteDelete, SlotCurrent, HandlerNamed
      <3>2. \A c \in MatchedByDelete(req[r].id) : c \in CategoryIds /\ cat[c] \in Row
        BY <1>0 DEF MatchedByDelete, IsLive, TypeOK
      <3>3. \A c \in MatchedByDelete(req[r].id) : gone(c).deleted
        BY <3>2, DeletedTyped
      <3>4. \A c \in CategoryIds : IF c \in MatchedByDelete(req[r].id) THEN t[c].deleted
                                                                     ELSE t[c] = cat[c]
        BY <3>3
      <3> HIDE DEF t
      <3>5. Orderly(t)
        BY <1>0, <2>2, <3>1, <3>4, DeletedOrderly
      <3> QED BY <1>4, <2>2, <3>5 DEF Commit
    <2> QED BY <1>10, <2>1, <2>2 DEF WriteDelete
  <1>11. CASE DelTree(r) \/ DelSelect(r)
    BY <1>2, <1>3, <1>4, <1>11 DEF DelTree, DelSelect
  <1>12. CASE Abort(r)
    BY <1>2, <1>3, <1>12 DEF Abort
  <1> QED BY <1>5, <1>6, <1>7, <1>8, <1>9, <1>10, <1>11, <1>12 DEF HandlerStep

LEMMA AloneArrives ==
  ASSUME NEW r, Requests = {r}, ~EditDeleted, Alone, Arrive(r)
  PROVE  Orderly(cat)' /\ SlotCurrent(req[r])'
  <1>0. /\ TypeOK /\ Orderly(cat) /\ r \in Requests
    BY DEF Alone, IInv
  <1>1. ASSUME NEW q, Start(r, q), SlotCurrent(q) PROVE Orderly(cat)' /\ SlotCurrent(req[r])'
    <2>1. req'[r] = q /\ UNCHANGED cat
      BY <1>0, <1>1 DEF Start, TypeOK
    <2> QED BY <1>0, <1>1, <2>1, SlotStays
  <1>2. ASSUME NEW n \in Names, NEW p \in CategoryIds \cup {None}, NEW act \in {"on", "off"},
               CreateFind(r, n, p, act)
        PROVE  Orderly(cat)' /\ SlotCurrent(req[r])'
    <2> DEFINE q == [Idle EXCEPT !.op = "create", !.pc = "position", !.name = n,
                                 !.parent = p, !.active = act]
    <2>1. q.op = "create" /\ q.pc = "position" /\ q.parent = p
      BY IdleTyped DEF Handler
    <2>2. Start(r, q)
      BY <1>2 DEF CreateFind
    <2> HIDE DEF q
    <2> QED BY <1>1, <2>1, <2>2 DEF SlotCurrent
  <1>3. ASSUME NEW c \in CategoryIds, NEW n \in Names \cup {None},
               NEW act \in {"on", "off", "keep"}, NEW pos \in 0 .. MaxPosition,
               UpdateFind(r, c, n, act, pos)
        PROVE  Orderly(cat)' /\ SlotCurrent(req[r])'
    <2> DEFINE q == [Idle EXCEPT !.op = "update", !.id = c, !.name = n, !.active = act,
                       !.position = pos, !.parent = cat[c].parent, !.from = cat[c].position,
                       !.pc = IF pos = 0 THEN "write" ELSE "range"]
    <2>1. /\ q.op = "update" /\ q.pc # "position" /\ q.id = c /\ q.position = pos
          /\ q.parent = cat[c].parent /\ q.from = cat[c].position
      BY IdleTyped DEF Handler
    <2>2. Start(r, q) /\ IsLive(c)
      BY <1>3 DEF UpdateFind, Named
    <2> HIDE DEF q
    <2> QED BY <1>1, <2>1, <2>2 DEF SlotCurrent
  <1>4. ASSUME NEW c \in CategoryIds, NEW pos \in 1 .. MaxPosition, ReorderFind(r, c, pos)
        PROVE  Orderly(cat)' /\ SlotCurrent(req[r])'
    <2> DEFINE q == [Idle EXCEPT !.op = "reorder", !.pc = "range", !.id = c, !.position = pos,
                       !.parent = cat[c].parent, !.from = cat[c].position]
    <2>1. /\ q.op = "reorder" /\ q.pc # "position" /\ q.id = c /\ q.position = pos
          /\ q.parent = cat[c].parent /\ q.from = cat[c].position
      BY IdleTyped DEF Handler
    <2>2. Start(r, q) /\ IsLive(c)
      BY <1>4 DEF ReorderFind
    <2> HIDE DEF q
    <2> QED BY <1>1, <2>1, <2>2 DEF SlotCurrent
  <1>5. ASSUME NEW c \in CategoryIds, NEW act \in {"on", "off"}, SetActiveFind(r, c, act)
        PROVE  Orderly(cat)' /\ SlotCurrent(req[r])'
    <2> DEFINE q == [Idle EXCEPT !.op = "activate", !.pc = "write", !.id = c, !.active = act]
    <2>1. q.op = "activate" /\ q.pc = "write"
      BY IdleTyped DEF Handler
    <2>2. Start(r, q)
      BY <1>5 DEF SetActiveFind
    <2> HIDE DEF q
    <2> QED BY <1>1, <2>1, <2>2 DEF SlotCurrent
  <1>6. ASSUME NEW c \in CategoryIds, DeleteFind(r, c) PROVE Orderly(cat)' /\ SlotCurrent(req[r])'
    <2> DEFINE q == [Idle EXCEPT !.op = "delete", !.pc = "write", !.id = c]
    <2>1. q.op = "delete" /\ q.pc = "write" /\ q.id = c
      BY IdleTyped DEF Handler
    <2>2. Start(r, q) /\ IsLive(c)
      BY <1>6 DEF DeleteFind
    <2> HIDE DEF q
    <2> QED BY <1>1, <2>1, <2>2 DEF SlotCurrent
  <1> QED BY <1>2, <1>3, <1>4, <1>5, <1>6 DEF Arrive

LEMMA AloneInvariant ==
  ASSUME NEW r, Requests = {r}, ~EditDeleted
  PROVE  Spec => []Alone
  <1>1. Init => Alone
    <2> SUFFICES ASSUME Init PROVE Alone
      OBVIOUS
    <2>1. Orderly(cat)
      BY DEF Init, Orderly, LiveIn
    <2> QED BY <2>1, InitIInv DEF Init, Alone, SlotCurrent, Idle
  <1>2. ASSUME Alone, [Next]_vars PROVE Alone'
    <2>1. IInv'
      BY <1>2, IInvPreserved DEF Alone
    <2>2. CASE Arrive(r) \/ HandlerStep(r)
      BY <1>2, <2>1, <2>2, AloneArrives, AloneHandlerStep DEF Alone
    <2>3. CASE UNCHANGED <<cat, req>>
      <3>1. Orderly(cat)'
        BY <1>2, <2>3 DEF Alone
      <3>2. SlotCurrent(req[r])'
        BY <1>2, <2>3, SlotStays DEF Alone
      <3> QED BY <2>1, <3>1, <3>2 DEF Alone
    <2> QED BY <1>2, <2>2, <2>3 DEF Next, vars
  <1> QED BY <1>1, <1>2, PTL DEF Spec

\* Admin requests one at a time leave live siblings in distinct places: a move
\* and the shift around it are one transaction and shift as far as they must.
THEOREM PlacesDistinctOneAtATime ==
  ASSUME NEW r, Requests = {r}, ~EditDeleted
  PROVE  Spec => []PositionsDistinct
  <1>1. Alone => PositionsDistinct
    BY OrderlyIs DEF Alone
  <1> QED BY AloneInvariant, <1>1, PTL

-----------------------------------------------------------------------------
(* Orphans, under every interleaving of any number of admin requests.        *)

\* A table t in which every row there was keeps its parent, and is deleted if and
\* only if it was, has no orphans among them that there were not.
LEMMA LinksKept ==
  ASSUME TypeOK, NEW c \in CategoryIds, Exists(c), Orphan(c)', ~Orphan(c),
         \A d \in CategoryIds : Exists(d) =>
           /\ cat'[d] # None /\ cat'[d].parent = cat[d].parent
           /\ cat'[d].deleted = cat[d].deleted
  PROVE  FALSE
  <1>1. cat[c] \in Row /\ cat'[c].parent = cat[c].parent /\ IsLive(c)
    BY DEF TypeOK, Exists, Orphan, IsLive
  <1>2. cat[c].parent # None /\ ~IsLive(cat[c].parent)'
    BY <1>1 DEF Orphan
  <1>3. cat[c].parent \in CategoryIds
    BY <1>1, <1>2 DEF Row
  <1>4. IsLive(cat[c].parent)
    BY <1>1, <1>2 DEF Orphan
  <1> QED BY <1>2, <1>3, <1>4 DEF IsLive, Exists

LEMMA UpdateKeepsLinks ==
  ASSUME TypeOK, NEW q \in Handler, NEW c \in CategoryIds, Exists(c)
  PROVE  /\ UpdatedTable(q)[c] # None /\ UpdatedTable(q)[c].parent = cat[c].parent
         /\ UpdatedTable(q)[c].deleted = cat[c].deleted
  <1> DEFINE t == UpdatedTable(q)
  <1>1. cat[c] \in Row /\ cat[c].position \in Int
    BY DEF TypeOK, Exists, Row
  <1>2. CASE c = q.id
    <2>1. t[c] = Updated(q, cat[c]) /\ Updated(q, cat[c]) \in Row
      BY <1>1, <1>2, UpdatedTyped DEF UpdatedTable
    <2>2. Updated(q, cat[c]).deleted = cat[c].deleted /\ Updated(q, cat[c]).parent = cat[c].parent
      BY <1>1 DEF Updated, Row
    <2> QED BY <2>1, <2>2
  <1>3. CASE c # q.id /\ q.position # 0 /\ cat[c].parent = q.parent
    <2> DEFINE row == [cat[c] EXCEPT !.position = Shifted(q, @)]
    <2>1. t[c] = row
      BY <1>3 DEF UpdatedTable
    <2>2. row \in Row
      BY <1>1, ShiftedTyped, PlacedTyped
    <2>3. row.deleted = cat[c].deleted /\ row.parent = cat[c].parent
      BY <1>1 DEF Row
    <2> HIDE DEF row
    <2>4. row # None
      BY <2>2, NoneIsNoRow
    <2> QED BY <2>1, <2>3, <2>4
  <1>4. CASE c # q.id /\ ~(q.position # 0 /\ cat[c].parent = q.parent)
    <2>1. t[c] = cat[c]
      BY <1>4 DEF UpdatedTable
    <2> QED BY <1>1, <2>1
  <1> QED BY <1>2, <1>3, <1>4

\* A delete that goes through while its category is live matched that row alone:
\* no row below it was live.
LEMMA DeleteLeavesNone ==
  ASSUME TypeOK, NEW i \in CategoryIds, IsLive(i), ~(Cardinality(MatchedByDelete(i)) > 1),
         NEW c \in CategoryIds, Exists(c), Orphan(c)', ~Orphan(c),
         \A d \in CategoryIds : IF d \in MatchedByDelete(i) THEN cat'[d].deleted
                                                           ELSE cat'[d] = cat[d]
  PROVE  FALSE
  <1>1. \A d \in CategoryIds : IF d = i THEN cat'[d].deleted ELSE cat'[d] = cat[d]
    BY OneMatched
  <1>2. c # i /\ cat'[c] = cat[c] /\ IsLive(c) /\ cat[c] \in Row
    BY <1>1 DEF Orphan, IsLive, TypeOK, Exists
  <1>3. PICK p \in CategoryIds : p = cat[c].parent /\ p = cat'[c].parent /\ p # None
    BY <1>2 DEF Orphan, Row
  <1>4. IsLive(p) /\ ~IsLive(p)'
    BY <1>2, <1>3 DEF Orphan
  <1>5. p = i
    BY <1>1, <1>4 DEF IsLive
  <1>6. c \in MatchedByDelete(i)
    BY <1>2, <1>3, <1>5 DEF MatchedByDelete
  <1> QED BY <1>2, <1>6, OneMatched

\* What makes c, a row already, an orphan: a delete of a category that another
\* request had deleted.
LateDelete(r) == req[r].op = "delete" /\ req[r].pc = "write" /\ ~IsLive(req[r].id)

LEMMA OrphanStep ==
  ASSUME IInv, NEW r \in Requests, HandlerStep(r),
         NEW c \in CategoryIds, Exists(c), Orphan(c)', ~Orphan(c)
  PROVE  LateDelete(r)
  <1>0. TypeOK /\ req[r] \in Handler /\ HandlerNamed(req[r])
    BY DEF IInv, TypeOK
  <1>1. ~UNCHANGED cat
    BY DEF Orphan, IsLive
  <1>2. ASSUME NEW d \in CategoryIds, WriteCreate(r, d) PROVE FALSE
    <2>1. cat' = [cat EXCEPT ![d] = NewRow(req[r])] /\ ~Exists(d) /\ req[r].name \in Names
      BY <1>0, <1>1, <1>2 DEF WriteCreate, Commit, HandlerNamed
    <2>2. NewRow(req[r]) \in Row /\ ~NewRow(req[r]).deleted
      BY <1>0, <2>1, NewRowTyped DEF NewRow
    <2>3. \A e \in CategoryIds : cat'[e] = IF e = d THEN NewRow(req[r]) ELSE cat[e]
      BY <1>0, <2>1 DEF TypeOK
    <2>4. cat'[c] = cat[c] /\ IsLive(c) /\ cat[c] \in Row
      BY <1>0, <2>1, <2>3 DEF Orphan, IsLive, Exists, TypeOK
    <2>5. cat[c].parent # None /\ cat[c].parent \in CategoryIds /\ ~IsLive(cat[c].parent)'
      BY <2>4 DEF Orphan, Row
    <2>6. IsLive(cat[c].parent)
      BY <2>4, <2>5 DEF Orphan
    <2> QED BY <2>1, <2>3, <2>5, <2>6 DEF IsLive, Exists
  <1>3. CASE WriteUpdate(r)
    <2>1. cat' = UpdatedTable(req[r])
      BY <1>1, <1>3 DEF WriteUpdate, Commit
    <2> QED BY <1>0, <2>1, UpdateKeepsLinks, LinksKept
  <1>4. CASE WriteActive(r)
    <2> DEFINE i == req[r].id
               row == [cat[i] EXCEPT !.active = ~@]
    <2>1. cat' = [cat EXCEPT ![i] = row] /\ i \in CategoryIds /\ cat[i] \in Row
      BY <1>0, <1>1, <1>4 DEF WriteActive, Commit, HandlerNamed, Exists, TypeOK
    <2>2. row \in Row /\ row.parent = cat[i].parent /\ row.deleted = cat[i].deleted
      BY <2>1, SwitchedTyped DEF Row
    <2>3. \A d \in CategoryIds : cat'[d] = IF d = i THEN row ELSE cat[d]
      BY <1>0, <2>1 DEF TypeOK
    <2> HIDE DEF row, i
    <2> QED BY <1>0, <2>2, <2>3, LinksKept DEF Exists
  <1>5. CASE WriteDelete(r)
    <2> DEFINE i == req[r].id
               gone(d) == [cat[d] EXCEPT !.deleted = TRUE, !.position = -1,
                                         !.slug = None, !.name = None]
               t == [d \in CategoryIds |-> IF d \notin MatchedByDelete(i) THEN cat[d] ELSE gone(d)]
    <2>1. /\ cat' = t /\ ~(Cardinality(MatchedByDelete(i)) > 1)
          /\ req[r].op = "delete" /\ req[r].pc = "write" /\ i \in CategoryIds
      BY <1>0, <1>1, <1>5 DEF WriteDelete, Commit, HandlerNamed
    <2>2. \A d \in MatchedByDelete(i) : d \in CategoryIds /\ cat[d] \in Row
      BY <1>0 DEF MatchedByDelete, IsLive, TypeOK
    <2>3. \A d \in MatchedByDelete(i) : gone(d).deleted
      BY <2>2, DeletedTyped
    <2>4. \A d \in CategoryIds : IF d \in MatchedByDelete(i) THEN cat'[d].deleted
                                                            ELSE cat'[d] = cat[d]
      BY <2>1, <2>3
    <2>5. ~IsLive(i)
      BY <1>0, <2>1, <2>4, DeleteLeavesNone
    <2> QED BY <2>1, <2>5 DEF LateDelete
  <1> QED BY <1>1, <1>2, <1>3, <1>4, <1>5
          DEF HandlerStep, CreatePosition, CheckRange, DelTree, DelSelect, Abort

\* However admin requests interleave, a live category is left under a deleted one
\* only if it was created there, or by a delete that came second.
THEOREM OrphansAreExplained == Spec => OrphansExplained
  <1>1. ASSUME IInv, [Next]_vars, NEW c \in CategoryIds, Orphan(c)', ~Orphan(c), Exists(c)
        PROVE  \E r \in Requests : LateDelete(r)
    <2>1. ~UNCHANGED cat
      BY <1>1 DEF Orphan, IsLive
    <2>2. PICK r \in Requests : Arrive(r) \/ HandlerStep(r)
      BY <1>1, <2>1 DEF Next, vars
    <2>3. ~Arrive(r)
      BY <2>1 DEF Arrive, CreateFind, UpdateFind, ReorderFind, SetActiveFind, DeleteFind, Start
    <2> QED BY <1>1, <2>2, <2>3, OrphanStep
  <1>2. IInv /\ [Next]_vars =>
          [\A c \in CategoryIds : Orphan(c)' /\ ~Orphan(c) /\ Exists(c) =>
             \E r \in Requests :
               req[r].op = "delete" /\ req[r].pc = "write" /\ ~IsLive(req[r].id)]_vars
    BY <1>1 DEF LateDelete
  <1>3. Spec => [][\A c \in CategoryIds : Orphan(c)' /\ ~Orphan(c) /\ Exists(c) =>
             \E r \in Requests :
               req[r].op = "delete" /\ req[r].pc = "write" /\ ~IsLive(req[r].id)]_vars
    BY InvariantHolds, <1>2, PTL DEF Spec
  <1> QED BY <1>3 DEF OrphansExplained
=============================================================================
